-------------------------- MODULE ContainersProofs --------------------------
(***************************************************************************)
(* For any keys, items, hash function, shapes and sequence of commands: the *)
(* map, the memory counter and the policy agree and stay within the limits, *)
(* sketches never underestimate and their rows sum to what was added,      *)
(* filters have no false negative, an empty                                *)
(* sorted set is no key.                                                    *)
(***************************************************************************)
EXTENDS Containers, EvictionProofs

(* Loops: a recursive function over 0 .. N exists, and what holds at 0 and   *)
(* is kept by each step holds at N.                                          *)

LEMMA CountUp ==
    ASSUME NEW N \in Nat, NEW S, 0 \in S, \A n \in 1 .. N : n - 1 \in S => n \in S
    PROVE  \A n \in 0 .. N : n \in S
<1> DEFINE B == {n \in 0 .. N : n \notin S}
           id == [n \in B |-> n]
<1> SUFFICES ASSUME B # {} PROVE FALSE
  OBVIOUS
<1>1. id \in [B -> Nat]
  OBVIOUS
<1> HIDE DEF id
<1>2. PICK m \in B : \A n \in B : id[m] <= id[n]
  BY <1>1, Smallest
<1>3. \A n \in B : m <= n
  BY <1>2 DEF id
<1>4. m \in 1 .. N /\ m \notin S
  BY SMT
<1>5. m - 1 \notin B
  BY <1>3, <1>4, SMT
<1>6. m - 1 \in S
  BY <1>4, <1>5, SMT
<1> QED  BY <1>4, <1>6

\* g is the first n rounds of a loop that starts with b.
Rounds(g, n, T, b, f) ==
    /\ g \in [0 .. n -> T]
    /\ g = [m \in 0 .. n |-> IF m = 0 THEN b ELSE f[m][g[m - 1]]]

LEMMA Recursion ==
    ASSUME NEW N \in Nat, NEW T, NEW b \in T, NEW f \in [1 .. N -> [T -> T]]
    PROVE  \E g : Rounds(g, N, T, b, f)
<1> DEFINE S == {n \in 0 .. N : \E g : Rounds(g, n, T, b, f)}
<1>1. 0 \in S
  <2>1. Rounds([m \in 0 .. 0 |-> b], 0, T, b, f)
    BY SMT DEF Rounds
  <2>2. 0 \in 0 .. N
    BY SMT
  <2> QED  BY <2>1, <2>2, Zenon
<1>2. ASSUME NEW n \in 1 .. N, n - 1 \in S PROVE n \in S
  <2>1. PICK g : Rounds(g, n - 1, T, b, f)
    BY <1>2, Zenon
  <2> DEFINE h == [m \in 0 .. n |-> IF m = n THEN f[n][g[n - 1]] ELSE g[m]]
  <2>2. \A m \in 0 .. n - 1 : h[m] = g[m] /\ g[m] \in T
    BY <2>1, SMT DEF Rounds
  <2>3. n \in 0 .. n /\ n - 1 \in 0 .. n - 1 /\ n \in 1 .. N
    BY SMT
  <2>4. h[n] = f[n][g[n - 1]] /\ f[n][g[n - 1]] \in T
    BY <2>2, <2>3, Zenon
  <2>5. \A m \in 0 .. n : m = n \/ m \in 0 .. n - 1
    BY SMT
  <2>6. h \in [0 .. n -> T]
    <3>1. \A m \in 0 .. n : h[m] \in T
      BY <2>2, <2>4, <2>5, Zenon
    <3> QED  BY <3>1
  <2>7. ASSUME NEW m \in 0 .. n PROVE h[m] = IF m = 0 THEN b ELSE f[m][h[m - 1]]
    <3>1. CASE m = n
      <4>1. h[n - 1] = g[n - 1] /\ m # 0
        BY <2>2, <2>3, <3>1, SMT
      <4> HIDE DEF h
      <4> QED  BY <3>1, <4>1, <2>4
    <3>2. CASE m # n
      <4>1. m \in 0 .. n - 1 /\ (m # 0 => m - 1 \in 0 .. n - 1)
        BY <3>2, SMT
      <4>2. g[m] = IF m = 0 THEN b ELSE f[m][g[m - 1]]
        BY <2>1, <4>1, Zenon DEF Rounds
      <4> HIDE DEF h
      <4> QED  BY <4>1, <4>2, <2>2
    <3> QED  BY <3>1, <3>2
  <2>8. h = [m \in 0 .. n |-> h[m]]
    OBVIOUS
  <2> HIDE DEF h
  <2>9. Rounds(h, n, T, b, f)
    BY <2>6, <2>7, <2>8 DEF Rounds
  <2>10. n \in 0 .. N
    BY SMT
  <2> QED  BY <2>9, <2>10, Zenon
<1> HIDE DEF S
<1>3. \A n \in 0 .. N : n \in S
  BY <1>1, <1>2, CountUp
<1>4. N \in 0 .. N
  BY SMT
<1> QED  BY <1>3, <1>4 DEF S
-----------------------------------------------------------------------------
(* Sums over finite sets. MapThenSumSet takes the elements in the order of a *)
(* CHOOSE that does not look at what is summed, so that sums over one set    *)
(* are added, scaled and compared term by term.                              *)

LEMMA SubsetInduction ==
    ASSUME NEW S, IsFiniteSet(S), NEW P, {} \in P,
           \A X \in SUBSET S : X # {} /\ X \ {CHOOSE x \in X : TRUE} \in P => X \in P
    PROVE  \A X \in SUBSET S : X \in P
<1> DEFINE N == Cardinality(S)
           Q == {n \in 0 .. N : \A X \in SUBSET S : Cardinality(X) = n => X \in P}
<1>1. N \in Nat /\ \A X \in SUBSET S : IsFiniteSet(X) /\ Cardinality(X) \in 0 .. N
  <2>1. N \in Nat
    BY FS_CardinalityType
  <2>2. ASSUME NEW X \in SUBSET S PROVE IsFiniteSet(X) /\ Cardinality(X) \in 0 .. N
    <3>1. IsFiniteSet(X) /\ Cardinality(X) <= N /\ Cardinality(X) \in Nat
      BY FS_Subset, FS_CardinalityType
    <3> QED  BY <2>1, <3>1, SMT
  <2> QED  BY <2>1, <2>2
<1>2. 0 \in Q
  <2>1. 0 \in 0 .. N
    BY <1>1, SMT
  <2>2. ASSUME NEW X \in SUBSET S, Cardinality(X) = 0 PROVE X \in P
    BY <1>1, <2>2, FS_EmptySet, ZenonT(40)
  <2> QED  BY <2>1, <2>2
<1>3. ASSUME NEW n \in 1 .. N, n - 1 \in Q PROVE n \in Q
  <2> SUFFICES ASSUME NEW X \in SUBSET S, Cardinality(X) = n PROVE X \in P
    BY <1>1, SMT
  <2> DEFINE x == CHOOSE x \in X : TRUE
  <2>1. IsFiniteSet(X) /\ X # {}
    <3>1. n # 0
      BY <1>1, SMT
    <3> QED  BY <1>1, <3>1, FS_EmptySet
  <2>2. x \in X
    BY <2>1
  <2>3. X \ {x} \in SUBSET S /\ Cardinality(X \ {x}) = n - 1
    BY <2>1, <2>2, FS_RemoveElement
  <2>4. X \ {x} \in P
    BY <1>3, <2>3
  <2> QED  BY <2>1, <2>4
<1> HIDE DEF Q
<1>4. \A n \in 0 .. N : n \in Q
  BY <1>1, <1>2, <1>3, CountUp
<1> QED  BY <1>1, <1>4 DEF Q

\* The sum of f over S, and the recursion it is defined by.
SumOver(f, S) == MapThenSumSet(LAMBDA x : f[x], S)
SumsBy(g, f, S) ==
    g = [X \in SUBSET S |-> IF X = {} THEN 0
                            ELSE f[CHOOSE x \in X : TRUE] + g[X \ {CHOOSE x \in X : TRUE}]]

LEMMA SumRounds ==
    ASSUME NEW S, IsFiniteSet(S), NEW f \in [S -> Nat]
    PROVE  \E g : SumsBy(g, f, S)
<1> DEFINE N == Cardinality(S) + 1
           T == [SUBSET S -> Nat]
           b == [X \in SUBSET S |-> 0]
           pick(X) == CHOOSE x \in X : TRUE
           Step(h) == [X \in SUBSET S |-> IF X = {} THEN 0
                                          ELSE f[pick(X)] + h[X \ {pick(X)}]]
           F == [n \in 1 .. N |-> [h \in T |-> Step(h)]]
<1>1. N \in Nat /\ \A X \in SUBSET S : IsFiniteSet(X) /\ Cardinality(X) \in Nat
                                       /\ Cardinality(X) < N
  <2>1. Cardinality(S) \in Nat
    BY FS_CardinalityType
  <2>2. ASSUME NEW X \in SUBSET S
        PROVE  IsFiniteSet(X) /\ Cardinality(X) \in Nat /\ Cardinality(X) < N
    <3>1. IsFiniteSet(X) /\ Cardinality(X) <= Cardinality(S) /\ Cardinality(X) \in Nat
      BY FS_Subset, FS_CardinalityType
    <3> QED  BY <2>1, <3>1, SMT
  <2> QED  BY <2>1, <2>2
<1>2. \A X \in SUBSET S : X # {} => pick(X) \in X /\ X \ {pick(X)} \in SUBSET S
  OBVIOUS
<1>3. ASSUME NEW h \in T PROVE Step(h) \in T
  <2> SUFFICES ASSUME NEW X \in SUBSET S, X # {}
               PROVE  f[pick(X)] + h[X \ {pick(X)}] \in Nat
    OBVIOUS
  <2>1. f[pick(X)] \in Nat /\ h[X \ {pick(X)}] \in Nat
    BY <1>2
  <2> QED  BY <2>1, SMT
<1>4. b \in T
  OBVIOUS
<1>5. F \in [1 .. N -> [T -> T]]
  BY <1>3
<1> HIDE DEF T, b, pick
<1>6. PICK g : Rounds(g, N, T, b, F)
  <2> HIDE DEF F, N
  <2> QED  BY <1>1, <1>4, <1>5, Recursion
<1>7. \A n \in 1 .. N : /\ g[n - 1] \in T /\ g[n] \in T
                        /\ g[n] = Step(g[n - 1])
  <2> SUFFICES ASSUME NEW n \in 1 .. N
               PROVE  g[n - 1] \in T /\ g[n] \in T /\ g[n] = Step(g[n - 1])
    OBVIOUS
  <2>1. n \in 0 .. N /\ n - 1 \in 0 .. N /\ n # 0
    <3> HIDE DEF N
    <3> QED  BY <1>1, SMT
  <2>2. g[n - 1] \in T /\ g[n] \in T /\ g[n] = F[n][g[n - 1]]
    <3> HIDE DEF F, N
    <3> QED  BY <1>6, <2>1 DEF Rounds
  <2>3. F[n][g[n - 1]] = Step(g[n - 1])
    BY <2>2
  <2> QED  BY <2>2, <2>3
<1> HIDE DEF F, Step
\* After n rounds the sums of sets smaller than n no longer change.
<1> DEFINE Q == {n \in 0 .. N : n # 0 => \A X \in SUBSET S :
                    Cardinality(X) + 1 < n => g[n][X] = g[n - 1][X]}
<1>8. ASSUME NEW n \in 1 .. N, n - 1 \in Q PROVE n \in Q
  <2> SUFFICES ASSUME NEW X \in SUBSET S, Cardinality(X) + 1 < n PROVE g[n][X] = g[n - 1][X]
    <3> HIDE DEF N
    <3> QED  BY <1>1, SMT
  <2>1. n - 1 \in 1 .. N /\ n - 1 # 0 /\ n \in 1 .. N
    <3>1. Cardinality(X) \in Nat
      BY <1>1
    <3> HIDE DEF N
    <3> QED  BY <1>1, <3>1, SMT
  <2>2. g[n][X] = IF X = {} THEN 0 ELSE f[pick(X)] + g[n - 1][X \ {pick(X)}]
    BY <1>7, <2>1 DEF Step
  <2>3. g[n - 1][X] = IF X = {} THEN 0 ELSE f[pick(X)] + g[n - 1 - 1][X \ {pick(X)}]
    BY <1>7, <2>1 DEF Step
  <2>4. CASE X # {}
    <3> DEFINE Y == X \ {pick(X)}
    <3>1. Y \in SUBSET S /\ Cardinality(Y) = Cardinality(X) - 1 /\ Cardinality(X) \in Nat
      BY <1>1, <1>2, <2>4, FS_RemoveElement
    <3> HIDE DEF Y, N
    <3>2. Cardinality(Y) + 1 < n - 1
      BY <1>1, <3>1, SMT
    <3>3. g[n - 1][Y] = g[n - 1 - 1][Y]
      BY <1>8, <2>1, <3>1, <3>2
    <3> QED  BY <2>2, <2>3, <3>3 DEF Y
  <2> QED  BY <2>2, <2>3, <2>4
<1>9. 0 \in Q
  <2> HIDE DEF N
  <2> QED  BY <1>1, SMT
<1> HIDE DEF Q
<1>10. \A n \in 0 .. N : n \in Q
  <2> HIDE DEF N
  <2> QED  BY <1>1, <1>8, <1>9, CountUp
<1>11. N \in 1 .. N /\ N \in 0 .. N /\ N # 0
  <2>1. Cardinality(S) \in Nat
    BY FS_CardinalityType
  <2> QED  BY <2>1, SMT
<1>12. \A X \in SUBSET S : Cardinality(X) + 1 < N => g[N][X] = g[N - 1][X]
  BY <1>10, <1>11 DEF Q
<1>13. \A X \in SUBSET S : g[N][X] = IF X = {} THEN 0 ELSE f[pick(X)] + g[N][X \ {pick(X)}]
  <2> SUFFICES ASSUME NEW X \in SUBSET S
               PROVE  g[N][X] = IF X = {} THEN 0 ELSE f[pick(X)] + g[N][X \ {pick(X)}]
    OBVIOUS
  <2>1. g[N][X] = IF X = {} THEN 0 ELSE f[pick(X)] + g[N - 1][X \ {pick(X)}]
    BY <1>7, <1>11 DEF Step
  <2>2. CASE X # {}
    <3> DEFINE Y == X \ {pick(X)}
    <3>1. Y \in SUBSET S /\ Cardinality(Y) = Cardinality(X) - 1 /\ Cardinality(X) \in Nat
          /\ Cardinality(X) < N
      BY <1>1, <1>2, <2>2, FS_RemoveElement
    <3> HIDE DEF Y, N
    <3>2. Cardinality(Y) + 1 < N
      BY <1>1, <3>1, SMT
    <3>3. g[N][Y] = g[N - 1][Y]
      BY <1>12, <3>1, <3>2
    <3> QED  BY <2>1, <3>3 DEF Y
  <2> QED  BY <2>1, <2>2
<1>14. g[N] \in [SUBSET S -> Nat]
  BY <1>7, <1>11 DEF T
<1>15. SumsBy(g[N], f, S)
  <2> PICK h : h = g[N]
    OBVIOUS
  <2>1. h \in [SUBSET S -> Nat] /\ \A X \in SUBSET S :
            h[X] = IF X = {} THEN 0 ELSE f[pick(X)] + h[X \ {pick(X)}]
    BY <1>13, <1>14
  <2>2. SumsBy(h, f, S)
    BY <2>1 DEF SumsBy, pick
  <2> QED  BY <2>2
<1> QED  BY <1>15

\* What MapThenSumSet is, by one such recursion.
LEMMA SumIs ==
    ASSUME NEW S, IsFiniteSet(S), NEW f \in [S -> Nat]
    PROVE  \E g : SumsBy(g, f, S) /\ SumOver(f, S) = g[S]
<1>1. PICK g : SumsBy(g, f, S)
  BY SumRounds
<1>2. SumsBy(CHOOSE h : SumsBy(h, f, S), f, S)
  BY <1>1
<1>3. SumOver(f, S) = (CHOOSE h : SumsBy(h, f, S))[S]
  BY DEF SumOver, MapThenSumSet, MapThenFoldSet, SumsBy
<1> QED  BY <1>2, <1>3

\* A sum is what it was of the other elements and the value of the chosen one.
LEMMA SumParts ==
    ASSUME NEW S, IsFiniteSet(S), NEW f \in [S -> Nat]
    PROVE  SumOver(f, S) \in Nat
<1>1. PICK g : SumsBy(g, f, S) /\ SumOver(f, S) = g[S]
  BY SumIs
<1> DEFINE P == {X \in SUBSET S : g[X] \in Nat}
<1>2. {} \in P
  BY <1>1 DEF SumsBy
<1>3. ASSUME NEW X \in SUBSET S, X # {}, X \ {CHOOSE x \in X : TRUE} \in P PROVE X \in P
  <2> DEFINE x == CHOOSE x \in X : TRUE
  <2>1. x \in S /\ f[x] \in Nat /\ g[X \ {x}] \in Nat
    BY <1>3
  <2>2. g[X] = f[x] + g[X \ {x}]
    BY <1>1, <1>3 DEF SumsBy
  <2> HIDE DEF x
  <2> QED  BY <2>1, <2>2, SMT
<1> HIDE DEF P
<1>4. \A X \in SUBSET S : X \in P
  BY <1>2, <1>3, SubsetInduction
<1> QED  BY <1>1, <1>4 DEF P

\* Sums are added term by term.
TermByTerm(h, f, u, w, S) == \A x \in S : h[x] = f[x] + w * u[x]

LEMMA SumAdds ==
    ASSUME NEW S, IsFiniteSet(S), NEW f \in [S -> Nat], NEW u \in [S -> Nat], NEW w \in Nat,
           NEW h \in [S -> Nat], TermByTerm(h, f, u, w, S)
    PROVE  SumOver(h, S) = SumOver(f, S) + w * SumOver(u, S)
<1>1. PICK F, U, H : /\ SumsBy(F, f, S) /\ SumOver(f, S) = F[S]
                     /\ SumsBy(U, u, S) /\ SumOver(u, S) = U[S]
                     /\ SumsBy(H, h, S) /\ SumOver(h, S) = H[S]
  BY SumIs
<1> DEFINE P == {X \in SUBSET S : /\ F[X] \in Nat /\ U[X] \in Nat
                                  /\ H[X] = F[X] + w * U[X]}
<1>2. {} \in P
  <2>1. F[{}] = 0 /\ U[{}] = 0 /\ H[{}] = 0
    BY <1>1 DEF SumsBy
  <2>2. 0 \in Nat /\ 0 = 0 + w * 0
    BY SMT
  <2> QED  BY <2>1, <2>2, Zenon
<1>3. ASSUME NEW X \in SUBSET S, X # {}, X \ {CHOOSE x \in X : TRUE} \in P PROVE X \in P
  <2> DEFINE x == CHOOSE x \in X : TRUE
             Y == X \ {x}
  <2>1. x \in S /\ f[x] \in Nat /\ u[x] \in Nat /\ h[x] = f[x] + w * u[x]
    <3>1. x \in S
      BY <1>3, Zenon
    <3> HIDE DEF x
    <3> QED  BY <3>1, Zenon DEF TermByTerm
  <2>2. F[Y] \in Nat /\ U[Y] \in Nat /\ H[Y] = F[Y] + w * U[Y]
    BY <1>3, Zenon
  <2>3. F[X] = f[x] + F[Y] /\ U[X] = u[x] + U[Y] /\ H[X] = h[x] + H[Y]
    BY <1>1, <1>3 DEF SumsBy
  <2>4. PICK a, b, c, e : a = f[x] /\ b = u[x] /\ c = F[Y] /\ e = U[Y]
    OBVIOUS
  <2> HIDE DEF x, Y
  <2>5. a \in Nat /\ b \in Nat /\ c \in Nat /\ e \in Nat
    BY <2>1, <2>2, <2>4, Zenon
  <2>6. F[X] = a + c /\ U[X] = b + e
    BY <2>3, <2>4, Zenon
  <2>7. h[x] = a + w * b /\ H[Y] = c + w * e
    BY <2>1, <2>2, <2>4, Zenon
  <2>8. H[X] = (a + w * b) + (c + w * e)
    BY <2>3, <2>7, Zenon
  <2>9. a + c \in Nat /\ b + e \in Nat /\ (a + w * b) + (c + w * e) = (a + c) + w * (b + e)
    BY <2>5, SMT
  <2>10. F[X] \in Nat /\ U[X] \in Nat /\ H[X] = F[X] + w * U[X]
    BY <2>9, <2>6, <2>8, Zenon
  <2> QED  BY <2>10
<1> HIDE DEF P
<1>4. \A X \in SUBSET S : X \in P
  BY <1>2, <1>3, SubsetInduction
<1> QED  BY <1>1, <1>4 DEF P

\* One term and zeros.
LEMMA SumOfOne ==
    ASSUME NEW S, IsFiniteSet(S), NEW y \in S
    PROVE  SumOver([x \in S |-> IF x = y THEN 1 ELSE 0], S) = 1
<1> DEFINE f == [x \in S |-> IF x = y THEN 1 ELSE 0]
<1>1. f \in [S -> Nat] /\ f[y] = 1 /\ \A x \in S : x # y => f[x] = 0
  OBVIOUS
<1> HIDE DEF f
<1>2. PICK g : SumsBy(g, f, S) /\ SumOver(f, S) = g[S]
  BY <1>1, SumIs
<1> DEFINE P == {X \in SUBSET S : g[X] = IF y \in X THEN 1 ELSE 0}
<1>3. {} \in P
  BY <1>2 DEF SumsBy
<1>4. ASSUME NEW X \in SUBSET S, X # {}, X \ {CHOOSE x \in X : TRUE} \in P PROVE X \in P
  <2> DEFINE x == CHOOSE x \in X : TRUE
             Y == X \ {x}
  <2>1. x \in X /\ x \in S
    BY <1>4
  <2>2. g[X] = f[x] + g[Y] /\ g[Y] = IF y \in Y THEN 1 ELSE 0
    BY <1>2, <1>4 DEF SumsBy
  <2>3. CASE x = y
    <3>1. y \notin Y /\ y \in X /\ f[x] = 1 /\ g[Y] = 0
      BY <1>1, <2>1, <2>2, <2>3
    <3> HIDE DEF x, Y
    <3> QED  BY <2>2, <3>1, SMT
  <2>4. CASE x # y
    <3>1. (y \in Y <=> y \in X) /\ f[x] = 0
      BY <1>1, <2>1, <2>4
    <3> HIDE DEF x, Y
    <3> QED  BY <2>2, <3>1, SMT
  <2> QED  BY <2>3, <2>4
<1> HIDE DEF P
<1>5. \A X \in SUBSET S : X \in P
  BY <1>3, <1>4, SubsetInduction
<1>6. S \in P
  BY <1>5
<1>7. g[S] = 1
  BY <1>6 DEF P
<1> QED  BY <1>2, <1>7 DEF f

LEMMA SumOfNone ==
    ASSUME NEW S, IsFiniteSet(S)
    PROVE  SumOver([x \in S |-> 0], S) = 0
<1> DEFINE f == [x \in S |-> 0]
<1>1. f \in [S -> Nat] /\ TermByTerm(f, f, f, 1, S)
  BY DEF TermByTerm
<1> HIDE DEF f
<1>2. SumOver(f, S) = SumOver(f, S) + 1 * SumOver(f, S) /\ SumOver(f, S) \in Nat
  BY <1>1, SumAdds, SumParts
<1>3. SumOver(f, S) = 0
  <2>1. PICK n \in Nat : n = SumOver(f, S)
    BY <1>2
  <2>2. n = n + 1 * n
    BY <1>2, <2>1, Zenon
  <2>3. \A m \in Nat : m = m + 1 * m => m = 0
    BY SMT
  <2> QED  BY <2>1, <2>2, <2>3, Zenon
<1> QED  BY <1>3 DEF f

\* One term more by v is a sum more by v.
LEMMA SumRaised ==
    ASSUME NEW S, IsFiniteSet(S), NEW f \in [S -> Nat], NEW y \in S, NEW v \in Nat
    PROVE  SumOver([f EXCEPT ![y] = @ + v], S) = SumOver(f, S) + v
<1> DEFINE h == [f EXCEPT ![y] = @ + v]
           u == [x \in S |-> IF x = y THEN 1 ELSE 0]
<1>1. h \in [S -> Nat] /\ TermByTerm(h, f, u, v, S)
  <2>1. \A x \in S : h[x] = (IF x = y THEN f[x] + v ELSE f[x]) /\ f[x] \in Nat
    OBVIOUS
  <2>2. ASSUME NEW x \in S PROVE h[x] \in Nat /\ h[x] = f[x] + v * u[x]
    <3>1. u[x] = IF x = y THEN 1 ELSE 0
      OBVIOUS
    <3> HIDE DEF h, u
    <3> QED  BY <2>1, <3>1, SMT
  <2>3. h = [x \in S |-> h[x]]
    OBVIOUS
  <2> HIDE DEF h, u
  <2> QED  BY <2>2, <2>3 DEF TermByTerm
<1>2. u \in [S -> Nat]
  OBVIOUS
<1>3. SumOver(u, S) = 1
  BY SumOfOne
<1> HIDE DEF h, u
<1>4. SumOver(h, S) = SumOver(f, S) + v * SumOver(u, S)
  BY <1>1, <1>2, SumAdds
<1>5. SumOver(f, S) \in Nat
  BY SumParts
<1>6. SumOver(h, S) = SumOver(f, S) + v
  BY <1>3, <1>4, <1>5, SMT
<1> QED  BY <1>6 DEF h

-----------------------------------------------------------------------------
(* Sizes: the size of a record is a natural number, and replacing the record *)
(* of one key changes what a map occupies by the difference of the sizes.    *)

LEMMA FiniteUnion ==
    ASSUME NEW S, IsFiniteSet(S), NEW f, \A x \in S : IsFiniteSet(f[x])
    PROVE  IsFiniteSet(UNION {f[x] : x \in S})
<1> DEFINE T == {f[x] : x \in S}
           g == [x \in S |-> f[x]]
<1>1. g \in Surjection(S, T)
  BY DEF Surjection
<1>2. IsFiniteSet(T)
  BY <1>1, FS_Surjection
<1> QED  BY <1>2, FS_UNION

LEMMA MemberBytesFinite == \A S \in SUBSET Members : IsFiniteSet(MemberBytes(S))
<1> SUFFICES ASSUME NEW S \in SUBSET Members PROVE IsFiniteSet(MemberBytes(S))
  OBVIOUS
<1> DEFINE f == [m \in S |-> {m} \X (1 .. MemberLen[m])]
<1>1. IsFiniteSet(S)
  BY RecordsAssumption, FS_Subset
<1>2. \A m \in S : IsFiniteSet(f[m])
  <2> SUFFICES ASSUME NEW m \in S PROVE IsFiniteSet({m} \X (1 .. MemberLen[m]))
    OBVIOUS
  <2>1. MemberLen[m] \in Nat
    BY RecordsAssumption
  <2>2. 1 \in Int /\ MemberLen[m] \in Int
    BY <2>1, SMT
  <2>3. IsFiniteSet(1 .. MemberLen[m])
    BY <2>2, FS_Interval
  <2>4. IsFiniteSet({m})
    BY FS_Singleton
  <2> QED  BY <2>3, <2>4, FS_Product
<1> HIDE DEF f
<1>3. IsFiniteSet(UNION {f[m] : m \in S})
  BY <1>1, <1>2, FiniteUnion
<1> QED  BY <1>3 DEF MemberBytes, f

\* Members that are not in a set yet add their own length to its size.
LEMMA MembersSplit ==
    ASSUME NEW A \in SUBSET Members, NEW B \in SUBSET Members
    PROVE  /\ membersSize(A) \in Nat /\ membersSize(B \ A) \in Nat
           /\ membersSize(A \union B) = membersSize(A) + membersSize(B \ A)
<1>1. IsFiniteSet(MemberBytes(A)) /\ IsFiniteSet(MemberBytes(B \ A))
  <2>1. B \ A \in SUBSET Members
    OBVIOUS
  <2> QED  BY <2>1, MemberBytesFinite
<1>2. Cardinality(MemberBytes(A)) \in Nat /\ Cardinality(MemberBytes(B \ A)) \in Nat
  BY <1>1, FS_CardinalityType
<1>3. MemberBytes(A) \cap MemberBytes(B \ A) = {}
  BY DEF MemberBytes
<1>4. MemberBytes(A \union B) = MemberBytes(A) \union MemberBytes(B \ A)
  BY DEF MemberBytes
<1>5. Cardinality(MemberBytes(A) \union MemberBytes(B \ A))
        = Cardinality(MemberBytes(A)) + Cardinality(MemberBytes(B \ A)) - Cardinality({})
  BY <1>1, <1>3, FS_Union
<1>6. membersSize(A \union B)
        = Cardinality(MemberBytes(A)) + Cardinality(MemberBytes(B \ A)) - 0
  BY <1>4, <1>5, FS_EmptySet DEF membersSize
<1> QED  BY <1>2, <1>6, SMT DEF membersSize

CMSRecords  == UNION {CMSRecordOf(d) : d \in Dims}
ZSetRecords == UNION {ZSetRecordOf(S) : S \in SUBSET Members}
Rec         == StringRecord \union CMSRecords \union BloomRecords \union ZSetRecords
RecordMap   == [Keys -> Rec \union {Absent}]

Size(k, r) == IF r = Absent THEN 0 ELSE recordSize(k, r)

LEMMA ScoredSizeIsNat ==
    ASSUME NEW S \in SUBSET Members
    PROVE  IsFiniteSet(S) /\ scoredSize(S) \in Nat
<1>1. IsFiniteSet(S)
  BY RecordsAssumption, FS_Subset
<1>2. Cardinality(S) \in Nat /\ membersSize(S) \in Nat
  BY <1>1, MemberBytesFinite, FS_CardinalityType DEF membersSize
<1> QED  BY <1>1, <1>2, SMT DEF scoredSize

\* The members that a set has not got are charged for themselves.
LEMMA ScoredSplit ==
    ASSUME NEW A \in SUBSET Members, NEW B \in SUBSET Members
    PROVE  scoredSize(A \union B) = scoredSize(A) + scoredSize(B \ A)
<1>1. IsFiniteSet(A) /\ IsFiniteSet(B \ A) /\ A \cap (B \ A) = {} /\ A \union (B \ A) = A \union B
  BY RecordsAssumption, FS_Subset
<1>2. /\ Cardinality(A \union B) = Cardinality(A) + Cardinality(B \ A) - 0
      /\ Cardinality(A) \in Nat /\ Cardinality(B \ A) \in Nat
  BY <1>1, FS_Union, FS_EmptySet, FS_CardinalityType
<1>3. /\ membersSize(A) \in Nat /\ membersSize(B \ A) \in Nat
      /\ membersSize(A \union B) = membersSize(A) + membersSize(B \ A)
  BY MembersSplit
<1> QED  BY <1>2, <1>3, SMT DEF scoredSize

LEMMA RecParts ==
    ASSUME NEW r \in Rec
    PROVE  /\ r # Absent
           /\ r.type \in {"string", "cms", "bloom", "zset"} /\ r.ttl \in Nat
           /\ r.type = "string" => r \in StringRecord
           /\ r.type = "cms"    => \E d \in Dims : r \in CMSRecordOf(d)
           /\ r.type = "bloom"  => r \in BloomRecords
           /\ r.type = "zset"   => \E S \in SUBSET Members : r \in ZSetRecordOf(S)
<1>1. CASE r \in StringRecord
  BY <1>1, AbsentAssumption DEF StringRecord
<1>2. CASE r \in CMSRecords
  <2>1. PICK d \in Dims : r \in CMSRecordOf(d)
    BY <1>2 DEF CMSRecords
  <2> QED  BY <2>1, ContainersAssumption DEF CMSRecordOf
<1>3. CASE r \in BloomRecords
  BY <1>3, ContainersAssumption DEF BloomRecords
<1>4. CASE r \in ZSetRecords
  <2>1. PICK S \in SUBSET Members : r \in ZSetRecordOf(S)
    BY <1>4 DEF ZSetRecords
  <2> QED  BY <2>1, ContainersAssumption DEF ZSetRecordOf
<1> QED  BY <1>1, <1>2, <1>3, <1>4 DEF Rec

LEMMA SizeIsNat == \A k \in Keys, r \in Rec : recordSize(k, r) \in Nat
<1> SUFFICES ASSUME NEW k \in Keys, NEW r \in Rec PROVE recordSize(k, r) \in Nat
  OBVIOUS
<1>1. KeyLen[k] \in Nat
  BY RecordsAssumption
<1>2. valueSize(r) \in Nat
  <2>1. CASE r.type = "string"
    BY <2>1, RecParts, RecordsAssumption DEF StringRecord, valueSize
  <2>2. CASE r.type = "cms"
    <3>1. PICK d \in Dims : r \in CMSRecordOf(d)
      BY <2>2, RecParts
    <3>2. r.sketch.width \in Nat /\ r.sketch.depth \in Nat
      <4>1. d.width \in Nat /\ d.depth \in Nat
        BY ContainersAssumption, SketchAssumption, SMT
      <4> QED  BY <3>1, <4>1 DEF CMSRecordOf, SketchOf
    <3>3. valueSize(r) = r.sketch.width * r.sketch.depth * 8
      BY <2>2 DEF valueSize
    <3> QED  BY <3>2, <3>3, SMT
  <2>3. CASE r.type = "bloom"
    <3>1. r.filter.words \in Nat
      BY <2>3, RecParts DEF BloomRecords, FilterSet
    <3>2. valueSize(r) = r.filter.words * 8
      BY <2>3 DEF valueSize
    <3> QED  BY <3>1, <3>2, SMT
  <2>4. CASE r.type = "zset"
    <3>1. PICK S \in SUBSET Members : r \in ZSetRecordOf(S)
      BY <2>4, RecParts
    <3>2. DOMAIN r.scores = S
      BY <3>1 DEF ZSetRecordOf
    <3>3. valueSize(r) = scoredSize(DOMAIN r.scores)
      BY <2>4 DEF valueSize
    <3> QED  BY <3>2, <3>3, ScoredSizeIsNat
  <2> QED  BY <2>1, <2>2, <2>3, <2>4, RecParts
<1> QED  BY <1>1, <1>2, SMT DEF recordSize

LEMMA BytesSize ==
    \A k \in Keys, r \in Rec \union {Absent} :
        /\ Size(k, r) \in Nat
        /\ IsFiniteSet(Bytes(k, r)) /\ Cardinality(Bytes(k, r)) = Size(k, r)
<1> SUFFICES ASSUME NEW k \in Keys, NEW r \in Rec \union {Absent}
             PROVE  /\ Size(k, r) \in Nat
                    /\ IsFiniteSet(Bytes(k, r)) /\ Cardinality(Bytes(k, r)) = Size(k, r)
  OBVIOUS
<1>1. CASE r = Absent
  BY <1>1, FS_EmptySet DEF Bytes, Size
<1>2. CASE r # Absent
  <2> DEFINE n == recordSize(k, r)
  <2>1. n \in Nat
    BY <1>2, SizeIsNat
  <2> HIDE DEF n
  <2>2. IsFiniteSet(1 .. n) /\ Cardinality(1 .. n) = n
    BY <2>1, FS_Interval, SMT
  <2>3. IsFiniteSet({k}) /\ Cardinality({k}) = 1
    BY FS_Singleton
  <2>4. IsFiniteSet({k} \X (1 .. n)) /\ Cardinality({k} \X (1 .. n)) = 1 * n
    BY <2>2, <2>3, FS_Product, ZenonT(40)
  <2>5. Bytes(k, r) = {k} \X (1 .. n) /\ Size(k, r) = n
    BY <1>2 DEF Bytes, Size, n
  <2> QED  BY <2>1, <2>4, <2>5, SMT
<1> QED  BY <1>1, <1>2

\* The footprint is the bytes of one key and, apart from them, those of the rest.
LEMMA FootprintSplit ==
    ASSUME NEW d \in RecordMap, NEW k \in Keys
    PROVE  LET rest == UNION {Bytes(x, d[x]) : x \in Keys \ {k}} IN
           /\ IsFiniteSet(rest)
           /\ Cardinality(Footprint(d)) = Cardinality(rest) + Size(k, d[k])
           /\ IsFiniteSet(Footprint(d))
<1> DEFINE rest == UNION {Bytes(x, d[x]) : x \in Keys \ {k}}
           f == [x \in Keys \ {k} |-> Bytes(x, d[x])]
<1>1. \A x \in Keys : d[x] \in Rec \union {Absent}
  BY DEF RecordMap
<1>2. IsFiniteSet(rest)
  <2>1. IsFiniteSet(Keys \ {k})
    BY RecordsAssumption, FS_Subset
  <2>2. \A x \in Keys \ {k} : IsFiniteSet(f[x])
    BY <1>1, BytesSize
  <2> HIDE DEF f
  <2>3. IsFiniteSet(UNION {f[x] : x \in Keys \ {k}})
    BY <2>1, <2>2, FiniteUnion
  <2> QED  BY <2>3 DEF f
<1>3. Footprint(d) = rest \union Bytes(k, d[k])
  BY DEF Footprint
<1>4. rest \cap Bytes(k, d[k]) = {}
  BY DEF Bytes
<1>5. IsFiniteSet(Bytes(k, d[k])) /\ Cardinality(Bytes(k, d[k])) = Size(k, d[k])
      /\ Size(k, d[k]) \in Nat
  BY <1>1, BytesSize
<1>6. Cardinality(rest) \in Nat
  BY <1>2, FS_CardinalityType
<1>7. IsFiniteSet(Footprint(d))
      /\ Cardinality(Footprint(d)) = Cardinality(rest) + Size(k, d[k]) - Cardinality({})
  BY <1>2, <1>3, <1>4, <1>5, FS_Union
<1> QED  BY <1>2, <1>5, <1>6, <1>7, FS_EmptySet, SMT

\* Replacing one record: the footprint changes by the difference of the sizes.
LEMMA FootprintUpdate ==
    ASSUME NEW d \in RecordMap, NEW k \in Keys, NEW r \in Rec \union {Absent}
    PROVE  /\ [d EXCEPT ![k] = r] \in RecordMap
           /\ Cardinality(Footprint([d EXCEPT ![k] = r]))
                = Cardinality(Footprint(d)) - Size(k, d[k]) + Size(k, r)
           /\ Cardinality(Footprint(d)) \in Nat
<1> DEFINE e == [d EXCEPT ![k] = r]
           rest == UNION {Bytes(x, d[x]) : x \in Keys \ {k}}
           rest2 == UNION {Bytes(x, e[x]) : x \in Keys \ {k}}
<1>1. e \in RecordMap /\ e[k] = r /\ \A x \in Keys \ {k} : e[x] = d[x]
  BY DEF RecordMap
<1>2. rest2 = rest
  BY <1>1
<1>3. IsFiniteSet(rest) /\ Cardinality(Footprint(d)) = Cardinality(rest) + Size(k, d[k])
      /\ IsFiniteSet(Footprint(d))
  BY FootprintSplit
<1>4. Cardinality(Footprint(e)) = Cardinality(rest2) + Size(k, e[k])
  BY <1>1, FootprintSplit
<1>5. Cardinality(rest) \in Nat /\ Cardinality(Footprint(d)) \in Nat
  BY <1>3, FS_CardinalityType
<1>6. Size(k, d[k]) \in Nat /\ Size(k, r) \in Nat
  BY BytesSize DEF RecordMap
<1> HIDE DEF e, rest, rest2
<1>7. Cardinality(Footprint(e)) = Cardinality(Footprint(d)) - Size(k, d[k]) + Size(k, r)
  BY <1>1, <1>2, <1>3, <1>4, <1>5, <1>6, SMT
<1> QED  BY <1>1, <1>5, <1>7 DEF e

-----------------------------------------------------------------------------
(* Store values                                                              *)

PolicyValues ==
    [name : PolicyNames, place : UNION {[D -> Nat] : D \in SUBSET Keys},
     entries : UNION {[D -> [freq : Nat, last : Nat]] : D \in SUBSET Keys},
     seq : Nat, keys : SUBSET Keys]

Stores == [data : RecordMap, policy : PolicyValues, usedMemory : Int,
           hits : Nat, misses : Nat, expiredKeys : Nat, evictedKeys : Nat]

LEMMA PolicyIsValue == \A p : IsPolicy(p, Keys) <=> p \in PolicyValues
<1>1. ASSUME NEW p, IsPolicy(p, Keys) PROVE p \in PolicyValues
  <2>1. /\ p.place \in UNION {[D -> Nat] : D \in SUBSET Keys}
        /\ p.entries \in UNION {[D -> [freq : Nat, last : Nat]] : D \in SUBSET Keys}
    BY <1>1 DEF IsPolicy
  <2> QED  BY <1>1, <2>1, Zenon DEF IsPolicy, PolicyValues
<1>2. ASSUME NEW p \in PolicyValues PROVE IsPolicy(p, Keys)
  <2>1. PICK D \in SUBSET Keys : p.place \in [D -> Nat]
    BY <1>2 DEF PolicyValues
  <2>2. PICK E \in SUBSET Keys : p.entries \in [E -> [freq : Nat, last : Nat]]
    BY <1>2 DEF PolicyValues
  <2> QED  BY <1>2, <2>1, <2>2 DEF PolicyValues, IsPolicy
<1> QED  BY <1>1, <1>2

StoreOf(d, p, m, h, i, x, e) ==
    [data |-> d, policy |-> p, usedMemory |-> m, hits |-> h, misses |-> i,
     expiredKeys |-> x, evictedKeys |-> e]

\* The parts of a store agree.
Good(s) == /\ s \in Stores
           /\ s.usedMemory = Cardinality(Footprint(s.data))
           /\ s.policy.name # "none" => Tracked(s.policy) = Present(s)

LEMMA StoreParts ==
    ASSUME NEW s \in Stores
    PROVE  /\ s = StoreOf(s.data, s.policy, s.usedMemory, s.hits, s.misses,
                          s.expiredKeys, s.evictedKeys)
           /\ s.data \in RecordMap /\ IsPolicy(s.policy, Keys)
           /\ s.usedMemory \in Int /\ s.hits \in Nat /\ s.misses \in Nat
           /\ s.expiredKeys \in Nat /\ s.evictedKeys \in Nat
BY PolicyIsValue DEF Stores, StoreOf

\* The helpers of stats.go, field by field.
LEMMA PutOf ==
    ASSUME NEW d, NEW p, NEW m, NEW h, NEW i, NEW x, NEW e, NEW k, NEW r
    PROVE  Put(StoreOf(d, p, m, h, i, x, e), k, r) = StoreOf([d EXCEPT ![k] = r], p, m, h, i, x, e)
BY DEF StoreOf, Put

LEMMA UnsetOf ==
    ASSUME NEW d, NEW p, NEW m, NEW h, NEW i, NEW x, NEW e, NEW k
    PROVE  Unset(StoreOf(d, p, m, h, i, x, e), k) = StoreOf([d EXCEPT ![k] = Absent], p, m, h, i, x, e)
BY DEF StoreOf, Unset

LEMMA InsertOf ==
    ASSUME NEW d, NEW p, NEW m, NEW h, NEW i, NEW x, NEW e, NEW k
    PROVE  notifyInsert(StoreOf(d, p, m, h, i, x, e), k) = StoreOf(d, OnInsert(p, k), m, h, i, x, e)
BY DEF StoreOf, notifyInsert

LEMMA AccessOf ==
    ASSUME NEW d, NEW p, NEW m, NEW h, NEW i, NEW x, NEW e, NEW k
    PROVE  notifyAccess(StoreOf(d, p, m, h, i, x, e), k) = StoreOf(d, OnAccess(p, k), m, h, i, x, e)
BY DEF StoreOf, notifyAccess

LEMMA RemoveOf ==
    ASSUME NEW d, NEW p, NEW m, NEW h, NEW i, NEW x, NEW e, NEW k
    PROVE  notifyRemove(StoreOf(d, p, m, h, i, x, e), k) = StoreOf(d, OnRemove(p, k), m, h, i, x, e)
BY DEF StoreOf, notifyRemove

LEMMA AccountOf ==
    ASSUME NEW d, NEW p, NEW m, NEW h, NEW i, NEW x, NEW e, NEW n
    PROVE  accountMemory(StoreOf(d, p, m, h, i, x, e), n) = StoreOf(d, p, m + n, h, i, x, e)
BY DEF StoreOf, accountMemory

LEMMA ExpiredOf ==
    ASSUME NEW d, NEW p, NEW m, NEW h, NEW i, NEW x, NEW e, NEW k
    PROVE  DropExpired(StoreOf(d, p, m, h, i, x, e), k) = StoreOf([d EXCEPT ![k] = Absent], p, m, h, i, x + 1, e)
<1>1. Unset(StoreOf(d, p, m, h, i, x, e), k) = StoreOf([d EXCEPT ![k] = Absent], p, m, h, i, x, e)
  BY UnsetOf
<1> DEFINE f == [d EXCEPT ![k] = Absent]
<1> HIDE DEF f
<1>2. [StoreOf(f, p, m, h, i, x, e) EXCEPT !.expiredKeys = @ + 1] = StoreOf(f, p, m, h, i, x + 1, e)
  BY DEF StoreOf
<1> QED  BY <1>1, <1>2 DEF DropExpired, f

LEMMA EvictedOf ==
    ASSUME NEW d, NEW p, NEW m, NEW h, NEW i, NEW x, NEW e
    PROVE  CountEvicted(StoreOf(d, p, m, h, i, x, e)) = StoreOf(d, p, m, h, i, x, e + 1)
BY DEF StoreOf, CountEvicted


LEMMA NewGood ==
    ASSUME NEW n \in Policies
    PROVE  Good(New(n)) /\ Present(New(n)) = {} /\ New(n).usedMemory = 0
<1>1. NewPolicy(n) \in PolicyValues /\ Tracked(NewPolicy(n)) = {}
  BY NewPolicyShape, PolicyIsValue, ContainersAssumption
<1> DEFINE d == [k \in Keys |-> Absent]
<1>2. Footprint(d) = {} /\ d \in RecordMap
  BY DEF Footprint, Bytes, RecordMap
<1>3. New(n) = StoreOf(d, NewPolicy(n), 0, 0, 0, 0, 0)
  BY DEF New, StoreOf
<1>4. New(n).data = d /\ New(n).policy = NewPolicy(n) /\ New(n).usedMemory = 0
  BY DEF New
<1>5. Present(New(n)) = {}
  BY <1>4 DEF Present
<1>6. New(n) \in Stores
  <2> HIDE DEF d
  <2> QED  BY <1>1, <1>2, <1>3, SMT DEF Stores, StoreOf
<1> HIDE DEF d
<1> QED  BY <1>1, <1>2, <1>4, <1>5, <1>6, FS_EmptySet DEF Good

\* What every helper comes to: one record is replaced (or removed, if r is
\* Absent), the difference is charged, the policy is told.
LEMMA ChangeGood ==
    ASSUME NEW s, Good(s), NEW k \in Keys, NEW r \in Rec \union {Absent},
           NEW p, IsPolicy(p, Keys), p.name = s.policy.name,
           p.name # "none" => Tracked(p) = IF r = Absent THEN Tracked(s.policy) \ {k}
                                                         ELSE Tracked(s.policy) \union {k},
           NEW m, m = s.usedMemory - Size(k, s.data[k]) + Size(k, r),
           NEW x \in Nat, NEW e \in Nat
    PROVE  Good(StoreOf([s.data EXCEPT ![k] = r], p, m, s.hits, s.misses, x, e))
<1> DEFINE d == [s.data EXCEPT ![k] = r]
           t == StoreOf(d, p, m, s.hits, s.misses, x, e)
<1>1. s \in Stores /\ s.data \in RecordMap
  BY StoreParts DEF Good
<1>2. d \in RecordMap /\ d[k] = r /\ \A y \in Keys \ {k} : d[y] = s.data[y]
  BY <1>1, FootprintUpdate DEF RecordMap
<1>3. Cardinality(Footprint(d)) = Cardinality(Footprint(s.data)) - Size(k, s.data[k]) + Size(k, r)
      /\ Cardinality(Footprint(s.data)) \in Nat
  BY <1>1, FootprintUpdate
<1>4. Size(k, s.data[k]) \in Nat /\ Size(k, r) \in Nat
  BY <1>1, BytesSize DEF RecordMap
<1>5. m = Cardinality(Footprint(d)) /\ m \in Int
  <2>1. s.usedMemory = Cardinality(Footprint(s.data))
    BY DEF Good
  <2> HIDE DEF d
  <2> QED  BY <1>3, <1>4, <2>1, SMT
<1> HIDE DEF d
<1>6. /\ t.data = d /\ t.policy = p /\ t.usedMemory = m
  BY DEF StoreOf
<1>7. t \in Stores
  BY <1>1, <1>2, <1>5, StoreParts, PolicyIsValue DEF Stores, StoreOf
<1>8. p.name # "none" => Tracked(p) = Present(t)
  <2> SUFFICES ASSUME p.name # "none" PROVE Tracked(p) = Present(t)
    OBVIOUS
  <2>1. Tracked(s.policy) = {y \in Keys : s.data[y] # Absent}
    BY DEF Good, Present
  <2>2. Present(t) = {y \in Keys : d[y] # Absent}
    BY <1>6 DEF Present
  <2> HIDE DEF t
  <2>3. CASE r = Absent
    BY <1>2, <2>1, <2>2, <2>3
  <2>4. CASE r # Absent
    BY <1>2, <2>1, <2>2, <2>4
  <2> QED  BY <2>3, <2>4
<1> HIDE DEF t
<1>9. Good(t)
  BY <1>5, <1>6, <1>7, <1>8 DEF Good
<1> QED  BY <1>9 DEF t, d

-----------------------------------------------------------------------------
(* The helpers, each of them a change of one record                          *)

Becomes(t, s, k, r) == /\ Good(t) /\ t.policy.name = s.policy.name
                       /\ t.data = [s.data EXCEPT ![k] = r]

LEMMA GoodParts ==
    ASSUME NEW s, Good(s)
    PROVE  /\ s \in Stores /\ s.data \in RecordMap /\ IsPolicy(s.policy, Keys)
           /\ s = StoreOf(s.data, s.policy, s.usedMemory, s.hits, s.misses,
                          s.expiredKeys, s.evictedKeys)
           /\ s.usedMemory \in Int /\ s.expiredKeys \in Nat /\ s.evictedKeys \in Nat
           /\ \A k \in Keys : s.data[k] \in Rec \union {Absent}
BY StoreParts DEF Good, RecordMap

\* ChangeGood as Becomes.
LEMMA ChangeBecomes ==
    ASSUME NEW s, Good(s), NEW k \in Keys, NEW r \in Rec \union {Absent},
           NEW p, IsPolicy(p, Keys), p.name = s.policy.name,
           p.name # "none" => Tracked(p) = IF r = Absent THEN Tracked(s.policy) \ {k}
                                                         ELSE Tracked(s.policy) \union {k},
           NEW m, m = s.usedMemory - Size(k, s.data[k]) + Size(k, r),
           NEW x \in Nat, NEW e \in Nat
    PROVE  Becomes(StoreOf([s.data EXCEPT ![k] = r], p, m, s.hits, s.misses, x, e), s, k, r)
<1> DEFINE d == [s.data EXCEPT ![k] = r]
<1>1. Good(StoreOf(d, p, m, s.hits, s.misses, x, e))
  BY ChangeGood
<1> HIDE DEF d
<1>2. /\ StoreOf(d, p, m, s.hits, s.misses, x, e).data = d
      /\ StoreOf(d, p, m, s.hits, s.misses, x, e).policy = p
  BY DEF StoreOf
<1> QED  BY <1>1, <1>2 DEF Becomes, d

\* Sizes of what is in the map, in the words of the code.
LEMMA SizeOf ==
    ASSUME NEW k \in Keys, NEW r \in Rec
    PROVE  Size(k, r) = recordSize(k, r) /\ recordSize(k, r) \in Nat /\ Size(k, Absent) = 0
BY RecParts, SizeIsNat DEF Size

\* The policy keeps its keys when one that it has, or that nobody tracks, is used.
LEMMA NoLarger == \A k \in Keys, r \in Rec : recordSize(k, r) <= recordSize(k, r)
<1> SUFFICES ASSUME NEW k \in Keys, NEW r \in Rec PROVE recordSize(k, r) <= recordSize(k, r)
  OBVIOUS
<1>1. recordSize(k, r) \in Nat
  BY SizeIsNat
<1> QED  BY <1>1, SMT

LEMMA UsedPolicy ==
    ASSUME NEW s, Good(s), NEW k \in Keys, s.data[k] # Absent
    PROVE  /\ IsPolicy(s.policy, Keys) /\ IsPolicy(OnAccess(s.policy, k), Keys)
           /\ OnAccess(s.policy, k).name = s.policy.name
           /\ s.policy.name # "none" =>
                /\ Tracked(s.policy) = Tracked(s.policy) \union {k}
                /\ Tracked(OnAccess(s.policy, k)) = Tracked(s.policy) \union {k}
<1>1. s.policy.name # "none" => k \in Tracked(s.policy)
  BY DEF Good, Present
<1> QED  BY <1>1, GoodParts, OnAccessShape

LEMMA ChargedGood ==
    ASSUME NEW s, Good(s), NEW k \in Keys, s.data[k] # Absent, NEW r \in Rec,
           NEW n, n = recordSize(k, r) - recordSize(k, s.data[k])
    PROVE  /\ Becomes(Put(accountMemory(s, n), k, r), s, k, r)
           /\ accountMemory(Put(s, k, r), n) = Put(accountMemory(s, n), k, r)
<1>1. /\ Put(accountMemory(s, n), k, r)
           = StoreOf([s.data EXCEPT ![k] = r], s.policy, s.usedMemory + n, s.hits, s.misses,
                     s.expiredKeys, s.evictedKeys)
      /\ accountMemory(Put(s, k, r), n) = Put(accountMemory(s, n), k, r)
  BY GoodParts, PutOf, AccountOf
<1>2. s.usedMemory + n = s.usedMemory - Size(k, s.data[k]) + Size(k, r)
  <2>1. s.data[k] \in Rec
    BY GoodParts
  <2> QED  BY <2>1, GoodParts, SizeOf, SMT
<1> QED  BY <1>1, <1>2, GoodParts, RecParts, UsedPolicy, ChangeBecomes

LEMMA SamePut ==
    ASSUME NEW s, Good(s), NEW k \in Keys, s.data[k] # Absent, NEW r \in Rec,
           recordSize(k, r) = recordSize(k, s.data[k])
    PROVE  Becomes(Put(s, k, r), s, k, r)
<1>1. recordSize(k, r) - recordSize(k, s.data[k]) = 0
  BY SizeOf, SMT
<1>2. Becomes(Put(accountMemory(s, 0), k, r), s, k, r)
  BY <1>1, ChargedGood
<1>3. accountMemory(s, 0) = s
  <2>1. s.usedMemory + 0 = s.usedMemory
    BY GoodParts, SMT
  <2> QED  BY <2>1, GoodParts, AccountOf
<1> QED  BY <1>2, <1>3

LEMMA AccessGood ==
    ASSUME NEW s, Good(s), NEW k \in Keys, s.data[k] # Absent
    PROVE  /\ Becomes(notifyAccess(s, k), s, k, s.data[k])
           /\ notifyAccess(s, k).data = s.data
<1>1. notifyAccess(s, k) = StoreOf(s.data, OnAccess(s.policy, k), s.usedMemory, s.hits, s.misses,
                                   s.expiredKeys, s.evictedKeys)
  BY GoodParts, AccessOf
<1>2. s.data = [s.data EXCEPT ![k] = s.data[k]]
  BY GoodParts DEF RecordMap
<1>3. s.usedMemory = s.usedMemory - Size(k, s.data[k]) + Size(k, s.data[k])
  <2>1. s.data[k] \in Rec
    BY GoodParts
  <2> QED  BY <2>1, GoodParts, SizeOf, SMT
<1>4. s.data[k] \in Rec \union {Absent} /\ s.expiredKeys \in Nat /\ s.evictedKeys \in Nat
  BY GoodParts
<1>5. Becomes(StoreOf([s.data EXCEPT ![k] = s.data[k]], OnAccess(s.policy, k), s.usedMemory,
                      s.hits, s.misses, s.expiredKeys, s.evictedKeys), s, k, s.data[k])
  BY <1>3, <1>4, UsedPolicy, ChangeBecomes
<1> QED  BY <1>1, <1>2, <1>5 DEF Becomes

LEMMA OverwriteGood ==
    ASSUME NEW s, Good(s), NEW k \in Keys, s.data[k] # Absent, NEW r \in Rec
    PROVE  Becomes(trackOverwrite(Put(s, k, r), k, s.data[k], r), s, k, r)
<1> DEFINE n == recordSize(k, r) - recordSize(k, s.data[k])
           t == accountMemory(Put(s, k, r), n)
<1>1. Becomes(t, s, k, r)
  BY ChargedGood
<1>2. trackOverwrite(Put(s, k, r), k, s.data[k], r) = notifyAccess(t, k)
  BY DEF trackOverwrite
<1> HIDE DEF t
<1>3. t.data[k] = r /\ r # Absent /\ Good(t)
  BY <1>1, GoodParts, RecParts DEF Becomes, RecordMap
<1>4. Becomes(notifyAccess(t, k), t, k, r) /\ notifyAccess(t, k).data = t.data
  BY <1>3, AccessGood
<1> QED  BY <1>1, <1>2, <1>4 DEF Becomes

LEMMA FreshGood ==
    ASSUME NEW s, Good(s), NEW k \in Keys, s.data[k] = Absent, NEW r \in Rec
    PROVE  Becomes(trackInsert(Put(s, k, r), k, r), s, k, r)
<1>1. trackInsert(Put(s, k, r), k, r)
        = StoreOf([s.data EXCEPT ![k] = r], OnInsert(s.policy, k),
                  s.usedMemory + recordSize(k, r), s.hits, s.misses, s.expiredKeys, s.evictedKeys)
  BY GoodParts, PutOf, AccountOf, InsertOf DEF trackInsert
<1>2. s.usedMemory + recordSize(k, r) = s.usedMemory - Size(k, s.data[k]) + Size(k, r)
  BY GoodParts, SizeOf, SMT
<1>3. r # Absent /\ s.expiredKeys \in Nat /\ s.evictedKeys \in Nat
  BY GoodParts, RecParts
<1>4. /\ IsPolicy(OnInsert(s.policy, k), Keys) /\ OnInsert(s.policy, k).name = s.policy.name
      /\ s.policy.name # "none" => Tracked(OnInsert(s.policy, k)) = Tracked(s.policy) \union {k}
  BY GoodParts, OnInsertShape
<1> QED  BY <1>1, <1>2, <1>3, <1>4, ChangeBecomes

LEMMA RemovalGood ==
    ASSUME NEW s, Good(s), NEW k \in Keys, s.data[k] # Absent
    PROVE  /\ Becomes(Remove(s, k), s, k, Absent)
           /\ Becomes(CountEvicted(Remove(s, k)), s, k, Absent)
           /\ Becomes(removeExpired(s, k), s, k, Absent)
<1> DEFINE d == [s.data EXCEPT ![k] = Absent]
           p == OnRemove(s.policy, k)
           m == s.usedMemory + -recordSize(k, s.data[k])
<1>1. /\ Remove(s, k) = StoreOf(d, p, m, s.hits, s.misses, s.expiredKeys, s.evictedKeys)
      /\ CountEvicted(Remove(s, k))
           = StoreOf(d, p, m, s.hits, s.misses, s.expiredKeys, s.evictedKeys + 1)
      /\ removeExpired(s, k)
           = StoreOf(d, p, m, s.hits, s.misses, s.expiredKeys + 1, s.evictedKeys)
  <2>1. Remove(s, k) = StoreOf(d, p, m, s.hits, s.misses, s.expiredKeys, s.evictedKeys)
    BY GoodParts, UnsetOf, AccountOf, RemoveOf DEF Remove, trackRemove
  <2>2. removeExpired(s, k) = StoreOf(d, p, m, s.hits, s.misses, s.expiredKeys + 1, s.evictedKeys)
    BY GoodParts, ExpiredOf, AccountOf, RemoveOf DEF removeExpired, trackRemove
  <2> HIDE DEF d, p, m
  <2> QED  BY <2>1, <2>2, EvictedOf
<1>2. m = s.usedMemory - Size(k, s.data[k]) + Size(k, Absent)
  <2>1. s.data[k] \in Rec
    BY GoodParts
  <2> QED  BY <2>1, GoodParts, SizeOf, SMT
<1>3. s.expiredKeys \in Nat /\ s.evictedKeys \in Nat
      /\ s.expiredKeys + 1 \in Nat /\ s.evictedKeys + 1 \in Nat
  BY GoodParts, SMT
<1>4. IsPolicy(p, Keys) /\ p.name = s.policy.name /\ Tracked(p) = Tracked(s.policy) \ {k}
  BY GoodParts, OnRemoveShape
<1> HIDE DEF p, m
<1>5. ASSUME NEW x \in Nat, NEW e \in Nat
      PROVE  Becomes(StoreOf(d, p, m, s.hits, s.misses, x, e), s, k, Absent)
  BY <1>2, <1>4, ChangeBecomes
<1> HIDE DEF d
<1> QED  BY <1>1, <1>3, <1>5

LEMMA ClearGood ==
    ASSUME NEW s, Good(s), NEW k \in Keys
    PROVE  Becomes(Clear(s, k), s, k, Absent)
<1>1. CASE s.data[k] = Absent
  <2>1. s.data = [s.data EXCEPT ![k] = Absent]
    BY <1>1, GoodParts DEF RecordMap
  <2> QED  BY <1>1, <2>1 DEF Clear, Becomes
<1>2. CASE s.data[k] # Absent
  BY <1>2, RemovalGood DEF Clear
<1> QED  BY <1>1, <1>2

LEMMA InsertGood ==
    ASSUME NEW s, Good(s), NEW k \in Keys, NEW r \in Rec
    PROVE  Becomes(Insert(s, k, r), s, k, r)
<1> DEFINE t == Clear(s, k)
<1>1. Becomes(t, s, k, Absent)
  BY ClearGood
<1>2. Insert(s, k, r) = trackInsert(Put(t, k, r), k, r)
  BY DEF Insert
<1> HIDE DEF t
<1>3. Good(t) /\ t.data[k] = Absent
  BY <1>1, GoodParts DEF Becomes, RecordMap
<1>4. Becomes(trackInsert(Put(t, k, r), k, r), t, k, r)
  BY <1>3, FreshGood
<1>5. [t.data EXCEPT ![k] = r] = [s.data EXCEPT ![k] = r]
  BY <1>1, GoodParts DEF Becomes, RecordMap
<1> QED  BY <1>1, <1>2, <1>4, <1>5 DEF Becomes

LEMMA ReplaceGood ==
    ASSUME NEW s, Good(s), NEW k \in Keys, NEW r \in Rec
    PROVE  Becomes(Replace(s, k, r), s, k, r)
BY OverwriteGood, InsertGood DEF Replace, Live

-----------------------------------------------------------------------------
(* Eviction                                                                  *)

\* t has the records of s, or fewer; t has no key that s has not, and none of
\* its records is larger.
Less(t, s) == \A x \in Keys : t.data[x] = s.data[x] \/ t.data[x] = Absent
Lighter(t, s) ==
    \A x \in Keys : \/ t.data[x] = Absent
                    \/ /\ s.data[x] # Absent
                       /\ recordSize(x, t.data[x]) <= recordSize(x, s.data[x])

LEMMA FootprintFinite == \A d \in RecordMap : IsFiniteSet(Footprint(d))
<1> SUFFICES ASSUME NEW d \in RecordMap PROVE IsFiniteSet(Footprint(d))
  OBVIOUS
<1>1. CASE Keys = {}
  BY <1>1, FS_EmptySet DEF Footprint
<1>2. CASE Keys # {}
  BY <1>2, FootprintSplit
<1> QED  BY <1>1, <1>2

LEMMA LighterFits ==
    ASSUME NEW s, Good(s), NEW t, Good(t), Lighter(t, s), overCapacity(t)
    PROVE  overCapacity(s)
<1>1. Present(t) \subseteq Present(s) /\ IsFiniteSet(Present(s))
  <2>1. Present(t) \subseteq Present(s) /\ Present(s) \subseteq Keys
    BY DEF Present, Lighter
  <2> QED  BY <2>1, RecordsAssumption, FS_Subset
<1>2. /\ Cardinality(Present(t)) <= Cardinality(Present(s))
      /\ Cardinality(Present(t)) \in Nat /\ Cardinality(Present(s)) \in Nat
  BY <1>1, FS_Subset, FS_CardinalityType
<1>3. Footprint(t.data) \subseteq Footprint(s.data) /\ IsFiniteSet(Footprint(s.data))
  <2>1. ASSUME NEW x \in Keys PROVE Bytes(x, t.data[x]) \subseteq Bytes(x, s.data[x])
    <3>1. CASE t.data[x] = Absent
      BY <3>1 DEF Bytes
    <3>2. CASE t.data[x] # Absent
      <4>1. s.data[x] # Absent /\ recordSize(x, t.data[x]) <= recordSize(x, s.data[x])
        BY <3>2 DEF Lighter
      <4>2. recordSize(x, t.data[x]) \in Nat /\ recordSize(x, s.data[x]) \in Nat
        BY <3>2, <4>1, GoodParts, SizeIsNat
      <4>3. 1 .. recordSize(x, t.data[x]) \subseteq 1 .. recordSize(x, s.data[x])
        BY <4>1, <4>2, SMT
      <4> QED  BY <3>2, <4>1, <4>3 DEF Bytes
    <3> QED  BY <3>1, <3>2
  <2> QED  BY <2>1, GoodParts, FootprintFinite DEF Footprint
<1>4. /\ Cardinality(Footprint(t.data)) <= Cardinality(Footprint(s.data))
      /\ Cardinality(Footprint(t.data)) \in Nat /\ Cardinality(Footprint(s.data)) \in Nat
  BY <1>3, FS_Subset, FS_CardinalityType
<1>5. /\ t.usedMemory = Cardinality(Footprint(t.data))
      /\ s.usedMemory = Cardinality(Footprint(s.data))
  BY DEF Good
<1> QED  BY <1>2, <1>4, <1>5, LimitsAssumption, SMT DEF overCapacity

LEMMA LessIsLighter ==
    ASSUME NEW s, Good(s), NEW t, Good(t), Less(t, s)
    PROVE  Lighter(t, s)
<1> SUFFICES ASSUME NEW x \in Keys, t.data[x] # Absent
             PROVE  s.data[x] # Absent /\ recordSize(x, t.data[x]) <= recordSize(x, s.data[x])
  BY DEF Lighter
<1>1. t.data[x] = s.data[x] /\ s.data[x] # Absent
  BY DEF Less
<1>2. recordSize(x, s.data[x]) \in Nat
  BY <1>1, GoodParts, SizeIsNat
<1> QED  BY <1>1, <1>2, SMT

\* An empty map is within any limits.
LEMMA EmptyFits ==
    ASSUME NEW s, Good(s), Present(s) = {}
    PROVE  ~ overCapacity(s)
<1>1. Footprint(s.data) = {}
  BY DEF Present, Footprint, Bytes
<1> QED  BY <1>1, FS_EmptySet, LimitsAssumption, SMT DEF Good, overCapacity

LEMMA VictimGood ==
    ASSUME NEW s, Good(s), NEW v \in Victims(s.policy)
    PROVE  v \in Present(s) /\ Becomes(EvictKey(s, v), s, v, Absent)
<1>1. v \in Tracked(s.policy) /\ s.policy.name # "none"
  BY GoodParts, VictimTracked DEF Victims
<1>2. v \in Present(s)
  BY <1>1 DEF Good
<1>3. v \in Keys /\ s.data[v] # Absent
  BY <1>2 DEF Present
<1> QED  BY <1>2, <1>3, RemovalGood DEF EvictKey

\* One round of evictLocked.
Evictions(t) == IF overCapacity(t) /\ Victims(t.policy) # {}
                THEN {EvictKey(t, v) : v \in Victims(t.policy)} ELSE {t}

\* What the rounds keep.
Remains(s) == {t \in Stores : Good(t) /\ t.policy.name = s.policy.name /\ Less(t, s)}
Done(t)    == ~ overCapacity(t) \/ Victims(t.policy) = {}

LEMMA EvictionsRemain ==
    ASSUME NEW s, Good(s), NEW t \in Remains(s), NEW u \in Evictions(t)
    PROVE  /\ u \in Remains(s)
           /\ \/ u = t /\ Done(u)
              \/ /\ Cardinality(Present(u)) \in Nat /\ Cardinality(Present(t)) \in Nat
                 /\ Cardinality(Present(u)) + 1 <= Cardinality(Present(t))
<1>1. CASE overCapacity(t) /\ Victims(t.policy) # {}
  <2>1. PICK v \in Victims(t.policy) : u = EvictKey(t, v)
    BY <1>1 DEF Evictions
  <2>2. Good(t) /\ t.policy.name = s.policy.name /\ Less(t, s)
    BY DEF Remains
  <2>3. v \in Present(t) /\ Becomes(u, t, v, Absent)
    BY <2>1, <2>2, VictimGood
  <2>4. v \in Keys /\ u.data[v] = Absent /\ \A x \in Keys \ {v} : u.data[x] = t.data[x]
    BY <2>2, <2>3, GoodParts DEF Becomes, Present, RecordMap
  <2>5. u \in Remains(s)
    BY <2>2, <2>3, <2>4, GoodParts DEF Becomes, Remains, Less
  <2>6. Present(u) = Present(t) \ {v}
    BY <2>4 DEF Present
  <2>7. IsFiniteSet(Present(t))
    BY RecordsAssumption, FS_Subset DEF Present
  <2>8. Cardinality(Present(u)) = Cardinality(Present(t)) - 1
        /\ Cardinality(Present(t)) \in Nat /\ Cardinality(Present(u)) \in Nat
    BY <2>3, <2>6, <2>7, FS_RemoveElement, FS_CardinalityType, FS_Subset
  <2> QED  BY <2>5, <2>8, SMT
<1>2. CASE ~ (overCapacity(t) /\ Victims(t.policy) # {})
  BY <1>2 DEF Evictions, Done
<1> QED  BY <1>1, <1>2

LEMMA EvictedRounds ==
    ASSUME NEW s, Good(s)
    PROVE  \E g : /\ g = [n \in 0 .. Cardinality(Keys) |->
                             IF n = 0 THEN {s} ELSE UNION {Evictions(t) : t \in g[n - 1]}]
                  /\ Evicted(s) = g[Cardinality(Keys)]
<1> DEFINE N == Cardinality(Keys)
           T == SUBSET Remains(s)
           f == [n \in 1 .. N |-> [A \in T |-> UNION {Evictions(t) : t \in A}]]
           Is(g) == g = [n \in 0 .. N |->
                            IF n = 0 THEN {s} ELSE UNION {Evictions(t) : t \in g[n - 1]}]
<1>1. N \in Nat
  BY RecordsAssumption, FS_CardinalityType
<1>2. {s} \in T
  BY GoodParts DEF Remains, Less
<1>3. \A A \in T : UNION {Evictions(t) : t \in A} \in T
  BY EvictionsRemain
<1>4. f \in [1 .. N -> [T -> T]]
  BY <1>3
<1> HIDE DEF f, T, N
<1>5. PICK g : Rounds(g, N, T, {s}, f)
  BY <1>1, <1>2, <1>4, Recursion
<1>6. ASSUME NEW n \in 0 .. N, n # 0
      PROVE  f[n][g[n - 1]] = UNION {Evictions(t) : t \in g[n - 1]}
  <2>1. n \in 1 .. N /\ n - 1 \in 0 .. N
    BY <1>1, <1>6, SMT
  <2>2. g[n - 1] \in T
    BY <1>5, <2>1 DEF Rounds
  <2> QED  BY <2>1, <2>2 DEF f
<1>7. Is(g)
  <2>1. g = [n \in 0 .. N |-> IF n = 0 THEN {s} ELSE f[n][g[n - 1]]]
    BY <1>5 DEF Rounds
  <2> QED  BY <1>6, <2>1
<1>8. Evicted(s) = (CHOOSE h : Is(h))[N]
  BY DEF Evicted, Evictions, N
<1>9. Is(CHOOSE h : Is(h))
  BY <1>7
<1> QED  BY <1>8, <1>9 DEF N

\* evictLocked ends with a store that is within its limits, whatever it evicts.
LEMMA EvictedGood ==
    ASSUME NEW s, Good(s), NEW t \in Evicted(s)
    PROVE  /\ Good(t) /\ t.policy.name = s.policy.name /\ Less(t, s)
           /\ t.policy.name # "none" => ~ overCapacity(t)
<1> DEFINE N == Cardinality(Keys)
<1>1. PICK g : /\ g = [n \in 0 .. N |->
                          IF n = 0 THEN {s} ELSE UNION {Evictions(u) : u \in g[n - 1]}]
               /\ Evicted(s) = g[N]
  BY EvictedRounds
<1>2. N \in Nat /\ IsFiniteSet(Keys)
  BY RecordsAssumption, FS_CardinalityType
<1> HIDE DEF N
<1> DEFINE Bounded(u, n) == Done(u) \/ Cardinality(Present(u)) + n <= N
           S == {n \in 0 .. N : \A u \in g[n] : u \in Remains(s) /\ Bounded(u, n)}
<1>3. 0 \in S
  <2>1. 0 \in 0 .. N /\ g[0] = {s}
    BY <1>1, <1>2, SMT
  <2>2. s \in Remains(s)
    BY GoodParts DEF Remains, Less
  <2>3. Cardinality(Present(s)) + 0 <= N
    <3>1. Cardinality(Present(s)) <= Cardinality(Keys) /\ Cardinality(Present(s)) \in Nat
      BY <1>2, FS_Subset, FS_CardinalityType DEF Present
    <3> QED  BY <3>1, <1>2, SMT DEF N
  <2> QED  BY <2>1, <2>2, <2>3
<1>4. ASSUME NEW n \in 1 .. N, n - 1 \in S PROVE n \in S
  <2>1. n \in 0 .. N /\ n - 1 \in 0 .. N /\ n # 0
    BY <1>2, SMT
  <2>2. g[n] = UNION {Evictions(u) : u \in g[n - 1]}
    BY <1>1, <2>1
  <2> SUFFICES ASSUME NEW u \in g[n] PROVE u \in Remains(s) /\ Bounded(u, n)
    BY <2>1
  <2>3. PICK v \in g[n - 1] : u \in Evictions(v)
    BY <2>2
  <2>4. v \in Remains(s) /\ Bounded(v, n - 1)
    BY <1>4, <2>3
  <2>5. /\ u \in Remains(s)
        /\ \/ u = v /\ Done(u)
           \/ /\ Cardinality(Present(u)) \in Nat /\ Cardinality(Present(v)) \in Nat
              /\ Cardinality(Present(u)) + 1 <= Cardinality(Present(v))
    BY <2>3, <2>4, EvictionsRemain
  <2>6. CASE Done(u)
    BY <2>5, <2>6
  <2>7. CASE ~ Done(u) /\ ~ Done(v)
    <3>1. Cardinality(Present(v)) + (n - 1) <= N
      BY <2>4, <2>7
    <3> QED  BY <2>5, <2>7, <3>1, <1>2, SMT
  <2>8. CASE Done(v)
    <3>1. Evictions(v) = {v}
      BY <2>8 DEF Done, Evictions
    <3> QED  BY <2>3, <2>5, <2>8, <3>1
  <2> QED  BY <2>6, <2>7, <2>8
<1> HIDE DEF S
<1>5. \A n \in 0 .. N : n \in S
  BY <1>2, <1>3, <1>4, CountUp
<1>6. N \in 0 .. N
  BY <1>2, SMT
<1>7. t \in Remains(s) /\ Bounded(t, N)
  BY <1>1, <1>5, <1>6 DEF S
<1>8. Good(t) /\ t.policy.name = s.policy.name /\ Less(t, s)
  BY <1>7 DEF Remains
<1>9. ASSUME t.policy.name # "none", overCapacity(t) PROVE FALSE
  <2>1. Present(t) # {}
    BY <1>8, <1>9, EmptyFits
  <2>2. IsFiniteSet(Present(t)) /\ Cardinality(Present(t)) \in Nat /\ Cardinality(Present(t)) # 0
    <3>1. IsFiniteSet(Present(t))
      BY <1>2, FS_Subset DEF Present
    <3> QED  BY <2>1, <3>1, FS_CardinalityType, FS_EmptySet
  <2>3. Done(t)
    BY <1>2, <1>7, <2>2, SMT
  <2>4. Victims(t.policy) = {}
    BY <1>9, <2>3 DEF Done
  <2>5. Tracked(t.policy) # {}
    BY <1>8, <1>9, <2>1 DEF Good
  <2> QED  BY <1>2, <1>8, <2>4, <2>5, GoodParts, VictimExists
<1> QED  BY <1>8, <1>9

-----------------------------------------------------------------------------
(* Filters                                                                   *)

\* What adding keeps: the shape of the filter and the bits that are set.
Grows(g, f) == /\ g \in FilterSet /\ g.words = f.words
               /\ g.bitCount = f.bitCount /\ g.hashCount = f.hashCount
               /\ f.bits \subseteq g.bits

LEMMA GrowsKeeps ==
    ASSUME NEW f, NEW g, Grows(g, f), NEW i, exists(f, i)
    PROVE  exists(g, i)
BY DEF Grows, exists, Positions

LEMMA AddGrows ==
    ASSUME NEW f \in FilterSet, NEW item \in Items
    PROVE  Grows(add(f, item), f) /\ exists(add(f, item), item)
<1> DEFINE P == Positions(f, item)
           n == IF exists(f, item) THEN f.count ELSE f.count + 1
<1>1. P \subseteq Nat
  <2> SUFFICES ASSUME NEW i \in 0 .. f.hashCount - 1 PROVE Hash[item][i] % f.bitCount \in Nat
    BY DEF Positions
  <2>1. f.hashCount \in 1 .. MaxRow + 1 /\ f.bitCount \in Nat \ {0}
    BY DEF FilterSet
  <2>2. i \in 0 .. MaxRow
    BY <2>1, SketchAssumption, SMT
  <2>3. Hash[item][i] \in Nat
    BY <2>2, SketchAssumption
  <2> QED  BY <2>1, <2>3, SMT
<1>2. n \in Nat
  <2>1. f.count \in Nat
    BY DEF FilterSet
  <2>2. f.count + 1 \in Nat
    BY <2>1, SMT
  <2> QED  BY <2>1, <2>2, Zenon
<1>3. add(f, item) = [f EXCEPT !.bits = f.bits \union P, !.count = n]
  BY DEF add
<1> HIDE DEF P, n
<1>4. f = [bits |-> f.bits, bitCount |-> f.bitCount, hashCount |-> f.hashCount,
           words |-> f.words, count |-> f.count]
  BY DEF FilterSet
<1> DEFINE g == [bits |-> f.bits \union P, bitCount |-> f.bitCount, hashCount |-> f.hashCount,
                 words |-> f.words, count |-> n]
<1>5. add(f, item) = g
  BY <1>3, <1>4
<1>6. g \in FilterSet
  BY <1>1, <1>2 DEF FilterSet
<1>7. Positions(g, item) = P
  BY DEF Positions, P
<1>8. /\ g.bits = f.bits \union P /\ g.words = f.words
      /\ g.bitCount = f.bitCount /\ g.hashCount = f.hashCount
  OBVIOUS
<1> HIDE DEF g
<1> QED  BY <1>5, <1>6, <1>7, <1>8 DEF Grows, exists

\* All that is added is found, and what was found still is.
LEMMA AddAllGrows ==
    ASSUME NEW f \in FilterSet, NEW items \in Seq(Items)
    PROVE  /\ Grows(AddAll(f, items), f)
           /\ \A i \in Range(items) : exists(AddAll(f, items), i)
<1> DEFINE N == Len(items)
           step == [n \in 1 .. N |-> [g \in FilterSet |-> add(g, items[n])]]
           Is(g) == g = [n \in 0 .. N |-> IF n = 0 THEN f ELSE add(g[n - 1], items[n])]
<1>1. N \in Nat /\ \A n \in 1 .. N : items[n] \in Items
  OBVIOUS
<1>2. step \in [1 .. N -> [FilterSet -> FilterSet]]
  BY <1>1, AddGrows DEF Grows
<1> HIDE DEF step, N
<1>3. PICK g : Rounds(g, N, FilterSet, f, step)
  BY <1>1, <1>2, Recursion
<1>4. Is(g)
  <2>1. ASSUME NEW n \in 0 .. N, n # 0 PROVE step[n][g[n - 1]] = add(g[n - 1], items[n])
    <3>1. n \in 1 .. N /\ n - 1 \in 0 .. N
      BY <1>1, <2>1, SMT
    <3>2. g[n - 1] \in FilterSet
      BY <1>3, <3>1 DEF Rounds
    <3> QED  BY <3>1, <3>2 DEF step
  <2>2. g = [n \in 0 .. N |-> IF n = 0 THEN f ELSE step[n][g[n - 1]]]
    BY <1>3 DEF Rounds
  <2> QED  BY <2>1, <2>2
<1>5. PICK h : Is(h) /\ AddAll(f, items) = h[N]
  <2>1. AddAll(f, items) = (CHOOSE h : Is(h))[N]
    BY DEF AddAll, N
  <2>2. Is(CHOOSE h : Is(h))
    BY <1>4
  <2> QED  BY <2>1, <2>2
<1> DEFINE S == {n \in 0 .. N : /\ Grows(h[n], f)
                                /\ \A m \in 1 .. n : exists(h[n], items[m])}
<1>6. 0 \in S
  <2>1. 0 \in 0 .. N /\ h[0] = f /\ 1 .. 0 = {}
    BY <1>1, <1>5, SMT
  <2> QED  BY <2>1 DEF Grows
<1>7. ASSUME NEW n \in 1 .. N, n - 1 \in S PROVE n \in S
  <2>1. n \in 0 .. N /\ n # 0 /\ \A m \in 1 .. n : m = n \/ m \in 1 .. n - 1
    BY <1>1, SMT
  <2>2. h[n] = add(h[n - 1], items[n]) /\ items[n] \in Items
    BY <1>1, <1>5, <2>1
  <2>3. Grows(h[n - 1], f) /\ \A m \in 1 .. n - 1 : exists(h[n - 1], items[m])
    BY <1>7
  <2>4. Grows(h[n], h[n - 1]) /\ exists(h[n], items[n])
    <3>1. h[n - 1] \in FilterSet
      BY <2>3 DEF Grows
    <3> QED  BY <2>2, <3>1, AddGrows
  <2>5. Grows(h[n], f)
    BY <2>3, <2>4 DEF Grows
  <2>6. \A m \in 1 .. n - 1 : exists(h[n], items[m])
    BY <2>3, <2>4, GrowsKeeps
  <2> QED  BY <2>1, <2>4, <2>5, <2>6
<1> HIDE DEF S
<1>8. \A n \in 0 .. N : n \in S
  BY <1>1, <1>6, <1>7, CountUp
<1>9. N \in 0 .. N
  BY <1>1, SMT
<1>10. Grows(h[N], f) /\ \A m \in 1 .. N : exists(h[N], items[m])
  BY <1>8, <1>9 DEF S
<1>11. \A i \in Range(items) : \E m \in 1 .. N : i = items[m]
  BY DEF Range, N
<1> QED  BY <1>5, <1>10, <1>11

-----------------------------------------------------------------------------
(* Sketches                                                                  *)

\* Every counter that an item is counted in has at least c of it.
Lower(s, c) == \A i \in Items, row \in Rows(s) : Counter(s, i, row) >= c[i]

\* The shape of a sketch and what its fields hold.
LEMMA SketchParts ==
    ASSUME NEW d \in Dims, NEW s \in SketchOf(d)
    PROVE  /\ s.width = d.width /\ s.depth = d.depth
           /\ s.width \in Nat \ {0} /\ s.depth \in 1 .. MaxRow + 1 /\ s.count \in Word
           /\ Rows(s) = 0 .. d.depth - 1 /\ Columns(s) = 0 .. d.width - 1 /\ 0 \in Rows(s)
           /\ s.counters \in [0 .. d.depth - 1 -> [0 .. d.width - 1 -> Word]]
           /\ \A i \in Items, row \in Rows(s) : /\ Column(s, i, row) \in Columns(s)
                                                /\ Counter(s, i, row) \in Word
<1>1. d.width \in Nat \ {0} /\ d.depth \in 1 .. MaxRow + 1
  BY ContainersAssumption
<1>2. /\ s.width = d.width /\ s.depth = d.depth /\ s.count \in Word
      /\ s.counters \in [0 .. d.depth - 1 -> [0 .. d.width - 1 -> Word]]
  BY DEF SketchOf
<1>3. Rows(s) = 0 .. d.depth - 1 /\ Columns(s) = 0 .. d.width - 1
  BY <1>2 DEF Rows, Columns
<1>4. 0 \in Rows(s)
  BY <1>1, <1>3, SketchAssumption, SMT
<1>5. ASSUME NEW i \in Items, NEW row \in Rows(s)
      PROVE  Column(s, i, row) \in Columns(s) /\ Counter(s, i, row) \in Word
  <2>1. row \in 0 .. MaxRow
    BY <1>1, <1>3, SketchAssumption, SMT
  <2>2. Hash[i][row] \in Nat
    BY <2>1, SketchAssumption
  <2>3. Column(s, i, row) \in 0 .. d.width - 1
    BY <1>1, <1>2, <2>2, SMT DEF Column
  <2> QED  BY <1>2, <1>3, <2>3 DEF Counter
<1> QED  BY <1>1, <1>2, <1>3, <1>4, <1>5

\* The same of one row and an item.
LEMMA RowParts ==
    ASSUME NEW d \in Dims, NEW s \in SketchOf(d), NEW row \in Rows(s), NEW item \in Items
    PROVE  /\ Columns(s) = 0 .. d.width - 1 /\ row \in 0 .. d.depth - 1
           /\ Column(s, item, row) \in Columns(s) /\ s.counters[row] \in [Columns(s) -> Word]
<1>1. /\ Rows(s) = 0 .. d.depth - 1 /\ Columns(s) = 0 .. d.width - 1
      /\ s.counters \in [0 .. d.depth - 1 -> [0 .. d.width - 1 -> Word]]
  BY SketchParts
<1>2. Column(s, item, row) \in Columns(s)
  BY SketchParts
<1> QED  BY <1>1, <1>2

LEMMA QueryLower ==
    ASSUME NEW d \in Dims, NEW s \in SketchOf(d), NEW c, Lower(s, c), NEW i \in Items
    PROVE  query(s, i) >= c[i]
<1> DEFINE V == {Counter(s, i, row) : row \in Rows(s)}
           id == [v \in V |-> v]
<1>1. V # {} /\ V \subseteq Nat
  BY SketchParts, SketchAssumption, SMT DEF Word
<1>2. id \in [V -> Nat]
  BY <1>1
<1>3. \E x \in V : \A y \in V : id[x] <= id[y]
  BY <1>1, <1>2, Smallest
<1> HIDE DEF V
<1>4. \E x \in V : \A y \in V : x <= y
  BY <1>3
<1>5. Min(V) \in V
  BY <1>4 DEF Min
<1>6. PICK row \in Rows(s) : Min(V) = Counter(s, i, row)
  BY <1>5 DEF V
<1> QED  BY <1>6 DEF Lower, query, V

LEMMA PlusIsWord == \A a, b \in Word : Plus(a, b) \in Word /\ Times(a, b) \in Word
<1> SUFFICES ASSUME NEW a \in Word, NEW b \in Word PROVE Plus(a, b) \in Word /\ Times(a, b) \in Word
  OBVIOUS
<1>1. a \in Nat /\ b \in Nat
  BY SketchAssumption, SMT DEF Word
<1>2. a + b \in Nat /\ a * b \in Nat
  BY <1>1, SMT
<1>3. \A n \in Nat : n % (MaxUint + 1) \in 0 .. MaxUint
  BY SketchAssumption, SMT
<1> QED  BY <1>2, <1>3 DEF Plus, Times, Word

\* What fits a word is not wrapped.
LEMMA NoWrap == \A n \in Word : n % (MaxUint + 1) = n
BY SketchAssumption, SMT DEF Word

LEMMA NewSketch ==
    ASSUME NEW d \in Dims
    PROVE  LET s == NewCountMinSketch(d.width, d.depth) IN
           s \in SketchOf(d) /\ Lower(s, Nothing)
<1> DEFINE s == NewCountMinSketch(d.width, d.depth)
<1>1. 0 \in Word
  BY SketchAssumption, SMT DEF Word
<1>2. s \in SketchOf(d)
  BY <1>1 DEF NewCountMinSketch, SketchOf
<1>3. ASSUME NEW i \in Items, NEW row \in Rows(s) PROVE Counter(s, i, row) = 0
  <2>1. row \in 0 .. d.depth - 1 /\ Column(s, i, row) \in 0 .. d.width - 1
    BY <1>2, SketchParts
  <2> DEFINE column == Column(s, i, row)
  <2> HIDE DEF column
  <2>2. s.counters[row][column] = 0
    BY <2>1 DEF NewCountMinSketch, column
  <2> QED  BY <2>2 DEF Counter, column
<1> QED  BY <1>2, <1>3, SMT DEF Lower, Nothing

\* Incr raises the counter of the item in each row and leaves the others.
LEMMA IncrParts ==
    ASSUME NEW d \in Dims, NEW s \in SketchOf(d), NEW item \in Items, NEW v \in Word
    PROVE  /\ Incr(s, item, v) \in SketchOf(d)
           /\ \A i \in Items, row \in Rows(s) :
                Counter(Incr(s, item, v), i, row)
                  = IF Column(s, i, row) = Column(s, item, row)
                    THEN Plus(Counter(s, i, row), v) ELSE Counter(s, i, row)
<1> DEFINE rows == [row \in Rows(s) |->
                       [s.counters[row] EXCEPT ![Column(s, item, row)] = Plus(@, v)]]
           t == Incr(s, item, v)
<1>1. t = [s EXCEPT !.counters = rows, !.count = Plus(s.count, v)]
  BY DEF Incr
<1>2. rows \in [0 .. d.depth - 1 -> [0 .. d.width - 1 -> Word]]
  <2> SUFFICES ASSUME NEW row \in Rows(s) PROVE rows[row] \in [0 .. d.width - 1 -> Word]
    BY SketchParts
  <2>1. /\ s.counters[row] \in [0 .. d.width - 1 -> Word]
        /\ Column(s, item, row) \in 0 .. d.width - 1
    BY RowParts
  <2>2. Plus(s.counters[row][Column(s, item, row)], v) \in Word
    BY <2>1, PlusIsWord
  <2> QED  BY <2>1, <2>2
<1>3. Plus(s.count, v) \in Word
  BY SketchParts, PlusIsWord
<1>4. s = [width |-> s.width, depth |-> s.depth, count |-> s.count, counters |-> s.counters]
      /\ s.width = d.width /\ s.depth = d.depth
  BY DEF SketchOf
<1> HIDE DEF rows, t
<1>5. t = [width |-> d.width, depth |-> d.depth, count |-> Plus(s.count, v), counters |-> rows]
  BY <1>1, <1>4
<1>6. t \in SketchOf(d)
  BY <1>2, <1>3, <1>5 DEF SketchOf
<1>7. ASSUME NEW i \in Items, NEW row \in Rows(s)
      PROVE  Counter(t, i, row) = IF Column(s, i, row) = Column(s, item, row)
                                  THEN Plus(Counter(s, i, row), v) ELSE Counter(s, i, row)
  <2>1. Column(t, i, row) = Column(s, i, row)
    BY <1>4, <1>5 DEF Column
  <2>2. Column(s, i, row) \in 0 .. d.width - 1 /\ Column(s, item, row) \in 0 .. d.width - 1
        /\ s.counters[row] \in [0 .. d.width - 1 -> Word]
    BY RowParts
  <2>3. t.counters[row] = [s.counters[row] EXCEPT ![Column(s, item, row)] = Plus(@, v)]
    BY <1>5 DEF rows
  <2> QED  BY <2>1, <2>2, <2>3 DEF Counter
<1> QED  BY <1>6, <1>7 DEF t

LEMMA IncrLower ==
    ASSUME NEW d \in Dims, NEW s \in SketchOf(d), NEW item \in Items, NEW v \in Word,
           ~ IncrOverflows(s, item, v), NEW c \in [Items -> Nat], Lower(s, c)
    PROVE  Lower(Incr(s, item, v), [c EXCEPT ![item] = @ + v])
<1> DEFINE t == Incr(s, item, v)
           e == [c EXCEPT ![item] = @ + v]
<1> SUFFICES ASSUME NEW i \in Items, NEW row \in Rows(t) PROVE Counter(t, i, row) >= e[i]
  BY DEF Lower
<1>1. row \in Rows(s)
  BY IncrParts, SketchParts
<1>2. Counter(s, i, row) >= c[i] /\ Counter(s, i, row) \in Word
  BY <1>1, SketchParts DEF Lower
<1>3. c[i] \in Nat /\ e[i] = IF i = item THEN c[i] + v ELSE c[i]
  OBVIOUS
<1>4. Counter(t, i, row) = IF Column(s, i, row) = Column(s, item, row)
                           THEN Plus(Counter(s, i, row), v) ELSE Counter(s, i, row)
  BY <1>1, IncrParts
<1> HIDE DEF t, e
<1>5. CASE Column(s, i, row) = Column(s, item, row)
  <2>1. Counter(s, i, row) = Counter(s, item, row)
    BY <1>5 DEF Counter
  <2>2. ~ (MaxUint - Counter(s, item, row) < v)
    BY <1>1 DEF IncrOverflows
  <2>3. Counter(s, i, row) + v \in Word
    BY <1>2, <2>1, <2>2, SketchAssumption, SMT DEF Word
  <2>4. Plus(Counter(s, i, row), v) = Counter(s, i, row) + v
    BY <2>3, NoWrap DEF Plus
  <2> QED  BY <1>2, <1>3, <1>4, <1>5, <2>4, SMT DEF Word
<1>6. CASE Column(s, i, row) # Column(s, item, row)
  BY <1>2, <1>3, <1>4, <1>6
<1> QED  BY <1>5, <1>6

\* Adding a sketch of the same shape adds, in every row, what the item has there.
LEMMA AddParts ==
    ASSUME NEW d \in Dims, NEW s \in SketchOf(d), NEW u \in SketchOf(d), NEW w \in Word
    PROVE  /\ AddWeighted(s, u, w) \in SketchOf(d)
           /\ \A i \in Items, row \in Rows(s) :
                Counter(AddWeighted(s, u, w), i, row)
                  = Plus(Counter(s, i, row), Times(Counter(u, i, row), w))
<1> DEFINE rows == [row \in Rows(s) |-> [column \in Columns(s) |->
                       Plus(s.counters[row][column], Times(u.counters[row][column], w))]]
           n == Plus(s.count, Times(u.count, w))
           t == AddWeighted(s, u, w)
<1>1. t = [s EXCEPT !.counters = rows, !.count = n]
  BY DEF AddWeighted
<1>2. rows \in [0 .. d.depth - 1 -> [0 .. d.width - 1 -> Word]]
  <2> SUFFICES ASSUME NEW row \in Rows(s), NEW column \in Columns(s)
               PROVE  Plus(s.counters[row][column], Times(u.counters[row][column], w)) \in Word
    BY SketchParts
  <2>1. s.counters[row][column] \in Word /\ u.counters[row][column] \in Word
    <3>1. /\ s.counters[row] \in [0 .. d.width - 1 -> Word]
          /\ u.counters[row] \in [0 .. d.width - 1 -> Word]
      BY SketchParts
    <3>2. column \in 0 .. d.width - 1
      BY SketchParts
    <3> QED  BY <3>1, <3>2
  <2> QED  BY <2>1, PlusIsWord
<1>3. n \in Word
  BY SketchParts, PlusIsWord
<1>4. s = [width |-> s.width, depth |-> s.depth, count |-> s.count, counters |-> s.counters]
      /\ s.width = d.width /\ s.depth = d.depth /\ u.width = d.width
  BY DEF SketchOf
<1> HIDE DEF rows, t, n
<1>5. t = [width |-> d.width, depth |-> d.depth, count |-> n, counters |-> rows]
  BY <1>1, <1>4
<1>6. t \in SketchOf(d)
  BY <1>2, <1>3, <1>5 DEF SketchOf
<1>7. ASSUME NEW i \in Items, NEW row \in Rows(s)
      PROVE  Counter(t, i, row) = Plus(Counter(s, i, row), Times(Counter(u, i, row), w))
  <2> DEFINE column == Column(s, i, row)
  <2>1. Column(t, i, row) = column /\ Column(u, i, row) = column
    BY <1>4, <1>5 DEF Column
  <2>2. column \in Columns(s)
    BY SketchParts
  <2>3. Counter(s, i, row) = s.counters[row][column] /\ Counter(u, i, row) = u.counters[row][column]
        /\ Counter(t, i, row) = t.counters[row][column]
    BY <2>1 DEF Counter
  <2> HIDE DEF column
  <2>4. t.counters[row][column] = Plus(s.counters[row][column], Times(u.counters[row][column], w))
    BY <1>5, <2>2 DEF rows
  <2> QED  BY <2>3, <2>4
<1> QED  BY <1>6, <1>7 DEF t

\* What Wraps lets through is computed without a wrap.
LEMMA WrapsExact ==
    ASSUME NEW a \in Word, NEW w \in Word \ {0}, NEW b \in Word, ~ Wraps(a, w, b)
    PROVE  Plus(b, Times(a, w)) = b + a * w
<1>1. MaxUint \in Nat \ {0} /\ a \in Nat /\ b \in Nat /\ w \in Nat
  BY SketchAssumption DEF Word
<1>2. (a = 0 \/ ~ (w > MaxUint \div a)) /\ ~ (MaxUint - b < Times(a, w))
  BY DEF Wraps
<1>3. a * w \in Word
  <2>1. CASE a = 0
    BY <1>1, <2>1, SMT DEF Word
  <2>2. CASE a # 0
    <3>1. w <= MaxUint \div a
      BY <1>1, <1>2, <2>2, SMT
    <3>2. a * w <= MaxUint /\ a * w \in Nat
      BY <1>1, <2>2, <3>1, SMT
    <3> QED  BY <3>2, <1>1, SMT DEF Word
  <2> QED  BY <2>1, <2>2
<1>4. Times(a, w) = a * w
  BY <1>3, NoWrap DEF Times
<1>5. b + a * w \in Word
  <2> DEFINE p == a * w
  <2>1. p \in Nat /\ ~ (MaxUint - b < p)
    BY <1>2, <1>3, <1>4 DEF Word
  <2> HIDE DEF p
  <2>2. b + p \in Word
    BY <1>1, <2>1, SMT DEF Word
  <2> QED  BY <2>2 DEF p
<1> QED  BY <1>4, <1>5, NoWrap DEF Plus

LEMMA AddLower ==
    ASSUME NEW d \in Dims, NEW s \in SketchOf(d), NEW u \in SketchOf(d), NEW w \in Word \ {0},
           ~ MergeOverflows(s, u, w),
           NEW c \in [Items -> Nat], Lower(s, c), NEW e \in [Items -> Nat], Lower(u, e)
    PROVE  Lower(AddWeighted(s, u, w), [i \in Items |-> c[i] + w * e[i]])
<1> DEFINE t == AddWeighted(s, u, w)
<1> SUFFICES ASSUME NEW i \in Items, NEW row \in Rows(t)
             PROVE  Counter(t, i, row) >= c[i] + w * e[i]
  BY DEF Lower
<1>1. row \in Rows(s) /\ row \in Rows(u)
  BY AddParts, SketchParts
<1>2. Counter(t, i, row) = Plus(Counter(s, i, row), Times(Counter(u, i, row), w))
  BY <1>1, AddParts
<1>3. ~ Wraps(Counter(u, i, row), w, Counter(s, i, row))
  <2>1. Column(s, i, row) = Column(u, i, row) /\ Column(s, i, row) \in Columns(s)
    BY <1>1, SketchParts DEF Column
  <2> QED  BY <1>1, <2>1 DEF MergeOverflows, Counter
<1> DEFINE a == Counter(u, i, row)
           b == Counter(s, i, row)
<1>4. a \in Word /\ b \in Word /\ a >= e[i] /\ b >= c[i] /\ e[i] \in Nat /\ c[i] \in Nat
  BY <1>1, SketchParts DEF Lower
<1> HIDE DEF a, b, t
<1>5. Plus(b, Times(a, w)) = b + a * w
  BY <1>3, <1>4, WrapsExact DEF a, b
<1>6. a * w >= w * e[i]
  BY <1>4, SMT DEF Word
<1>7. b + a * w >= c[i] + w * e[i]
  <2> DEFINE p == a * w
             q == w * e[i]
  <2>1. p \in Nat /\ q \in Nat /\ p >= q
    BY <1>4, <1>6, SMT DEF Word
  <2> HIDE DEF p, q
  <2>2. b + p >= c[i] + q
    BY <1>4, <2>1, SMT DEF Word
  <2> QED  BY <2>2 DEF p, q
<1> QED  BY <1>2, <1>5, <1>7 DEF a, b

\* Every row adds up to the count of the sketch, and that is all that was added.
SumsUp(s, c) == /\ s.count = SumOver(c, Items)
                /\ \A row \in Rows(s) : SumOver(s.counters[row], Columns(s)) = s.count

LEMMA ColumnsFinite == ASSUME NEW d \in Dims, NEW s \in SketchOf(d) PROVE IsFiniteSet(Columns(s))
<1>1. Columns(s) = 0 .. d.width - 1 /\ d.width \in Nat \ {0}
  BY SketchParts
<1>2. d.width - 1 \in Int /\ 0 \in Int
  BY <1>1, SMT
<1> QED  BY <1>1, <1>2, FS_Interval

LEMMA NewSums ==
    ASSUME NEW d \in Dims
    PROVE  SumsUp(NewCountMinSketch(d.width, d.depth), Nothing)
<1>1. PICK s : s = NewCountMinSketch(d.width, d.depth)
  OBVIOUS
<1>2. s \in SketchOf(d) /\ s.count = 0
  <2>1. NewCountMinSketch(d.width, d.depth) \in SketchOf(d)
    BY NewSketch
  <2>2. s.count = 0
    BY <1>1 DEF NewCountMinSketch
  <2> QED  BY <1>1, <2>1, <2>2
<1>3. SumOver(Nothing, Items) = 0
  BY ItemsAssumption, SumOfNone DEF Nothing
<1>4. ASSUME NEW row \in Rows(s) PROVE SumOver(s.counters[row], Columns(s)) = 0
  <2>1. Rows(s) = 0 .. d.depth - 1 /\ Columns(s) = 0 .. d.width - 1
    BY <1>2, SketchParts
  <2>2. s.counters[row] = [column \in Columns(s) |-> 0]
    BY <1>1, <2>1 DEF NewCountMinSketch
  <2> QED  BY <1>2, <2>2, ColumnsFinite, SumOfNone
<1>5. SumsUp(s, Nothing)
  BY <1>2, <1>3, <1>4 DEF SumsUp
<1> QED  BY <1>1, <1>5

LEMMA IncrSums ==
    ASSUME NEW d \in Dims, NEW s \in SketchOf(d), NEW item \in Items, NEW v \in Word,
           ~ IncrOverflows(s, item, v), NEW c \in [Items -> Nat], SumsUp(s, c)
    PROVE  SumsUp(Incr(s, item, v), [c EXCEPT ![item] = @ + v])
<1>1. PICK t : t = Incr(s, item, v)
  OBVIOUS
<1>2. v \in Nat /\ MaxUint \in Nat /\ s.count \in Word
  BY SketchAssumption, SketchParts, SMT DEF Word
<1>3. /\ t.counters = [row \in Rows(s) |-> [s.counters[row] EXCEPT ![Column(s, item, row)]
                                                                = Plus(@, v)]]
      /\ t.count = Plus(s.count, v) /\ Rows(t) = Rows(s) /\ Columns(t) = Columns(s)
  <2>1. s = [width |-> s.width, depth |-> s.depth, count |-> s.count, counters |-> s.counters]
    BY DEF SketchOf
  <2>2. t = [s EXCEPT !.counters = [row \in Rows(s) |->
                          [s.counters[row] EXCEPT ![Column(s, item, row)] = Plus(@, v)]],
                      !.count = Plus(s.count, v)]
    BY <1>1 DEF Incr
  <2> QED  BY <2>1, <2>2 DEF Rows, Columns
<1>4. t.count = s.count + v
  <2>1. ~ (MaxUint - s.count < v)
    BY DEF IncrOverflows
  <2>2. s.count + v \in Word
    BY <1>2, <2>1, SMT DEF Word
  <2> QED  BY <1>3, <2>2, NoWrap DEF Plus
<1>5. SumOver([c EXCEPT ![item] = @ + v], Items) = SumOver(c, Items) + v
  BY <1>2, ItemsAssumption, SumRaised
<1>6. ASSUME NEW row \in Rows(s) PROVE SumOver(t.counters[row], Columns(s)) = s.count + v
  <2> DEFINE x == Column(s, item, row)
             f == s.counters[row]
  <2>1. x \in Columns(s) /\ f \in [Columns(s) -> Word] /\ f[x] \in Word
    <3>1. x \in Columns(s) /\ f \in [Columns(s) -> Word]
      BY RowParts
    <3> QED  BY <3>1
  <2>2. ~ (MaxUint - f[x] < v)
    BY DEF IncrOverflows, Counter
  <2>3. t.counters[row] = [f EXCEPT ![x] = Plus(f[x], v)]
    BY <1>3
  <2> HIDE DEF x, f
  <2>4. Plus(f[x], v) = f[x] + v
    <3>1. f[x] + v \in Word
      BY <1>2, <2>1, <2>2, SMT DEF Word
    <3> QED  BY <3>1, NoWrap DEF Plus
  <2>5. t.counters[row] = [f EXCEPT ![x] = @ + v]
    BY <2>3, <2>4
  <2>6. Word \subseteq Nat
    BY SketchAssumption, SMT DEF Word
  <2>7. f \in [Columns(s) -> Nat]
    BY <2>1, <2>6
  <2>8. SumOver([f EXCEPT ![x] = @ + v], Columns(s)) = SumOver(f, Columns(s)) + v
    BY <1>2, <2>1, <2>7, ColumnsFinite, SumRaised
  <2>9. SumOver(f, Columns(s)) = s.count
    BY DEF SumsUp, f
  <2> QED  BY <2>5, <2>8, <2>9
<1>7. s.count = SumOver(c, Items)
  BY DEF SumsUp
<1>8. SumsUp(t, [c EXCEPT ![item] = @ + v])
  BY <1>3, <1>4, <1>5, <1>6, <1>7 DEF SumsUp
<1> QED  BY <1>1, <1>8

LEMMA AddSums ==
    ASSUME NEW d \in Dims, NEW s \in SketchOf(d), NEW u \in SketchOf(d), NEW w \in Word \ {0},
           ~ MergeOverflows(s, u, w),
           NEW c \in [Items -> Nat], SumsUp(s, c), NEW e \in [Items -> Nat], SumsUp(u, e),
           NEW b \in [Items -> Nat], TermByTerm(b, c, e, w, Items)
    PROVE  SumsUp(AddWeighted(s, u, w), b)
<1>1. PICK t : t = AddWeighted(s, u, w)
  OBVIOUS
<1>2. w \in Nat /\ Word \subseteq Nat /\ s.count \in Word /\ u.count \in Word
  BY SketchAssumption, SketchParts, SMT DEF Word
<1>3. Rows(u) = Rows(s) /\ Columns(u) = Columns(s)
  BY SketchParts
<1>4. /\ t.counters = [row \in Rows(s) |-> [column \in Columns(s) |->
                          Plus(s.counters[row][column], Times(u.counters[row][column], w))]]
      /\ t.count = Plus(s.count, Times(u.count, w))
      /\ Rows(t) = Rows(s) /\ Columns(t) = Columns(s)
  <2>1. s = [width |-> s.width, depth |-> s.depth, count |-> s.count, counters |-> s.counters]
    BY DEF SketchOf
  <2>2. t = [s EXCEPT !.counters = [row \in Rows(s) |-> [column \in Columns(s) |->
                          Plus(s.counters[row][column], Times(u.counters[row][column], w))]],
                      !.count = Plus(s.count, Times(u.count, w))]
    BY <1>1 DEF AddWeighted
  <2> QED  BY <2>1, <2>2 DEF Rows, Columns
<1>5. t.count = s.count + u.count * w
  <2>1. ~ Wraps(u.count, w, s.count)
    BY DEF MergeOverflows
  <2> QED  BY <1>2, <1>4, <2>1, WrapsExact
<1>6. SumOver(b, Items) = SumOver(c, Items) + w * SumOver(e, Items)
  BY <1>2, ItemsAssumption, SumAdds
<1>7. s.count = SumOver(c, Items) /\ u.count = SumOver(e, Items)
  BY DEF SumsUp
<1>8. u.count * w = w * u.count
  <2>1. PICK n : n = u.count
    OBVIOUS
  <2>2. n \in Nat
    BY <1>2, <2>1
  <2>3. n * w = w * n
    BY <1>2, <2>2, SMT
  <2> QED  BY <2>1, <2>3, Zenon
<1>9. ASSUME NEW row \in Rows(s)
      PROVE  SumOver(t.counters[row], Columns(s)) = s.count + w * u.count
  <2> DEFINE f == s.counters[row]
             g == u.counters[row]
             h == t.counters[row]
  <2>1. f \in [Columns(s) -> Word] /\ g \in [Columns(s) -> Word]
    <3>1. Columns(s) = 0 .. d.width - 1 /\ Rows(s) = 0 .. d.depth - 1
          /\ s.counters \in [0 .. d.depth - 1 -> [0 .. d.width - 1 -> Word]]
          /\ u.counters \in [0 .. d.depth - 1 -> [0 .. d.width - 1 -> Word]]
      BY SketchParts
    <3> QED  BY <3>1
  <2>2. h = [column \in Columns(s) |-> Plus(f[column], Times(g[column], w))]
    BY <1>4
  <2>3. \A column \in Columns(s) : ~ Wraps(g[column], w, f[column])
    BY DEF MergeOverflows
  <2> HIDE DEF f, g, h
  <2>4. ASSUME NEW column \in Columns(s)
        PROVE  h[column] = f[column] + w * g[column] /\ h[column] \in Nat
    <3> DEFINE x == f[column]
               y == g[column]
    <3>1. x \in Word /\ y \in Word /\ h[column] = Plus(x, Times(y, w)) /\ ~ Wraps(y, w, x)
      BY <2>1, <2>2, <2>3
    <3> HIDE DEF x, y
    <3>2. h[column] = x + y * w
      BY <3>1, WrapsExact
    <3>3. x \in Nat /\ y \in Nat
      BY <1>2, <3>1
    <3>4. x + y * w = x + w * y /\ x + w * y \in Nat
      BY <1>2, <3>3, SMT
    <3> QED  BY <3>2, <3>4, Zenon DEF x, y
  <2>5. h \in [Columns(s) -> Nat] /\ TermByTerm(h, f, g, w, Columns(s))
    <3>1. TermByTerm(h, f, g, w, Columns(s))
      BY <2>4, Zenon DEF TermByTerm
    <3>2. h = [column \in Columns(s) |-> h[column]]
      BY <2>2
    <3> QED  BY <2>4, <3>1, <3>2
  <2>6. f \in [Columns(s) -> Nat] /\ g \in [Columns(s) -> Nat]
    BY <1>2, <2>1
  <2>7. SumOver(h, Columns(s)) = SumOver(f, Columns(s)) + w * SumOver(g, Columns(s))
    BY <1>2, <2>5, <2>6, ColumnsFinite, SumAdds
  <2>8. SumOver(f, Columns(s)) = s.count /\ SumOver(g, Columns(s)) = u.count
    BY <1>3 DEF SumsUp, f, g
  <2> QED  BY <2>7, <2>8, Zenon DEF h
<1>10. SumsUp(t, b)
  <2>1. t.count = s.count + w * u.count
    BY <1>5, <1>8, Zenon
  <2>2. t.count = SumOver(b, Items)
    BY <1>6, <1>7, <2>1, Zenon
  <2>3. \A row \in Rows(t) : SumOver(t.counters[row], Columns(t)) = t.count
    BY <1>4, <1>9, <2>1, Zenon
  <2> QED  BY <2>2, <2>3, Zenon DEF SumsUp
<1> QED  BY <1>1, <1>10

\* What the history of its key says of a sketch.
Kept(s, c) == Lower(s, c) /\ SumsUp(s, c)

LEMMA NewKept == ASSUME NEW d \in Dims PROVE Kept(NewCountMinSketch(d.width, d.depth), Nothing)
BY NewSketch, NewSums DEF Kept

LEMMA IncrKept ==
    ASSUME NEW d \in Dims, NEW s \in SketchOf(d), NEW item \in Items, NEW v \in Word,
           ~ IncrOverflows(s, item, v), NEW c \in [Items -> Nat], Kept(s, c)
    PROVE  Kept(Incr(s, item, v), [c EXCEPT ![item] = @ + v])
BY IncrLower, IncrSums DEF Kept

LEMMA AddKept ==
    ASSUME NEW d \in Dims, NEW s \in SketchOf(d), NEW u \in SketchOf(d), NEW w \in Word \ {0},
           ~ MergeOverflows(s, u, w),
           NEW c \in [Items -> Nat], Kept(s, c), NEW e \in [Items -> Nat], Kept(u, e),
           [i \in Items |-> c[i] + w * e[i]] \in [Items -> Nat]
    PROVE  Kept(AddWeighted(s, u, w), [i \in Items |-> c[i] + w * e[i]])
<1> DEFINE b == [i \in Items |-> c[i] + w * e[i]]
<1>1. TermByTerm(b, c, e, w, Items)
  BY DEF TermByTerm
<1>2. b \in [Items -> Nat]
  OBVIOUS
<1>3. Lower(AddWeighted(s, u, w), b)
  BY AddLower DEF Kept
<1> HIDE DEF b
<1>4. SumsUp(AddWeighted(s, u, w), b)
  BY <1>1, <1>2, AddSums DEF Kept
<1>5. Kept(AddWeighted(s, u, w), b)
  BY <1>3, <1>4 DEF Kept
<1> QED  BY <1>5 DEF b

-----------------------------------------------------------------------------
(* CMS.INCRBY                                                                *)

LEMMA MaxIn ==
    ASSUME NEW N \in Nat, NEW M \in SUBSET (0 .. N), M # {}
    PROVE  Max(M) \in M
<1> DEFINE f == [x \in M |-> N - x]
<1>1. f \in [M -> Nat]
  BY SMT
<1>2. PICK x \in M : \A y \in M : f[x] <= f[y]
  <2> HIDE DEF f
  <2> QED  BY <1>1, Smallest
<1>3. \A y \in M : x >= y
  BY <1>2, SMT
<1> QED  BY <1>3 DEF Max

IncrList == Seq([item : Items, value : Word \ {0}])

LEMMA SeqParts ==
    ASSUME NEW T, NEW q \in Seq(T)
    PROVE  Len(q) \in Nat /\ \A n \in 1 .. Len(q) : q[n] \in T
OBVIOUS

LEMMA IncrListParts ==
    ASSUME NEW incs \in IncrList
    PROVE  /\ Len(incs) \in Nat
           /\ \A n \in 1 .. Len(incs) :
                incs[n].item \in Items /\ incs[n].value \in Word /\ incs[n].value \in Nat
<1>1. Len(incs) \in Nat /\ \A n \in 1 .. Len(incs) : incs[n] \in [item : Items, value : Word \ {0}]
  BY SeqParts DEF IncrList
<1>2. Word \subseteq Nat
  BY SketchAssumption, SMT DEF Word
<1> QED  BY <1>1, <1>2

\* The two loops, of the sketch and of what was really added.
AppliedBy(h, s, incs) ==
    h = [n \in 0 .. Len(incs) |-> IF n = 0 THEN s
                                  ELSE Incr(h[n - 1], incs[n].item, incs[n].value)]
CountedBy(e, c, incs, n) ==
    e = [m \in 0 .. n |-> IF m = 0 THEN c
                          ELSE [e[m - 1] EXCEPT ![incs[m].item] = @ + incs[m].value]]

LEMMA AppliedRounds ==
    ASSUME NEW d \in Dims, NEW s \in SketchOf(d), NEW incs \in IncrList
    PROVE  \E h : /\ AppliedBy(h, s, incs)
                  /\ LET n == Max({m \in 0 .. Len(incs) :
                                     \A j \in 1 .. m : ~ IncrOverflows(h[j - 1], incs[j].item,
                                                                       incs[j].value)})
                     IN Applied(s, incs) = [n |-> n, sketch |-> h[n]]
<1> DEFINE N == Len(incs)
           T == SketchOf(d)
           f == [n \in 1 .. N |-> [u \in T |-> Incr(u, incs[n].item, incs[n].value)]]
           Is(h) == h = [n \in 0 .. N |-> IF n = 0 THEN s
                                          ELSE Incr(h[n - 1], incs[n].item, incs[n].value)]
<1>1. N \in Nat /\ \A n \in 1 .. N : incs[n].item \in Items /\ incs[n].value \in Word
  BY IncrListParts
<1>2. f \in [1 .. N -> [T -> T]]
  BY <1>1, IncrParts
<1> HIDE DEF f, T, N
<1>3. PICK g : Rounds(g, N, T, s, f)
  BY <1>1, <1>2, Recursion DEF T
<1>4. Is(g)
  <2>1. ASSUME NEW n \in 0 .. N, n # 0
        PROVE  f[n][g[n - 1]] = Incr(g[n - 1], incs[n].item, incs[n].value)
    <3>1. n \in 1 .. N /\ n - 1 \in 0 .. N
      BY <1>1, <2>1, SMT
    <3>2. g[n - 1] \in T
      BY <1>3, <3>1 DEF Rounds
    <3> QED  BY <3>1, <3>2 DEF f
  <2>2. g = [n \in 0 .. N |-> IF n = 0 THEN s ELSE f[n][g[n - 1]]]
    BY <1>3 DEF Rounds
  <2> QED  BY <2>1, <2>2
<1> DEFINE h == CHOOSE h : Is(h)
<1>5. Is(h)
  BY <1>4
<1>6. Applied(s, incs)
        = LET n == Max({m \in 0 .. N : \A j \in 1 .. m :
                           ~ IncrOverflows(h[j - 1], incs[j].item, incs[j].value)})
          IN [n |-> n, sketch |-> h[n]]
  BY DEF Applied, N
<1> HIDE DEF h
<1> QED  BY <1>5, <1>6 DEF AppliedBy, N

LEMMA CountedRounds ==
    ASSUME NEW incs \in IncrList, NEW c \in [Items -> Nat], NEW n \in 0 .. Len(incs)
    PROVE  \E e : CountedBy(e, c, incs, n) /\ TrueCount(c, incs, n) = e[n]
<1> DEFINE T == [Items -> Nat]
           f == [m \in 1 .. n |-> [b \in T |-> [b EXCEPT ![incs[m].item] = @ + incs[m].value]]]
           Is(e) == e = [m \in 0 .. n |-> IF m = 0 THEN c
                             ELSE [e[m - 1] EXCEPT ![incs[m].item] = @ + incs[m].value]]
<1>1. n \in Nat /\ \A m \in 1 .. n : m \in 1 .. Len(incs)
  BY IncrListParts, SMT
<1>2. f \in [1 .. n -> [T -> T]]
  <2> SUFFICES ASSUME NEW m \in 1 .. n, NEW b \in T
               PROVE  [b EXCEPT ![incs[m].item] = @ + incs[m].value] \in T
    OBVIOUS
  <2>1. incs[m].item \in Items /\ incs[m].value \in Nat
    BY <1>1, IncrListParts
  <2>2. b[incs[m].item] + incs[m].value \in Nat
    BY <2>1, SMT
  <2> QED  BY <2>1, <2>2
<1> HIDE DEF f, T
<1>3. PICK g : Rounds(g, n, T, c, f)
  BY <1>1, <1>2, Recursion DEF T
<1>4. Is(g)
  <2>1. ASSUME NEW m \in 0 .. n, m # 0
        PROVE  f[m][g[m - 1]] = [g[m - 1] EXCEPT ![incs[m].item] = @ + incs[m].value]
    <3>1. m \in 1 .. n /\ m - 1 \in 0 .. n
      BY <1>1, <2>1, SMT
    <3>2. g[m - 1] \in T
      BY <1>3, <3>1 DEF Rounds
    <3> QED  BY <3>1, <3>2 DEF f
  <2>2. g = [m \in 0 .. n |-> IF m = 0 THEN c ELSE f[m][g[m - 1]]]
    BY <1>3 DEF Rounds
  <2> QED  BY <2>1, <2>2
<1>5. TrueCount(c, incs, n) = (CHOOSE e : Is(e))[n]
  BY DEF TrueCount
<1>6. Is(CHOOSE e : Is(e))
  BY <1>4
<1> QED  BY <1>5, <1>6 DEF CountedBy

\* The increments that take effect raise the counters by at least what they add.
LEMMA AppliedGood ==
    ASSUME NEW d \in Dims, NEW s \in SketchOf(d), NEW incs \in IncrList,
           NEW c \in [Items -> Nat], Kept(s, c)
    PROVE  LET a == Applied(s, incs) IN
           /\ a.sketch \in SketchOf(d)
           /\ TrueCount(c, incs, a.n) \in [Items -> Nat]
           /\ Kept(a.sketch, TrueCount(c, incs, a.n))
<1> DEFINE N == Len(incs)
<1>1. PICK h : /\ AppliedBy(h, s, incs)
               /\ LET n == Max({m \in 0 .. N : \A j \in 1 .. m :
                                  ~ IncrOverflows(h[j - 1], incs[j].item, incs[j].value)})
                  IN Applied(s, incs) = [n |-> n, sketch |-> h[n]]
  BY AppliedRounds
<1> DEFINE M == {m \in 0 .. N : \A j \in 1 .. m :
                    ~ IncrOverflows(h[j - 1], incs[j].item, incs[j].value)}
           k == Max(M)
<1>2. N \in Nat
  BY IncrListParts
<1>3. 0 \in M
  BY <1>2, SMT
<1>4. k \in M
  <2> HIDE DEF M
  <2>1. M \in SUBSET (0 .. N)
    BY DEF M
  <2> QED  BY <1>2, <1>3, <2>1, MaxIn
<1>5. Applied(s, incs) = [n |-> k, sketch |-> h[k]]
  BY <1>1
<1>6. k \in 0 .. N /\ \A j \in 1 .. k : ~ IncrOverflows(h[j - 1], incs[j].item, incs[j].value)
  BY <1>4
<1> HIDE DEF k, M
<1>7. PICK e : CountedBy(e, c, incs, k) /\ TrueCount(c, incs, k) = e[k]
  BY <1>6, CountedRounds
<1> DEFINE S == {m \in 0 .. k : /\ h[m] \in SketchOf(d) /\ e[m] \in [Items -> Nat]
                                /\ Kept(h[m], e[m])}
<1>8. k \in Nat
  BY <1>2, <1>6, SMT
<1>9. 0 \in S
  <2>1. 0 \in 0 .. k /\ 0 \in 0 .. N
    BY <1>2, <1>8, SMT
  <2>2. h[0] = s /\ e[0] = c
    BY <1>1, <1>7, <2>1 DEF AppliedBy, CountedBy
  <2> QED  BY <2>1, <2>2
<1>10. ASSUME NEW m \in 1 .. k, m - 1 \in S PROVE m \in S
  <2>1. m \in 0 .. k /\ m \in 0 .. N /\ m \in 1 .. N /\ m # 0
    BY <1>2, <1>6, <1>8, SMT
  <2> DEFINE x == incs[m].item
             v == incs[m].value
  <2>2. x \in Items /\ v \in Word /\ v \in Nat
    BY <2>1, IncrListParts
  <2>3. h[m] = Incr(h[m - 1], x, v) /\ e[m] = [e[m - 1] EXCEPT ![x] = @ + v]
    BY <1>1, <1>7, <2>1 DEF AppliedBy, CountedBy
  <2>4. ~ IncrOverflows(h[m - 1], x, v)
    BY <1>6
  <2> HIDE DEF x, v
  <2>5. h[m - 1] \in SketchOf(d) /\ e[m - 1] \in [Items -> Nat] /\ Kept(h[m - 1], e[m - 1])
    BY <1>10
  <2>6. h[m] \in SketchOf(d) /\ Kept(h[m], e[m])
    BY <2>2, <2>3, <2>4, <2>5, IncrParts, IncrKept
  <2>7. e[m - 1][x] + v \in Nat
    BY <2>2, <2>5, SMT
  <2>8. e[m] \in [Items -> Nat]
    BY <2>2, <2>3, <2>5, <2>7
  <2> QED  BY <2>1, <2>6, <2>8
<1> HIDE DEF S
<1>11. \A m \in 0 .. k : m \in S
  BY <1>8, <1>9, <1>10, CountUp
<1>12. k \in 0 .. k
  BY <1>8, SMT
<1>13. h[k] \in SketchOf(d) /\ e[k] \in [Items -> Nat] /\ Kept(h[k], e[k])
  BY <1>11, <1>12 DEF S
<1> QED  BY <1>5, <1>7, <1>13

-----------------------------------------------------------------------------
(* CMS.MERGE                                                                 *)

\* The key holds a live sketch of shape d.
HasSketch(k, d) == store.data[k] \in CMSRecordOf(d)

SourceList == Seq([key : Keys, weight : Word \ {0}])

LEMMA SourceListParts ==
    ASSUME NEW sources \in SourceList
    PROVE  /\ Len(sources) \in Nat
           /\ \A n \in 1 .. Len(sources) :
                /\ sources[n].key \in Keys
                /\ sources[n].weight \in Word \ {0} /\ sources[n].weight \in Nat
<1>1. /\ Len(sources) \in Nat
      /\ \A n \in 1 .. Len(sources) : sources[n] \in [key : Keys, weight : Word \ {0}]
  BY SeqParts DEF SourceList
<1>2. Word \subseteq Nat
  BY SketchAssumption, SMT DEF Word
<1> QED  BY <1>1, <1>2

LEMMA ErrorFree ==
    ASSUME Good(store), NEW k \in Keys, CMSError(k) = ""
    PROVE  /\ store.data[k] # Absent /\ Live(store, k) /\ store.data[k].type = "cms"
           /\ \E d \in Dims : HasSketch(k, d)
<1>1. Live(store, k) /\ store.data[k].type = "cms"
  BY DEF CMSError, LookupError
<1>2. store.data[k] # Absent
  BY <1>1 DEF Live
<1> QED  BY <1>1, <1>2, GoodParts, RecParts DEF HasSketch

\* What the first loop may have done to the store: keys were refreshed.
Refreshed == {s \in Stores : Good(s) /\ s.data = store.data /\ s.policy.name = store.policy.name}
FoundAccs == [error : {"", "notfound", "wrongtype"}, store : Refreshed]

LEMMA FoundAcc ==
    ASSUME NEW e \in {"", "notfound", "wrongtype"}, NEW s \in Refreshed,
           NEW acc, acc = [error |-> e, store |-> s]
    PROVE  acc \in FoundAccs /\ acc.error = e
BY DEF FoundAccs

LEMMA FoundStep ==
    ASSUME Good(store), NEW acc \in FoundAccs, NEW k \in Keys
    PROVE  /\ Found(acc, k) \in FoundAccs
           /\ Found(acc, k).error = "" => acc.error = "" /\ CMSError(k) = ""
<1>1. acc.error \in {"", "notfound", "wrongtype"} /\ acc.store \in Refreshed
      /\ acc = [error |-> acc.error, store |-> acc.store]
  BY DEF FoundAccs
<1>2. CASE acc.error # ""
  BY <1>1, <1>2 DEF Found
<1>3. CASE acc.error = "" /\ CMSError(k) # ""
  <2>1. CMSError(k) \in {"notfound", "wrongtype"}
    BY <1>3 DEF CMSError, LookupError
  <2>2. Found(acc, k) = [error |-> CMSError(k), store |-> acc.store]
    BY <1>1, <1>3 DEF Found
  <2>3. Found(acc, k) \in FoundAccs /\ Found(acc, k).error = CMSError(k)
    <3>1. CMSError(k) \in {"", "notfound", "wrongtype"}
      BY <2>1
    <3> QED  BY <1>1, <2>2, <3>1, FoundAcc, Zenon
  <2> QED  BY <1>3, <2>3
<1>4. CASE acc.error = "" /\ CMSError(k) = ""
  <2> DEFINE s == notifyAccess(acc.store, k)
  <2>1. /\ Good(acc.store) /\ acc.store.data = store.data
        /\ acc.store.policy.name = store.policy.name
    BY <1>1 DEF Refreshed
  <2>2. store.data[k] # Absent
    BY <1>4, ErrorFree
  <2>3. Becomes(s, acc.store, k, acc.store.data[k]) /\ s.data = acc.store.data
    BY <2>1, <2>2, AccessGood
  <2>4. Found(acc, k) = [error |-> "", store |-> s]
    BY <1>1, <1>4 DEF Found
  <2> HIDE DEF s
  <2>5. s \in Refreshed
    BY <2>1, <2>3, GoodParts DEF Becomes, Refreshed
  <2>6. Found(acc, k) \in FoundAccs
    BY <2>4, <2>5, FoundAcc
  <2> QED  BY <1>4, <2>6
<1> QED  BY <1>2, <1>3, <1>4

\* Sources are refreshed only; without an error every one of them is a sketch.
LEMMA FoundGood ==
    ASSUME Good(store), NEW sources \in SourceList
    PROVE  /\ SourcesFound(sources) \in FoundAccs
           /\ SourcesFound(sources).error = ""
                => \A n \in 1 .. Len(sources) : CMSError(sources[n].key) = ""
<1> DEFINE N == Len(sources)
           b == [error |-> "", store |-> store]
           f == [n \in 1 .. N |-> [acc \in FoundAccs |-> Found(acc, sources[n].key)]]
           Is(g) == g = [n \in 0 .. N |-> IF n = 0 THEN b ELSE Found(g[n - 1], sources[n].key)]
<1>1. N \in Nat /\ \A n \in 1 .. N : sources[n].key \in Keys
  BY SourceListParts
<1>2. b \in FoundAccs
  BY GoodParts DEF FoundAccs, Refreshed
<1>3. f \in [1 .. N -> [FoundAccs -> FoundAccs]]
  BY <1>1, FoundStep
<1>4. SourcesFound(sources) = (CHOOSE g : Is(g))[N]
  BY DEF SourcesFound
<1> HIDE DEF f, N, b
<1>5. PICK g : Rounds(g, N, FoundAccs, b, f)
  BY <1>1, <1>2, <1>3, Recursion
<1>6. Is(g)
  <2>1. ASSUME NEW n \in 0 .. N, n # 0 PROVE f[n][g[n - 1]] = Found(g[n - 1], sources[n].key)
    <3>1. n \in 1 .. N /\ n - 1 \in 0 .. N
      BY <1>1, <2>1, SMT
    <3>2. g[n - 1] \in FoundAccs
      BY <1>5, <3>1 DEF Rounds
    <3> QED  BY <3>1, <3>2 DEF f
  <2>2. g = [n \in 0 .. N |-> IF n = 0 THEN b ELSE f[n][g[n - 1]]]
    BY <1>5 DEF Rounds
  <2> QED  BY <2>1, <2>2
<1>7. PICK h : Is(h) /\ SourcesFound(sources) = h[N]
  <2>1. Is(CHOOSE h : Is(h))
    BY <1>6
  <2> QED  BY <1>4, <2>1
<1> DEFINE S == {n \in 0 .. N : /\ h[n] \in FoundAccs
                                /\ h[n].error = "" => \A m \in 1 .. n :
                                                        CMSError(sources[m].key) = ""}
<1>8. 0 \in S
  <2>1. 0 \in 0 .. N /\ h[0] = b /\ 1 .. 0 = {}
    BY <1>1, <1>7, SMT
  <2> QED  BY <1>2, <2>1
<1>9. ASSUME NEW n \in 1 .. N, n - 1 \in S PROVE n \in S
  <2>1. n \in 0 .. N /\ n # 0 /\ \A m \in 1 .. n : m = n \/ m \in 1 .. n - 1
    BY <1>1, SMT
  <2>2. h[n] = Found(h[n - 1], sources[n].key) /\ sources[n].key \in Keys
    BY <1>1, <1>7, <2>1
  <2>3. /\ h[n - 1] \in FoundAccs
        /\ h[n - 1].error = "" => \A m \in 1 .. n - 1 : CMSError(sources[m].key) = ""
    BY <1>9
  <2>4. h[n] \in FoundAccs
        /\ (h[n].error = "" => h[n - 1].error = "" /\ CMSError(sources[n].key) = "")
    BY <2>2, <2>3, FoundStep
  <2> QED  BY <2>1, <2>3, <2>4
<1> HIDE DEF S
<1>10. \A n \in 0 .. N : n \in S
  BY <1>1, <1>8, <1>9, CountUp
<1>11. N \in 0 .. N
  BY <1>1, SMT
<1>12. /\ h[N] \in FoundAccs
       /\ h[N].error = "" => \A m \in 1 .. N : CMSError(sources[m].key) = ""
  BY <1>10, <1>11 DEF S
<1> QED  BY <1>7, <1>12 DEF N

MergedAccs(d) == [error : {"", "incompatible", "overflow"}, sketch : SketchOf(d)]

\* r is what one more source makes of acc.
AddedTo(r, acc, u, w, d) ==
    /\ r \in MergedAccs(d)
    /\ r.error = "" => /\ acc.error = "" /\ u \in SketchOf(d)
                       /\ ~ MergeOverflows(acc.sketch, u, w)
                       /\ r.sketch = AddWeighted(acc.sketch, u, w)

LEMMA AddedStep ==
    ASSUME NEW d \in Dims, NEW acc \in MergedAccs(d), NEW e \in Dims, NEW u \in SketchOf(e),
           NEW w \in Word \ {0}
    PROVE  AddedTo(Added(acc, u, w), acc, u, w, d)
<1>1. /\ acc.error \in {"", "incompatible", "overflow"} /\ acc.sketch \in SketchOf(d)
      /\ acc = [error |-> acc.error, sketch |-> acc.sketch]
  BY DEF MergedAccs
<1>2. CASE acc.error # ""
  BY <1>1, <1>2 DEF Added, AddedTo
<1>3. CASE acc.error = "" /\ ~ SameShape(u, acc.sketch)
  <2>1. Added(acc, u, w) = [error |-> "incompatible", sketch |-> acc.sketch]
    BY <1>1, <1>3 DEF Added
  <2>2. PICK r, t : r = Added(acc, u, w) /\ t = acc.sketch
    OBVIOUS
  <2>3. r = [error |-> "incompatible", sketch |-> t] /\ t \in SketchOf(d)
    BY <1>1, <2>1, <2>2
  <2>4. AddedTo(r, acc, u, w, d)
    BY <2>3 DEF MergedAccs, AddedTo
  <2> QED  BY <2>2, <2>4
<1>4. CASE acc.error = "" /\ SameShape(u, acc.sketch) /\ MergeOverflows(acc.sketch, u, w)
  <2>1. Added(acc, u, w) = [error |-> "overflow", sketch |-> acc.sketch]
    BY <1>1, <1>4 DEF Added
  <2>2. PICK r, t : r = Added(acc, u, w) /\ t = acc.sketch
    OBVIOUS
  <2>3. r = [error |-> "overflow", sketch |-> t] /\ t \in SketchOf(d)
    BY <1>1, <2>1, <2>2
  <2>4. AddedTo(r, acc, u, w, d)
    BY <2>3 DEF MergedAccs, AddedTo
  <2> QED  BY <2>2, <2>4
<1>5. CASE acc.error = "" /\ SameShape(u, acc.sketch) /\ ~ MergeOverflows(acc.sketch, u, w)
  <2>1. Added(acc, u, w) = [error |-> "", sketch |-> AddWeighted(acc.sketch, u, w)]
    BY <1>1, <1>5 DEF Added
  <2>2. u \in SketchOf(d)
    <3>1. d.width = e.width /\ d.depth = e.depth
      BY <1>1, <1>5, SketchParts DEF SameShape
    <3>2. SketchOf(d) = SketchOf(e)
      BY <3>1 DEF SketchOf
    <3> QED  BY <3>2
  <2>3. AddWeighted(acc.sketch, u, w) \in SketchOf(d)
    BY <1>1, <2>2, AddParts
  <2>4. PICK r, t : r = Added(acc, u, w) /\ t = AddWeighted(acc.sketch, u, w)
    OBVIOUS
  <2>5. r = [error |-> "", sketch |-> t] /\ t \in SketchOf(d)
    BY <2>1, <2>3, <2>4
  <2>6. r \in MergedAccs(d) /\ r.sketch = t
    BY <2>5 DEF MergedAccs
  <2>7. AddedTo(r, acc, u, w, d)
    BY <1>5, <2>2, <2>4, <2>6 DEF AddedTo
  <2> QED  BY <2>4, <2>7
<1> QED  BY <1>2, <1>3, <1>4, <1>5

\* The loops of Merged and of its history.
MergedBy(h, sources) ==
    h = [n \in 0 .. Len(sources) |->
            IF n = 0 THEN [error |-> "", sketch |->
                              NewCountMinSketch(store.data[sources[1].key].sketch.width,
                                                store.data[sources[1].key].sketch.depth)]
            ELSE Added(h[n - 1], store.data[sources[n].key].sketch, sources[n].weight)]
TotalBy(e, sources) ==
    e = [n \in 0 .. Len(sources) |->
            IF n = 0 THEN Nothing
            ELSE [i \in Items |-> e[n - 1][i] + sources[n].weight * counted[sources[n].key][i]]]

LEMMA TotalRounds ==
    ASSUME NEW sources \in SourceList, counted \in [Keys -> [Items -> Nat]]
    PROVE  \E e : TotalBy(e, sources) /\ MergedCount(sources) = e[Len(sources)]
<1> DEFINE N == Len(sources)
           T == [Items -> Nat]
           Sum(c, n) == [i \in Items |-> c[i] + sources[n].weight * counted[sources[n].key][i]]
           f == [n \in 1 .. N |-> [c \in T |-> Sum(c, n)]]
           Is(e) == e = [n \in 0 .. N |-> IF n = 0 THEN Nothing ELSE
                            [i \in Items |-> e[n - 1][i] + sources[n].weight
                                                             * counted[sources[n].key][i]]]
<1>1. N \in Nat
  BY SourceListParts
<1>2. f \in [1 .. N -> [T -> T]]
  <2> SUFFICES ASSUME NEW n \in 1 .. N, NEW c \in T, NEW i \in Items
               PROVE  c[i] + sources[n].weight * counted[sources[n].key][i] \in Nat
    OBVIOUS
  <2> DEFINE p == sources[n].weight
             q == counted[sources[n].key][i]
  <2>1. c[i] \in Nat /\ p \in Nat /\ q \in Nat
    BY SourceListParts
  <2> HIDE DEF p, q
  <2>2. p * q \in Nat
    BY <2>1, SMT
  <2> DEFINE r == p * q
  <2>3. r \in Nat
    BY <2>2
  <2> HIDE DEF r
  <2>4. c[i] + r \in Nat
    BY <2>1, <2>3, SMT
  <2> QED  BY <2>4 DEF p, q, r
<1>3. Nothing \in T
  BY DEF Nothing
<1>4. MergedCount(sources) = (CHOOSE e : Is(e))[N]
  BY DEF MergedCount
<1> HIDE DEF f, N, T
<1>5. PICK g : Rounds(g, N, T, Nothing, f)
  BY <1>1, <1>2, <1>3, Recursion
<1>6. Is(g)
  <2>1. ASSUME NEW n \in 0 .. N, n # 0 PROVE f[n][g[n - 1]] = Sum(g[n - 1], n)
    <3>1. n \in 1 .. N /\ n - 1 \in 0 .. N
      BY <1>1, <2>1, SMT
    <3>2. g[n - 1] \in T
      BY <1>5, <3>1 DEF Rounds
    <3> QED  BY <3>1, <3>2 DEF f
  <2>2. g = [n \in 0 .. N |-> IF n = 0 THEN Nothing ELSE f[n][g[n - 1]]]
    BY <1>5 DEF Rounds
  <2> QED  BY <2>1, <2>2
<1>7. Is(CHOOSE e : Is(e))
  BY <1>6
<1> QED  BY <1>4, <1>7 DEF TotalBy, N

LEMMA MergedRounds ==
    ASSUME Good(store), NEW sources \in SourceList, NEW d \in Dims,
           \A n \in 1 .. Len(sources) : \E e \in Dims : HasSketch(sources[n].key, e),
           store.data[sources[1].key].sketch.width = d.width,
           store.data[sources[1].key].sketch.depth = d.depth
    PROVE  \E h : MergedBy(h, sources) /\ Merged(sources) = h[Len(sources)]
<1> DEFINE N == Len(sources)
           T == MergedAccs(d)
           u(n) == store.data[sources[n].key].sketch
           b == [error |-> "", sketch |-> NewCountMinSketch(u(1).width, u(1).depth)]
           f == [n \in 1 .. N |-> [acc \in T |-> Added(acc, u(n), sources[n].weight)]]
           Is(h) == h = [n \in 0 .. N |-> IF n = 0 THEN b
                                          ELSE Added(h[n - 1], u(n), sources[n].weight)]
<1>1. N \in Nat
  BY SourceListParts
<1>2. b \in T
  <2>1. NewCountMinSketch(u(1).width, u(1).depth) \in SketchOf(d)
    <3>1. NewCountMinSketch(d.width, d.depth) \in SketchOf(d)
      BY NewSketch
    <3> QED  BY <3>1
  <2> QED  BY <2>1 DEF MergedAccs
<1>3. f \in [1 .. N -> [T -> T]]
  <2> SUFFICES ASSUME NEW n \in 1 .. N, NEW acc \in T
               PROVE  Added(acc, u(n), sources[n].weight) \in T
    OBVIOUS
  <2>1. PICK e \in Dims : HasSketch(sources[n].key, e)
    OBVIOUS
  <2>2. u(n) \in SketchOf(e) /\ sources[n].weight \in Word \ {0}
    BY <2>1, SourceListParts DEF HasSketch, CMSRecordOf
  <2> QED  BY <2>2, AddedStep DEF AddedTo
<1>4. Merged(sources) = (CHOOSE h : Is(h))[N]
  BY DEF Merged
<1> HIDE DEF f, N, T, b
<1>5. PICK g : Rounds(g, N, T, b, f)
  BY <1>1, <1>2, <1>3, Recursion
<1>6. Is(g)
  <2>1. ASSUME NEW n \in 0 .. N, n # 0
        PROVE  f[n][g[n - 1]] = Added(g[n - 1], u(n), sources[n].weight)
    <3>1. n \in 1 .. N /\ n - 1 \in 0 .. N
      BY <1>1, <2>1, SMT
    <3>2. g[n - 1] \in T
      BY <1>5, <3>1 DEF Rounds
    <3> QED  BY <3>1, <3>2 DEF f
  <2>2. g = [n \in 0 .. N |-> IF n = 0 THEN b ELSE f[n][g[n - 1]]]
    BY <1>5 DEF Rounds
  <2> QED  BY <2>1, <2>2
<1>7. Is(CHOOSE h : Is(h))
  BY <1>6
<1> QED  BY <1>4, <1>7 DEF MergedBy, N, b

\* The first loop found no error; the sketches of the store are as they should.
AllSketches(sources) == \A n \in 1 .. Len(sources) : CMSError(sources[n].key) = ""
SketchesKept == \A k \in Keys, d \in Dims :
                     HasSketch(k, d) => Kept(store.data[k].sketch, counted[k])

\* Without an error the merged sketch has at least the weighted sum of the true
\* counts of its sources.
LEMMA MergedGood ==
    ASSUME Good(store), NEW sources \in SourceList, Len(sources) > 0,
           counted \in [Keys -> [Items -> Nat]],
           AllSketches(sources), SketchesKept
    PROVE  /\ MergedCount(sources) \in [Items -> Nat]
           /\ Merged(sources).error = ""
                => \E d \in Dims : /\ Merged(sources).sketch \in SketchOf(d)
                                   /\ Kept(Merged(sources).sketch, MergedCount(sources))
<1> DEFINE N == Len(sources)
           u(n) == store.data[sources[n].key].sketch
<1>1. /\ N \in Nat /\ 1 \in 1 .. N /\ N \in 0 .. N
      /\ \A n \in 1 .. N : sources[n].key \in Keys /\ sources[n].weight \in Word \ {0}
                           /\ sources[n].weight \in Nat
  <2>1. N \in Nat /\ N > 0
    BY SourceListParts
  <2> HIDE DEF N
  <2>2. 1 \in 1 .. N /\ N \in 0 .. N
    BY <2>1, SMT
  <2> QED  BY <2>1, <2>2, SourceListParts DEF N
<1>2. \A n \in 1 .. N : \E e \in Dims : HasSketch(sources[n].key, e)
  BY <1>1, ErrorFree DEF AllSketches
<1>3. PICK d \in Dims : HasSketch(sources[1].key, d)
  BY <1>1, <1>2
<1>4. u(1).width = d.width /\ u(1).depth = d.depth
  BY <1>3 DEF HasSketch, CMSRecordOf, SketchOf
<1>5. PICK h : MergedBy(h, sources) /\ Merged(sources) = h[N]
  BY <1>2, <1>4, MergedRounds
<1>6. PICK e : TotalBy(e, sources) /\ MergedCount(sources) = e[N]
  BY TotalRounds
<1>7. /\ 0 \in 0 .. N => /\ h[0] = [error |-> "", sketch |-> NewCountMinSketch(d.width, d.depth)]
                         /\ e[0] = Nothing
      /\ \A n \in 0 .. N : n # 0 =>
            /\ h[n] = Added(h[n - 1], u(n), sources[n].weight)
            /\ e[n] = [i \in Items |-> e[n - 1][i] + sources[n].weight * counted[sources[n].key][i]]
  BY <1>4, <1>5, <1>6 DEF MergedBy, TotalBy
<1> HIDE DEF N
<1> DEFINE S == {n \in 0 .. N : /\ h[n] \in MergedAccs(d) /\ e[n] \in [Items -> Nat]
                                /\ h[n].error = "" => Kept(h[n].sketch, e[n])}
<1>8. 0 \in S
  <2>1. 0 \in 0 .. N
    BY <1>1, SMT
  <2>2. PICK t : t = NewCountMinSketch(d.width, d.depth)
    OBVIOUS
  <2>3. t \in SketchOf(d) /\ Kept(t, Nothing)
    BY <2>2, NewSketch, NewKept
  <2>4. PICK r : r = h[0]
    OBVIOUS
  <2>5. r = [error |-> "", sketch |-> t] /\ e[0] = Nothing
    BY <1>7, <2>1, <2>2, <2>4
  <2>6. r \in MergedAccs(d) /\ r.sketch = t
    BY <2>3, <2>5 DEF MergedAccs
  <2>7. e[0] \in [Items -> Nat]
    <3>1. Nothing \in [Items -> Nat]
      BY DEF Nothing
    <3> QED  BY <2>5, <3>1
  <2> QED  BY <2>1, <2>3, <2>4, <2>5, <2>6, <2>7
<1>9. ASSUME NEW n \in 1 .. N, n - 1 \in S PROVE n \in S
  <2>1. n \in 0 .. N /\ n # 0
    BY <1>1, SMT
  <2> DEFINE k == sources[n].key
             w == sources[n].weight
             c == e[n - 1]
  <2>2. k \in Keys /\ w \in Word \ {0} /\ w \in Nat
    BY <1>1
  <2>3. PICK g \in Dims : HasSketch(k, g)
    BY <1>2
  <2>4. u(n) \in SketchOf(g) /\ Kept(u(n), counted[k]) /\ counted[k] \in [Items -> Nat]
    BY <2>2, <2>3 DEF HasSketch, CMSRecordOf, SketchesKept
  <2>5. /\ h[n - 1] \in MergedAccs(d) /\ c \in [Items -> Nat]
        /\ h[n - 1].error = "" => Kept(h[n - 1].sketch, c)
    BY <1>9
  <2>6. h[n] = Added(h[n - 1], u(n), w)
    BY <1>7, <2>1
  <2>7. e[n] = [i \in Items |-> c[i] + w * counted[k][i]]
    BY <1>7, <2>1
  <2>8. /\ h[n] \in MergedAccs(d)
        /\ h[n].error = "" => /\ h[n - 1].error = "" /\ u(n) \in SketchOf(d)
                              /\ ~ MergeOverflows(h[n - 1].sketch, u(n), w)
                              /\ h[n].sketch = AddWeighted(h[n - 1].sketch, u(n), w)
    <3> DEFINE a == h[n - 1]
               v == u(n)
    <3> HIDE DEF a, v, w
    <3>1. a \in MergedAccs(d) /\ v \in SketchOf(g) /\ w \in Word \ {0}
      BY <2>2, <2>4, <2>5 DEF a, v
    <3>2. AddedTo(Added(a, v, w), a, v, w, d)
      BY <3>1, AddedStep
    <3>3. h[n] = Added(a, v, w)
      BY <2>6 DEF a, v
    <3>4. AddedTo(h[n], a, v, w, d)
      BY <3>2, <3>3
    <3> QED  BY <3>4 DEF a, v, AddedTo
  <2>9. e[n] \in [Items -> Nat]
    <3> SUFFICES ASSUME NEW i \in Items PROVE c[i] + w * counted[k][i] \in Nat
      BY <2>7
    <3> DEFINE q == counted[k][i]
               r == w * q
    <3>1. c[i] \in Nat /\ q \in Nat
      BY <2>4, <2>5
    <3>2. w \in Nat
      BY <2>2
    <3> HIDE DEF q, w
    <3>3. r \in Nat
      BY <3>1, <3>2, SMT
    <3> DEFINE o == c[i]
    <3> HIDE DEF r, o
    <3>4. o \in Nat
      BY <3>1 DEF o
    <3>5. o + r \in Nat
      BY <3>3, <3>4, SMT
    <3> QED  BY <3>5 DEF q, r, o
  <2>10. ASSUME h[n].error = "" PROVE Kept(h[n].sketch, e[n])
    <3>1. h[n - 1].sketch \in SketchOf(d) /\ Kept(h[n - 1].sketch, c)
      BY <2>5, <2>8, <2>10 DEF MergedAccs
    <3> DEFINE a == h[n - 1].sketch
               v == u(n)
               f == counted[k]
    <3>2. /\ a \in SketchOf(d) /\ v \in SketchOf(d) /\ w \in Word \ {0} /\ ~ MergeOverflows(a, v, w)
          /\ c \in [Items -> Nat] /\ Kept(a, c) /\ f \in [Items -> Nat] /\ Kept(v, f)
      BY <2>2, <2>4, <2>5, <2>8, <2>10, <3>1
    <3>5. [i \in Items |-> c[i] + w * f[i]] \in [Items -> Nat]
      BY <2>7, <2>9
    <3> HIDE DEF a, v, f, w, c
    <3>3. Kept(AddWeighted(a, v, w), [i \in Items |-> c[i] + w * f[i]])
      BY <3>2, <3>5, AddKept, ZenonT(40)
    <3>4. Kept(AddWeighted(h[n - 1].sketch, u(n), w), [i \in Items |-> c[i] + w * counted[k][i]])
      BY <3>3 DEF a, v, f
    <3> QED  BY <2>7, <2>8, <2>10, <3>4
  <2> QED  BY <2>1, <2>8, <2>9, <2>10
<1> HIDE DEF S
<1>10. \A n \in 0 .. N : n \in S
  BY <1>1, <1>8, <1>9, CountUp
<1>11. /\ h[N] \in MergedAccs(d) /\ e[N] \in [Items -> Nat]
       /\ h[N].error = "" => Kept(h[N].sketch, e[N])
  BY <1>1, <1>10 DEF S
<1>12. h[N].sketch \in SketchOf(d)
  BY <1>11 DEF MergedAccs
<1> QED  BY <1>5, <1>6, <1>11, <1>12

-----------------------------------------------------------------------------
(* The invariant                                                             *)

Within(s) == s.policy.name # "none" => ~ overCapacity(s)

\* What a record promises, given the history of its key.
RecordOK(r, S, c) ==
    /\ r # Absent /\ r.type = "zset"  => DOMAIN r.scores # {}
    /\ r # Absent /\ r.type = "bloom" => \A i \in S : exists(r.filter, i)
    /\ r # Absent /\ r.type = "cms"   => Kept(r.sketch, c)

IInv == /\ Good(store) /\ Within(store)
        /\ counted \in [Keys -> [Items -> Nat]] /\ members \in [Keys -> SUBSET Items]
        /\ \A k \in Keys : RecordOK(store.data[k], members[k], counted[k])

\* A step that keeps the history of the other keys.
OnlyAt(k) == /\ counted' \in [Keys -> [Items -> Nat]] /\ members' \in [Keys -> SUBSET Items]
             /\ \A x \in Keys \ {k} : counted'[x] = counted[x] /\ members'[x] = members[x]

LEMMA SameOnlyAt == ASSUME IInv, SameHistory, NEW k \in Keys PROVE OnlyAt(k)
BY DEF IInv, SameHistory, OnlyAt

LEMMA CountsOnlyAt ==
    ASSUME IInv, NEW k \in Keys, NEW c \in [Items -> Nat], Counts(k, c)
    PROVE  OnlyAt(k) /\ counted'[k] = c /\ members' = members
BY DEF IInv, Counts, OnlyAt

LEMMA HoldsOnlyAt ==
    ASSUME IInv, NEW k \in Keys, NEW S \in SUBSET Items, Holds(k, S)
    PROVE  OnlyAt(k) /\ members'[k] = S /\ counted' = counted
BY DEF IInv, Holds, OnlyAt

LEMMA IdleKeeps == ASSUME IInv, UNCHANGED store, SameHistory PROVE IInv'
BY DEF IInv, SameHistory, Good, Within, Stores, RecordMap, Present, RecordOK

\* A step that ends with what the record of one key becomes, no larger than it was.
LEMMA ChangeKeeps ==
    ASSUME IInv, NEW k \in Keys, NEW r \in Rec \union {Absent}, Becomes(store', store, k, r),
           r # Absent => /\ store.data[k] # Absent
                         /\ recordSize(k, r) <= recordSize(k, store.data[k]),
           OnlyAt(k), RecordOK(r, members'[k], counted'[k])
    PROVE  IInv'
<1>1. Good(store) /\ Good(store') /\ store'.policy.name = store.policy.name
      /\ store.data \in RecordMap /\ store'.data = [store.data EXCEPT ![k] = r]
  BY GoodParts DEF Becomes, IInv
<1>2. store'.data[k] = r /\ \A x \in Keys \ {k} : store'.data[x] = store.data[x]
  BY <1>1 DEF RecordMap
<1>3. Lighter(store', store)
  <2>1. ASSUME NEW x \in Keys, x # k, store.data[x] # Absent
        PROVE  recordSize(x, store.data[x]) <= recordSize(x, store.data[x])
    BY <1>1, <2>1, GoodParts, NoLarger
  <2> QED  BY <1>2, <2>1 DEF Lighter
<1>4. Within(store')
  BY <1>1, <1>3, LighterFits DEF IInv, Within
<1>5. \A x \in Keys : RecordOK(store'.data[x], members'[x], counted'[x])
  BY <1>2 DEF IInv, OnlyAt
<1> QED  BY <1>1, <1>4, <1>5 DEF IInv, OnlyAt, Good, Within, Stores, RecordMap, Present, RecordOK

\* A write, and what it evicts.
LEMMA WriteKeeps ==
    ASSUME IInv, NEW k \in Keys, NEW r \in Rec, NEW s, Becomes(s, store, k, r),
           store' \in Evicted(s), OnlyAt(k), RecordOK(r, members'[k], counted'[k])
    PROVE  IInv'
<1>1. Good(store') /\ Less(store', s) /\ Within(store')
  <2>1. Good(s)
    BY DEF Becomes
  <2> QED  BY <2>1, EvictedGood DEF Within
<1>2. store.data \in RecordMap /\ s.data = [store.data EXCEPT ![k] = r]
  BY GoodParts DEF Becomes, IInv
<1>3. s.data[k] = r /\ \A x \in Keys \ {k} : s.data[x] = store.data[x]
  BY <1>2 DEF RecordMap
<1>4. \A x \in Keys : RecordOK(s.data[x], members'[x], counted'[x])
  BY <1>3 DEF IInv, OnlyAt
<1>5. \A x \in Keys : RecordOK(store'.data[x], members'[x], counted'[x])
  BY <1>1, <1>4 DEF Less, RecordOK
<1> QED  BY <1>1, <1>5 DEF IInv, OnlyAt, Good, Within, Stores, RecordMap, Present, RecordOK

LEMMA FreshFilter ==
    ASSUME NEW size \in Sizes \union {DefaultSize}
    PROVE  NewBloomFilter(size.bits, size.hashes) \in FilterSet
<1>1. size.bits \in Nat \ {0} /\ size.hashes \in 1 .. MaxRow + 1
  BY ContainersAssumption
<1> DEFINE b == size.bits
<1> HIDE DEF b
<1>2. (b + 63) \div 64 \in Nat
  BY <1>1, SMT DEF b
<1> QED  BY <1>1, <1>2 DEF NewBloomFilter, FilterSet, b

-----------------------------------------------------------------------------
(* Every action keeps it                                                     *)

\* What the invariant says of a key.
LEMMA KeyParts ==
    ASSUME IInv, NEW k \in Keys
    PROVE  /\ Good(store) /\ store.data[k] \in Rec \union {Absent}
           /\ RecordOK(store.data[k], members[k], counted[k])
           /\ counted[k] \in [Items -> Nat] /\ members[k] \in SUBSET Items
           /\ SketchesKept
<1>1. Good(store) /\ \A x \in Keys : store.data[x] \in Rec \union {Absent}
  BY GoodParts DEF IInv
<1>2. SketchesKept
  <2> SUFFICES ASSUME NEW x \in Keys, NEW d \in Dims, HasSketch(x, d)
               PROVE  Kept(store.data[x].sketch, counted[x])
    BY DEF SketchesKept
  <2>1. store.data[x] # Absent /\ store.data[x].type = "cms"
    BY ContainersAssumption DEF HasSketch, CMSRecordOf
  <2> QED  BY <2>1 DEF IInv, RecordOK
<1> QED  BY <1>1, <1>2 DEF IInv

\* A new sketch, a new filter and a new sorted set are records with no more than
\* their history.
LEMMA NewRecords ==
    /\ \A d \in Dims : \A S, c : c = Nothing =>
         LET r == CMSRecord(NewCountMinSketch(d.width, d.depth)) IN r \in Rec /\ RecordOK(r, S, c)
    /\ \A size \in Sizes \union {DefaultSize} : \A c :
         LET r == BloomRecord(NewBloomFilter(size.bits, size.hashes)) IN
         r \in Rec /\ RecordOK(r, {}, c)
    /\ \A given \in ScoreLists : \A S, c : ZSetRecord(given) \in Rec /\ RecordOK(ZSetRecord(given), S, c)
<1>1. ASSUME NEW d \in Dims, NEW S
      PROVE  LET r == CMSRecord(NewCountMinSketch(d.width, d.depth)) IN
             r \in Rec /\ RecordOK(r, S, Nothing)
  <2>1. PICK t : t = NewCountMinSketch(d.width, d.depth)
    OBVIOUS
  <2>2. t \in SketchOf(d) /\ Kept(t, Nothing)
    BY <2>1, NewSketch, NewKept
  <2>3. CMSRecord(t) \in CMSRecordOf(d) /\ CMSRecord(t).type = "cms" /\ CMSRecord(t).sketch = t
    BY <2>2 DEF CMSRecord, CMSRecordOf
  <2>4. CMSRecord(t) \in Rec /\ RecordOK(CMSRecord(t), S, Nothing)
    BY <2>2, <2>3 DEF Rec, CMSRecords, RecordOK
  <2> QED  BY <2>1, <2>4
<1>2. ASSUME NEW size \in Sizes \union {DefaultSize}, NEW c
      PROVE  LET r == BloomRecord(NewBloomFilter(size.bits, size.hashes)) IN
             r \in Rec /\ RecordOK(r, {}, c)
  <2>1. PICK f : f = NewBloomFilter(size.bits, size.hashes)
    OBVIOUS
  <2>2. f \in FilterSet
    BY <2>1, FreshFilter
  <2>3. BloomRecord(f) \in BloomRecords /\ BloomRecord(f).type = "bloom"
    BY <2>2 DEF BloomRecord, BloomRecords
  <2>4. BloomRecord(f) \in Rec /\ RecordOK(BloomRecord(f), {}, c)
    BY <2>3 DEF Rec, RecordOK
  <2> QED  BY <2>1, <2>4
<1>3. ASSUME NEW given \in ScoreLists, NEW S, NEW c
      PROVE  ZSetRecord(given) \in Rec /\ RecordOK(ZSetRecord(given), S, c)
  <2>1. DOMAIN given \in (SUBSET Members) \ {{}} /\ given \in [DOMAIN given -> Int]
    BY ContainersAssumption
  <2>2. /\ ZSetRecord(given) \in ZSetRecordOf(DOMAIN given)
        /\ ZSetRecord(given).type = "zset" /\ ZSetRecord(given).scores = given
    BY <2>1 DEF ZSetRecord, ZSetRecordOf
  <2> QED  BY <2>1, <2>2 DEF Rec, ZSetRecords, RecordOK
<1> QED  BY <1>1, <1>2, <1>3

\* Refreshing the policy for a key that is there.
LEMMA AccessKeeps ==
    ASSUME IInv, NEW k \in Keys, store.data[k] # Absent,
           store' = notifyAccess(store, k), SameHistory
    PROVE  IInv'
<1>1. Becomes(store', store, k, store.data[k]) /\ store.data[k] \in Rec
  BY KeyParts, AccessGood
<1>2. recordSize(k, store.data[k]) <= recordSize(k, store.data[k])
  BY <1>1, NoLarger
<1>3. OnlyAt(k) /\ RecordOK(store.data[k], members'[k], counted'[k])
  BY KeyParts, SameOnlyAt DEF SameHistory
<1> QED  BY <1>1, <1>2, <1>3, ChangeKeeps

\* A change of a record that leaves its size, with or without a refresh.
LEMMA SameSizeKeeps ==
    ASSUME IInv, NEW k \in Keys, store.data[k] # Absent, NEW r \in Rec,
           recordSize(k, r) = recordSize(k, store.data[k]),
           NEW s, s \in {Put(store, k, r), notifyAccess(Put(store, k, r), k)}, store' = s,
           OnlyAt(k), RecordOK(r, members'[k], counted'[k])
    PROVE  IInv'
<1> DEFINE t == Put(store, k, r)
<1>1. Becomes(t, store, k, r)
  BY KeyParts, SamePut
<1>2. Good(t) /\ t.data[k] = r /\ r # Absent /\ t.data = [store.data EXCEPT ![k] = r]
  BY <1>1, KeyParts, GoodParts, RecParts DEF Becomes, RecordMap
<1> HIDE DEF t
<1>3. Becomes(notifyAccess(t, k), t, k, r) /\ notifyAccess(t, k).data = t.data
  BY <1>2, AccessGood
<1>4. Becomes(notifyAccess(t, k), store, k, r)
  BY <1>1, <1>2, <1>3 DEF Becomes
<1>5. Becomes(store', store, k, r)
  BY <1>1, <1>4 DEF t
<1>6. recordSize(k, r) <= recordSize(k, store.data[k])
  BY NoLarger
<1> QED  BY <1>5, <1>6, ChangeKeeps

LEMMA CMSInitKeeps == ASSUME IInv, NEW k \in Keys, CMSInit(k) PROVE IInv'
<1>1. CASE UNCHANGED store /\ SameHistory
  BY <1>1, IdleKeeps
<1>2. CASE \E d \in Dims : /\ store' \in Evicted(Insert(store, k,
                                  CMSRecord(NewCountMinSketch(d.width, d.depth))))
                           /\ Counts(k, Nothing)
  <2>1. PICK d \in Dims : /\ store' \in Evicted(Insert(store, k,
                                  CMSRecord(NewCountMinSketch(d.width, d.depth))))
                          /\ Counts(k, Nothing)
    BY <1>2
  <2>2. PICK r : r = CMSRecord(NewCountMinSketch(d.width, d.depth))
    OBVIOUS
  <2>3. Nothing \in [Items -> Nat]
    BY DEF Nothing
  <2>4. OnlyAt(k) /\ counted'[k] = Nothing
    BY <2>1, <2>3, CountsOnlyAt
  <2>5. r \in Rec /\ RecordOK(r, members'[k], counted'[k])
    BY <2>2, <2>4, NewRecords
  <2>6. Becomes(Insert(store, k, r), store, k, r)
    BY <2>5, KeyParts, InsertGood
  <2> QED  BY <2>1, <2>2, <2>4, <2>5, <2>6, WriteKeeps
<1> QED  BY <1>1, <1>2 DEF CMSInit

LEMMA CMSReadKeeps == ASSUME IInv, NEW k \in Keys, CMSRead(k) PROVE IInv'
<1>1. CASE CMSError(k) = ""
  BY <1>1, KeyParts, ErrorFree, AccessKeeps DEF CMSRead
<1>2. CASE CMSError(k) # ""
  BY <1>2, IdleKeeps DEF CMSRead
<1> QED  BY <1>1, <1>2

LEMMA CMSIncrByKeeps == ASSUME IInv, NEW k \in Keys, CMSIncrBy(k) PROVE IInv'
<1>1. CASE UNCHANGED store /\ SameHistory
  BY <1>1, IdleKeeps
<1>2. ASSUME NEW incs \in Increments, CMSError(k) = "", NEW a,
             a = Applied(store.data[k].sketch, incs),
             NEW r, r = [store.data[k] EXCEPT !.sketch = a.sketch],
             store' \in {Put(store, k, r), notifyAccess(Put(store, k, r), k)},
             Counts(k, TrueCount(counted[k], incs, a.n))
      PROVE  IInv'
  <2>1. store.data[k] # Absent /\ store.data[k].type = "cms"
    BY <1>2, KeyParts, ErrorFree
  <2>2. PICK d \in Dims : store.data[k] \in CMSRecordOf(d)
    BY <1>2, KeyParts, ErrorFree DEF HasSketch
  <2>3. store.data[k].sketch \in SketchOf(d) /\ Kept(store.data[k].sketch, counted[k])
        /\ counted[k] \in [Items -> Nat]
    BY <2>1, <2>2, KeyParts DEF CMSRecordOf, RecordOK
  <2>4. incs \in IncrList
    BY ContainersAssumption DEF IncrList
  <2> DEFINE c == TrueCount(counted[k], incs, a.n)
  <2>5. a.sketch \in SketchOf(d) /\ c \in [Items -> Nat] /\ Kept(a.sketch, c)
    BY <1>2, <2>3, <2>4, AppliedGood
  <2> HIDE DEF c
  <2>6. r \in CMSRecordOf(d) /\ r.type = "cms" /\ r.sketch = a.sketch
    BY <1>2, <2>2, <2>5 DEF CMSRecordOf
  <2>7. r \in Rec
    BY <2>6 DEF Rec, CMSRecords
  <2>8. recordSize(k, r) = recordSize(k, store.data[k])
    BY <2>1, <2>3, <2>5, <2>6 DEF recordSize, valueSize, SketchOf
  <2>9. OnlyAt(k) /\ counted'[k] = c
    BY <1>2, <2>5, CountsOnlyAt DEF c
  <2>10. RecordOK(r, members'[k], counted'[k])
    BY <2>5, <2>6, <2>9 DEF RecordOK
  <2> QED  BY <1>2, <2>1, <2>7, <2>8, <2>9, <2>10, SameSizeKeeps
<1> QED  BY <1>1, <1>2 DEF CMSIncrBy

\* The store with some keys refreshed.
LEMMA RefreshedKeeps == ASSUME IInv, store' \in Refreshed, SameHistory PROVE IInv'
<1>1. Good(store) /\ Good(store') /\ store'.data = store.data
      /\ store'.policy.name = store.policy.name
  BY DEF IInv, Refreshed
<1>2. Less(store', store)
  BY <1>1 DEF Less
<1>3. Within(store')
  BY <1>1, <1>2, LessIsLighter, LighterFits DEF IInv, Within
<1> QED  BY <1>1, <1>3
         DEF IInv, SameHistory, Good, Within, Stores, RecordMap, Present, RecordOK

LEMMA CMSMergeKeeps == ASSUME IInv, NEW k \in Keys, CMSMerge(k) PROVE IInv'
<1>1. PICK sources \in Sources :
        \/ store' = SourcesFound(sources).store /\ SameHistory
        \/ /\ SourcesFound(sources).error = "" /\ Merged(sources).error = ""
           /\ store' \in Evicted(Replace(SourcesFound(sources).store, k,
                                         CMSRecord(Merged(sources).sketch)))
           /\ Counts(k, MergedCount(sources))
  BY DEF CMSMerge
<1>2. sources \in SourceList /\ sources # <<>>
  BY ContainersAssumption DEF SourceList
<1>3. Len(sources) > 0
  <2>1. Len(sources) \in Nat /\ Len(sources) # 0
    BY <1>2 DEF SourceList
  <2> QED  BY <2>1, SMT
<1>4. PICK f, m, c : f = SourcesFound(sources) /\ m = Merged(sources) /\ c = MergedCount(sources)
  OBVIOUS
<1>5. f \in FoundAccs /\ (f.error = "" => AllSketches(sources))
  BY <1>2, <1>4, KeyParts, FoundGood DEF AllSketches
<1>6. f.store \in Refreshed
  BY <1>5 DEF FoundAccs
<1>7. CASE store' = f.store /\ SameHistory
  BY <1>6, <1>7, RefreshedKeeps
<1>8. ASSUME f.error = "", m.error = "", Counts(k, c),
             store' \in Evicted(Replace(f.store, k, CMSRecord(m.sketch)))
      PROVE  IInv'
  <2>1. /\ c \in [Items -> Nat]
        /\ \E d \in Dims : m.sketch \in SketchOf(d) /\ Kept(m.sketch, c)
    BY <1>2, <1>3, <1>4, <1>5, <1>8, KeyParts, MergedGood DEF IInv
  <2>2. PICK d \in Dims : m.sketch \in SketchOf(d) /\ Kept(m.sketch, c)
    BY <2>1
  <2>3. PICK r : r = CMSRecord(m.sketch)
    OBVIOUS
  <2>4. r \in CMSRecordOf(d) /\ r.type = "cms" /\ r.sketch = m.sketch
    BY <2>2, <2>3 DEF CMSRecord, CMSRecordOf
  <2>5. OnlyAt(k) /\ counted'[k] = c
    BY <1>8, <2>1, CountsOnlyAt
  <2>6. r \in Rec /\ RecordOK(r, members'[k], counted'[k])
    BY <2>2, <2>4, <2>5 DEF Rec, CMSRecords, RecordOK
  <2>7. Becomes(Replace(f.store, k, r), f.store, k, r)
    BY <1>6, <2>6, ReplaceGood DEF Refreshed
  <2>8. Becomes(Replace(f.store, k, r), store, k, r)
    BY <1>6, <2>7 DEF Refreshed, Becomes
  <2> QED  BY <1>8, <2>3, <2>5, <2>6, <2>8, WriteKeeps
<1> QED  BY <1>1, <1>4, <1>7, <1>8

LEMMA BFReserveKeeps == ASSUME IInv, NEW k \in Keys, BFReserve(k) PROVE IInv'
<1>1. CASE UNCHANGED store /\ SameHistory
  BY <1>1, IdleKeeps
<1>2. ASSUME NEW size \in Sizes, Holds(k, {}),
             store' \in Evicted(Insert(store, k,
                            BloomRecord(NewBloomFilter(size.bits, size.hashes))))
      PROVE  IInv'
  <2>1. PICK r : r = BloomRecord(NewBloomFilter(size.bits, size.hashes))
    OBVIOUS
  <2>2. OnlyAt(k) /\ members'[k] = {}
    BY <1>2, HoldsOnlyAt
  <2>3. r \in Rec /\ RecordOK(r, members'[k], counted'[k])
    BY <2>1, <2>2, NewRecords
  <2>4. Becomes(Insert(store, k, r), store, k, r)
    BY <2>3, KeyParts, InsertGood
  <2> QED  BY <1>2, <2>1, <2>2, <2>3, <2>4, WriteKeeps
<1> QED  BY <1>1, <1>2 DEF BFReserve

LEMMA BFReadKeeps == ASSUME IInv, NEW k \in Keys, BFRead(k) PROVE IInv'
<1>1. CASE store' = notifyAccess(store, k) /\ Live(store, k) /\ SameHistory
  BY <1>1, AccessKeeps DEF Live
<1>2. CASE UNCHANGED store /\ SameHistory
  BY <1>2, IdleKeeps
<1> QED  BY <1>1, <1>2 DEF BFRead

LEMMA ZReadKeeps == ASSUME IInv, NEW k \in Keys, ZRead(k) PROVE IInv'
<1>1. CASE store' = notifyAccess(store, k) /\ Live(store, k) /\ SameHistory
  BY <1>1, AccessKeeps DEF Live
<1>2. CASE UNCHANGED store /\ SameHistory
  BY <1>2, IdleKeeps
<1> QED  BY <1>1, <1>2 DEF ZRead

\* What is left of the map after a write under k and what it evicts.
LEMMA WriteLeaves ==
    ASSUME IInv, NEW k \in Keys, NEW r \in Rec, NEW t, Becomes(t, store, k, r), NEW u \in Evicted(t)
    PROVE  /\ Good(u) /\ Within(u) /\ u.data[k] \in {r, Absent}
           /\ \A x \in Keys \ {k} : u.data[x] \in {store.data[x], Absent}
<1>1. Good(t) /\ t.data[k] = r /\ \A x \in Keys \ {k} : t.data[x] = store.data[x]
  BY KeyParts, GoodParts DEF Becomes, RecordMap
<1>2. Good(u) /\ Less(u, t) /\ Within(u)
  BY <1>1, EvictedGood DEF Within
<1> QED  BY <1>1, <1>2 DEF Less

LEMMA LeftKeeps ==
    ASSUME IInv, NEW k \in Keys, Good(store'), Within(store'), OnlyAt(k),
           RecordOK(store'.data[k], members'[k], counted'[k]),
           \A x \in Keys \ {k} : store'.data[x] \in {store.data[x], Absent}
    PROVE  IInv'
<1>1. \A x \in Keys : RecordOK(store'.data[x], members'[x], counted'[x])
  BY DEF IInv, OnlyAt, RecordOK
<1> QED  BY <1>1 DEF IInv, OnlyAt, Good, Within, Stores, RecordMap, Present, RecordOK

LEMMA RangeItems == ASSUME NEW items \in Seq(Items) PROVE Range(items) \in SUBSET Items
BY SeqParts DEF Range

\* The record of a filter after items were added to it.
LEMMA FilledRecord ==
    ASSUME NEW k \in Keys, NEW r \in BloomRecords, NEW items \in Seq(Items), NEW S, NEW c,
           \A i \in S : exists(r.filter, i),
           NEW q, q = [r EXCEPT !.filter = AddAll(r.filter, items)]
    PROVE  /\ q \in Rec /\ recordSize(k, q) = recordSize(k, r)
           /\ RecordOK(q, S \union Range(items), c)
<1> DEFINE g == AddAll(r.filter, items)
<1>1. r.filter \in FilterSet /\ r.type = "bloom"
  BY DEF BloomRecords
<1>2. Grows(g, r.filter) /\ \A i \in Range(items) : exists(g, i)
  BY <1>1, AddAllGrows
<1>3. \A i \in S : exists(g, i)
  BY <1>2, GrowsKeeps
<1>4. g \in FilterSet /\ g.words = r.filter.words
  BY <1>2 DEF Grows
<1> HIDE DEF g
<1>5. q \in BloomRecords /\ q.type = "bloom" /\ q.filter = g
  BY <1>4 DEF BloomRecords, g
<1>6. recordSize(k, q) = recordSize(k, r)
  BY <1>1, <1>4, <1>5 DEF recordSize, valueSize
<1> QED  BY <1>2, <1>3, <1>5, <1>6 DEF Rec, RecordOK

\* Adding to a filter that is there.
LEMMA BFFillKeeps ==
    ASSUME IInv, NEW k \in Keys, Live(store, k), BFError(k) = "", NEW items \in Seq(Items),
           NEW t, t = notifyAccess(store, k),
           store' = Put(t, k, [t.data[k] EXCEPT !.filter = AddAll(store.data[k].filter, items)]),
           Holds(k, members[k] \union Range(items))
    PROVE  IInv'
<1>1. store.data[k] # Absent /\ store.data[k].type = "bloom"
  BY DEF Live, BFError, LookupError
<1>2. store.data[k] \in BloomRecords /\ store.data[k] \in Rec
  BY <1>1, KeyParts, RecParts
<1>3. Becomes(t, store, k, store.data[k]) /\ t.data = store.data /\ Good(t)
  BY <1>1, KeyParts, AccessGood DEF Becomes
<1>4. PICK q : q = [store.data[k] EXCEPT !.filter = AddAll(store.data[k].filter, items)]
  OBVIOUS
<1>5. \A i \in members[k] : exists(store.data[k].filter, i)
  BY <1>1, KeyParts DEF RecordOK
<1>6. /\ q \in Rec /\ recordSize(k, q) = recordSize(k, store.data[k])
      /\ RecordOK(q, members[k] \union Range(items), counted'[k])
  BY <1>2, <1>4, <1>5, FilledRecord
<1>7. Becomes(store', t, k, q)
  BY <1>1, <1>3, <1>4, <1>6, SamePut
<1>8. Becomes(store', store, k, q)
  BY <1>3, <1>7 DEF Becomes
<1>9. OnlyAt(k) /\ members'[k] = members[k] \union Range(items)
  <2>1. members[k] \union Range(items) \in SUBSET Items
    BY KeyParts, RangeItems
  <2> QED  BY <2>1, HoldsOnlyAt
<1>10. recordSize(k, q) <= recordSize(k, store.data[k])
  BY <1>6, NoLarger
<1> QED  BY <1>1, <1>6, <1>8, <1>9, <1>10, ChangeKeeps

\* Adding to a filter that was inserted for it, and may be gone by then.
LEMMA BFFreshKeeps ==
    ASSUME IInv, NEW k \in Keys, NEW items \in Seq(Items),
           NEW fresh, fresh = NewBloomFilter(DefaultSize.bits, DefaultSize.hashes),
           NEW u \in Evicted(Insert(store, k, BloomRecord(fresh))),
           store' = IF u.data[k] = Absent THEN u
                    ELSE Put(u, k, [u.data[k] EXCEPT !.filter = AddAll(fresh, items)]),
           Holds(k, Range(items))
    PROVE  IInv'
<1>1. PICK r : r = BloomRecord(fresh)
  OBVIOUS
<1>2. r \in Rec /\ r \in BloomRecords /\ r.filter = fresh
  <2>1. fresh \in FilterSet
    BY FreshFilter
  <2> QED  BY <1>1, <2>1 DEF BloomRecord, BloomRecords, Rec
<1>3. Becomes(Insert(store, k, r), store, k, r)
  BY <1>2, KeyParts, InsertGood
<1>4. /\ Good(u) /\ Within(u) /\ u.data[k] \in {r, Absent}
      /\ \A x \in Keys \ {k} : u.data[x] \in {store.data[x], Absent}
  BY <1>1, <1>2, <1>3, WriteLeaves
<1>5. OnlyAt(k) /\ members'[k] = Range(items)
  BY RangeItems, HoldsOnlyAt
<1>6. CASE u.data[k] = Absent
  <2>1. RecordOK(u.data[k], members'[k], counted'[k])
    BY <1>6 DEF RecordOK
  <2> QED  BY <1>4, <1>5, <1>6, <2>1, LeftKeeps
<1>7. CASE u.data[k] # Absent
  <2>1. u.data[k] = r
    BY <1>4, <1>7
  <2>2. PICK q : q = [r EXCEPT !.filter = AddAll(r.filter, items)]
    OBVIOUS
  <2>3. /\ q \in Rec /\ recordSize(k, q) = recordSize(k, r)
        /\ RecordOK(q, {} \union Range(items), counted'[k])
    <3>1. PICK S : S = {}
      OBVIOUS
    <3>2. \A i \in S : exists(r.filter, i)
      BY <3>1
    <3>3. RecordOK(q, S \union Range(items), counted'[k]) /\ q \in Rec
          /\ recordSize(k, q) = recordSize(k, r)
      BY <1>2, <2>2, <3>2, FilledRecord
    <3> QED  BY <3>1, <3>3
  <2>4. store' = Put(u, k, q)
    BY <1>2, <1>7, <2>1, <2>2
  <2>5. Becomes(store', u, k, q)
    BY <1>4, <1>7, <2>1, <2>3, <2>4, SamePut
  <2>6. /\ Good(store') /\ store'.data[k] = q /\ store'.policy.name = u.policy.name
        /\ \A x \in Keys \ {k} : store'.data[x] = u.data[x]
    BY <1>4, <2>5, GoodParts DEF Becomes, RecordMap
  <2>7. Lighter(store', u)
    <3>1. ASSUME NEW x \in Keys, u.data[x] # Absent
          PROVE  recordSize(x, u.data[x]) <= recordSize(x, u.data[x])
      BY <1>4, <3>1, GoodParts, NoLarger
    <3>2. recordSize(k, q) <= recordSize(k, u.data[k])
      BY <1>7, <2>1, <2>3, <3>1
    <3> QED  BY <1>7, <2>6, <3>1, <3>2 DEF Lighter
  <2>8. Within(store')
    BY <1>4, <2>6, <2>7, LighterFits DEF Within
  <2>9. RecordOK(store'.data[k], members'[k], counted'[k])
    <3>1. {} \union Range(items) = Range(items)
      OBVIOUS
    <3> QED  BY <1>5, <2>3, <2>6, <3>1
  <2> QED  BY <1>4, <1>5, <2>6, <2>8, <2>9, LeftKeeps
<1> QED  BY <1>6, <1>7

LEMMA BFMultiAddKeeps == ASSUME IInv, NEW k \in Keys, BFMultiAdd(k) PROVE IInv'
<1>1. PICK items \in ItemLists :
        \/ UNCHANGED store /\ SameHistory
        \/ /\ BFError(k) = "" /\ Live(store, k)
           /\ \E t : /\ t = notifyAccess(store, k)
                     /\ store' = IF t.data[k] = Absent THEN t
                                 ELSE Put(t, k, [t.data[k] EXCEPT !.filter =
                                                    AddAll(store.data[k].filter, items)])
           /\ Holds(k, members[k] \union Range(items))
        \/ \E fresh : /\ fresh = NewBloomFilter(DefaultSize.bits, DefaultSize.hashes)
                      /\ \E u \in Evicted(Insert(store, k, BloomRecord(fresh))) :
                            store' = IF u.data[k] = Absent THEN u
                                     ELSE Put(u, k, [u.data[k] EXCEPT !.filter =
                                                        AddAll(fresh, items)])
                      /\ Holds(k, Range(items))
  BY DEF BFMultiAdd
<1>2. items \in Seq(Items)
  BY ContainersAssumption
<1>3. CASE UNCHANGED store /\ SameHistory
  BY <1>3, IdleKeeps
<1>4. ASSUME BFError(k) = "", Live(store, k), NEW t, t = notifyAccess(store, k),
             store' = IF t.data[k] = Absent THEN t
                      ELSE Put(t, k, [t.data[k] EXCEPT !.filter =
                                         AddAll(store.data[k].filter, items)]),
             Holds(k, members[k] \union Range(items))
      PROVE  IInv'
  <2>1. store.data[k] # Absent
    BY <1>4 DEF Live
  <2>2. t.data = store.data
    BY <1>4, <2>1, KeyParts, AccessGood
  <2> QED  BY <1>2, <1>4, <2>1, <2>2, BFFillKeeps
<1> QED  BY <1>1, <1>2, <1>3, <1>4, BFFreshKeeps

\* A refresh after a change of the same key.
LEMMA ThenAccess ==
    ASSUME IInv, NEW k \in Keys, NEW r \in Rec, NEW t, Becomes(t, store, k, r)
    PROVE  Becomes(notifyAccess(t, k), store, k, r)
<1>1. Good(t) /\ t.data[k] = r /\ r # Absent
  BY KeyParts, GoodParts, RecParts DEF Becomes, RecordMap
<1>2. Becomes(notifyAccess(t, k), t, k, r) /\ notifyAccess(t, k).data = t.data
  BY <1>1, AccessGood
<1> QED  BY <1>2 DEF Becomes

\* A removal after a change of the same key.
LEMMA ThenRemove ==
    ASSUME IInv, NEW k \in Keys, NEW r \in Rec, NEW t, Becomes(t, store, k, r)
    PROVE  Becomes(Remove(t, k), store, k, Absent)
<1>1. Good(t) /\ t.data[k] = r /\ r # Absent /\ t.data = [store.data EXCEPT ![k] = r]
      /\ store.data \in RecordMap
  BY KeyParts, GoodParts, RecParts DEF Becomes, RecordMap
<1>2. Becomes(Remove(t, k), t, k, Absent)
  BY <1>1, RemovalGood
<1>3. [t.data EXCEPT ![k] = Absent] = [store.data EXCEPT ![k] = Absent]
  BY <1>1 DEF RecordMap
<1> QED  BY <1>2, <1>3 DEF Becomes

\* The record of a sorted set with other scores.
LEMMA ScoredRecord ==
    ASSUME NEW k \in Keys, NEW A \in SUBSET Members, NEW r \in ZSetRecordOf(A),
           NEW B \in SUBSET Members, NEW f \in [B -> Int],
           NEW q, q = [r EXCEPT !.scores = f], NEW S, NEW c
    PROVE  /\ DOMAIN r.scores = A /\ q \in Rec /\ q.scores = f
           /\ recordSize(k, q) - recordSize(k, r) = scoredSize(B) - scoredSize(A)
           /\ B # {} => RecordOK(q, S, c)
<1>1. DOMAIN r.scores = A /\ r.type = "zset"
  BY DEF ZSetRecordOf
<1>2. q \in ZSetRecordOf(B) /\ q.type = "zset" /\ q.scores = f /\ DOMAIN q.scores = B
  BY DEF ZSetRecordOf
<1>3. recordSize(k, q) = KeyLen[k] + scoredSize(B) /\ recordSize(k, r) = KeyLen[k] + scoredSize(A)
  BY <1>1, <1>2 DEF recordSize, valueSize
<1>4. KeyLen[k] \in Nat /\ scoredSize(A) \in Nat /\ scoredSize(B) \in Nat
  BY RecordsAssumption, ScoredSizeIsNat
<1>5. recordSize(k, q) - recordSize(k, r) = scoredSize(B) - scoredSize(A)
  <2> DEFINE l == KeyLen[k]
             a == scoredSize(A)
             b == scoredSize(B)
  <2>1. l \in Nat /\ a \in Nat /\ b \in Nat
    BY <1>4
  <2> HIDE DEF l, a, b
  <2>2. (l + b) - (l + a) = b - a
    BY <2>1, SMT
  <2> QED  BY <1>3, <2>2 DEF l, a, b
<1> QED  BY <1>1, <1>2, <1>5 DEF Rec, ZSetRecords, RecordOK

\* The sorted set under a key.
LEMMA ScoresThere ==
    ASSUME IInv, NEW k \in Keys, Live(store, k), ZError(k) = ""
    PROVE  /\ store.data[k] # Absent
           /\ \E A \in SUBSET Members : store.data[k] \in ZSetRecordOf(A)
<1>1. store.data[k] # Absent /\ store.data[k].type = "zset"
  BY DEF Live, ZError, LookupError
<1> QED  BY <1>1, KeyParts, RecParts

LEMMA ScoredMore ==
    ASSUME NEW A \in SUBSET Members, NEW B \in SUBSET Members
    PROVE  scoredSize(A \union B) - scoredSize(A) = scoredSize(B \ A)
<1>1. scoredSize(A) \in Nat /\ scoredSize(B \ A) \in Nat
  <2>1. B \ A \in SUBSET Members
    OBVIOUS
  <2> QED  BY <2>1, ScoredSizeIsNat
<1>2. scoredSize(A \union B) = scoredSize(A) + scoredSize(B \ A)
  BY ScoredSplit
<1> QED  BY <1>1, <1>2, SMT

LEMMA AddScoresGood ==
    ASSUME IInv, NEW k \in Keys, NEW A \in SUBSET Members, store.data[k] \in ZSetRecordOf(A),
           store.data[k] # Absent, NEW given \in ScoreLists, NEW S, NEW c
    PROVE  \E r \in Rec : Becomes(AddScores(store, k, given), store, k, r) /\ RecordOK(r, S, c)
<1> DEFINE B == DOMAIN given
           f == Rescored(store.data[k].scores, given)
           n == scoredSize(B \ A)
<1>1. B \in SUBSET Members /\ B # {} /\ given \in [B -> Int]
  BY ContainersAssumption
<1>2. store.data[k].scores \in [A -> Int] /\ DOMAIN store.data[k].scores = A
  BY DEF ZSetRecordOf
<1>3. PICK U : U = A \union B
  OBVIOUS
<1>4. f \in [U -> Int] /\ U \in SUBSET Members /\ U # {}
  BY <1>1, <1>2, <1>3 DEF Rescored
<1>5. PICK r : r = [store.data[k] EXCEPT !.scores = f]
  OBVIOUS
<1>6. AddScores(store, k, given) = Put(accountMemory(store, n), k, r)
  BY <1>2, <1>5 DEF AddScores
<1> HIDE DEF f
<1>7. /\ r \in Rec /\ RecordOK(r, S, c)
      /\ recordSize(k, r) - recordSize(k, store.data[k]) = scoredSize(U) - scoredSize(A)
  <2>1. PICK o, g : o = store.data[k] /\ g = f
    OBVIOUS
  <2>2. o \in ZSetRecordOf(A) /\ g \in [U -> Int] /\ r = [o EXCEPT !.scores = g]
    BY <1>4, <1>5, <2>1
  <2>3. /\ r \in Rec /\ (U # {} => RecordOK(r, S, c))
        /\ recordSize(k, r) - recordSize(k, o) = scoredSize(U) - scoredSize(A)
    BY <1>4, <2>2, ScoredRecord
  <2> QED  BY <1>4, <2>1, <2>3
<1>8. scoredSize(U) - scoredSize(A) = n
  BY <1>1, <1>3, ScoredMore
<1> HIDE DEF n
<1>9. Becomes(Put(accountMemory(store, n), k, r), store, k, r)
  BY <1>7, <1>8, KeyParts, ChargedGood
<1> QED  BY <1>6, <1>7, <1>9

LEMMA ZAddKeeps == ASSUME IInv, NEW k \in Keys, ZAdd(k) PROVE IInv'
<1>1. OnlyAt(k) /\ SameHistory
  BY SameOnlyAt DEF ZAdd
<1>2. CASE UNCHANGED store
  BY <1>1, <1>2, IdleKeeps
<1>3. ASSUME NEW given \in ScoreLists, store' \in Evicted(Insert(store, k, ZSetRecord(given)))
      PROVE  IInv'
  <2>1. ZSetRecord(given) \in Rec /\ RecordOK(ZSetRecord(given), members'[k], counted'[k])
    BY NewRecords
  <2>2. Becomes(Insert(store, k, ZSetRecord(given)), store, k, ZSetRecord(given))
    BY <2>1, KeyParts, InsertGood
  <2> QED  BY <1>1, <1>3, <2>1, <2>2, WriteKeeps
<1>4. ASSUME NEW given \in ScoreLists, ZError(k) = "", Live(store, k),
             store' \in Evicted(notifyAccess(AddScores(store, k, given), k))
      PROVE  IInv'
  <2>1. PICK r \in Rec : /\ Becomes(AddScores(store, k, given), store, k, r)
                         /\ RecordOK(r, members'[k], counted'[k])
    BY <1>4, ScoresThere, AddScoresGood
  <2>2. Becomes(notifyAccess(AddScores(store, k, given), k), store, k, r)
    BY <2>1, ThenAccess
  <2> QED  BY <1>1, <1>4, <2>1, <2>2, WriteKeeps
<1> QED  BY <1>2, <1>3, <1>4 DEF ZAdd

LEMMA ScoredLess ==
    ASSUME NEW A \in SUBSET Members, NEW gone
    PROVE  scoredSize(A \ gone) - scoredSize(A) = -scoredSize(gone \intersect A)
<1>1. /\ A \ gone \in SUBSET Members /\ gone \intersect A \in SUBSET Members
      /\ (A \ gone) \union A = A /\ A \ (A \ gone) = gone \intersect A
  OBVIOUS
<1>2. scoredSize(A \ gone) \in Nat /\ scoredSize(A) \in Nat /\ scoredSize(gone \intersect A) \in Nat
  BY <1>1, ScoredSizeIsNat
<1>3. scoredSize(A) = scoredSize(A \ gone) + scoredSize(gone \intersect A)
  <2>1. scoredSize((A \ gone) \union A) = scoredSize(A \ gone) + scoredSize(A \ (A \ gone))
    BY <1>1, ScoredSplit
  <2> QED  BY <1>1, <2>1
<1> QED  BY <1>2, <1>3, SMT

LEMMA RemoveScoresGood ==
    ASSUME IInv, NEW k \in Keys, NEW A \in SUBSET Members, store.data[k] \in ZSetRecordOf(A),
           store.data[k] # Absent, NEW gone, NEW S, NEW c
    PROVE  \E r \in Rec : /\ Becomes(RemoveScores(store, k, gone), store, k, r)
                          /\ DOMAIN r.scores # {} => RecordOK(r, S, c)
                          /\ recordSize(k, r) <= recordSize(k, store.data[k])
<1> DEFINE U == A \ gone
           f == [m \in U |-> store.data[k].scores[m]]
           n == -scoredSize(gone \intersect A)
<1>1. store.data[k].scores \in [A -> Int] /\ DOMAIN store.data[k].scores = A
  BY DEF ZSetRecordOf
<1>2. f \in [U -> Int] /\ U \in SUBSET Members /\ DOMAIN f = U
  BY <1>1
<1>3. PICK r : r = [store.data[k] EXCEPT !.scores = f]
  OBVIOUS
<1>4. RemoveScores(store, k, gone) = Put(accountMemory(store, n), k, r)
  BY <1>1, <1>3 DEF RemoveScores
<1> HIDE DEF f
<1>5. /\ r \in Rec /\ r.scores = f /\ (U # {} => RecordOK(r, S, c))
      /\ recordSize(k, r) - recordSize(k, store.data[k]) = scoredSize(U) - scoredSize(A)
  <2>1. PICK o, g : o = store.data[k] /\ g = f
    OBVIOUS
  <2>2. o \in ZSetRecordOf(A) /\ g \in [U -> Int] /\ r = [o EXCEPT !.scores = g]
    BY <1>2, <1>3, <2>1
  <2>3. U \in SUBSET Members
    BY <1>2
  <2> HIDE DEF U, n
  <2>4. /\ r \in Rec /\ (U # {} => RecordOK(r, S, c))
        /\ recordSize(k, r) - recordSize(k, o) = scoredSize(U) - scoredSize(A)
    BY <2>2, <2>3, ScoredRecord, SMTT(30)
  <2>5. r.scores = g
    BY <2>2 DEF ZSetRecordOf
  <2> QED  BY <2>1, <2>4, <2>5
<1>6. scoredSize(U) - scoredSize(A) = n
  BY ScoredLess
<1>7. recordSize(k, r) <= recordSize(k, store.data[k])
  <2> DEFINE a == recordSize(k, r)
             b == recordSize(k, store.data[k])
             g == scoredSize(gone \intersect A)
  <2>1. a \in Nat /\ b \in Nat
    BY <1>5, KeyParts, SizeIsNat
  <2>2. g \in Nat
    <3>1. gone \intersect A \in SUBSET Members
      OBVIOUS
    <3> QED  BY <3>1, ScoredSizeIsNat
  <2>3. a - b = -g
    BY <1>5, <1>6
  <2> HIDE DEF a, b, g
  <2>4. a <= b
    BY <2>1, <2>2, <2>3, SMT
  <2> QED  BY <2>4 DEF a, b
<1> HIDE DEF n
<1>8. Becomes(Put(accountMemory(store, n), k, r), store, k, r)
  BY <1>5, <1>6, KeyParts, ChargedGood
<1> QED  BY <1>2, <1>4, <1>5, <1>7, <1>8

LEMMA ZRemKeeps == ASSUME IInv, NEW k \in Keys, ZRem(k) PROVE IInv'
<1>1. OnlyAt(k) /\ SameHistory
  BY SameOnlyAt DEF ZRem
<1>2. RecordOK(Absent, members'[k], counted'[k])
  BY DEF RecordOK
<1>3. CASE UNCHANGED store
  BY <1>1, <1>3, IdleKeeps
<1>4. CASE store' = Clear(store, k)
  <2>1. Becomes(store', store, k, Absent)
    BY <1>4, KeyParts, ClearGood
  <2> QED  BY <1>1, <1>2, <2>1, ChangeKeeps
<1>5. ASSUME NEW gone, ZError(k) = "", Live(store, k),
             store' = ZRemoved(RemoveScores(store, k, gone), k)
      PROVE  IInv'
  <2>1. PICK A \in SUBSET Members : store.data[k] \in ZSetRecordOf(A)
    BY <1>5, ScoresThere
  <2>2. store.data[k] # Absent
    BY <1>5, ScoresThere
  <2>3. PICK t : t = RemoveScores(store, k, gone)
    OBVIOUS
  <2>4. PICK r \in Rec : /\ Becomes(t, store, k, r)
                         /\ DOMAIN r.scores # {} => RecordOK(r, members'[k], counted'[k])
                         /\ recordSize(k, r) <= recordSize(k, store.data[k])
    BY <2>1, <2>2, <2>3, RemoveScoresGood
  <2>5. t.data[k] = r
    BY <2>4, KeyParts, GoodParts DEF Becomes, RecordMap
  <2>6. CASE DOMAIN r.scores = {}
    <3>1. store' = Remove(t, k)
      BY <1>5, <2>3, <2>5, <2>6 DEF ZRemoved
    <3>2. Becomes(store', store, k, Absent)
      BY <2>4, <3>1, ThenRemove
    <3> QED  BY <1>1, <1>2, <3>2, ChangeKeeps
  <2>7. CASE DOMAIN r.scores # {}
    <3>1. store' = notifyAccess(t, k)
      BY <1>5, <2>3, <2>5, <2>7 DEF ZRemoved
    <3>2. Becomes(store', store, k, r)
      BY <2>4, <3>1, ThenAccess
    <3> QED  BY <1>1, <2>2, <2>4, <2>7, <3>2, ChangeKeeps
  <2> QED  BY <2>6, <2>7
<1> QED  BY <1>3, <1>4, <1>5 DEF ZRem

LEMMA SetKeeps == ASSUME IInv, NEW k \in Keys, Set(k) PROVE IInv'
<1>1. OnlyAt(k)
  BY SameOnlyAt DEF Set
<1>2. PICK r : r = StringValue(Text, 0)
  OBVIOUS
<1>3. r \in StringRecord /\ r.type = "string"
  BY <1>2, ContainersAssumption DEF StringValue, StringRecord
<1>4. r \in Rec /\ RecordOK(r, members'[k], counted'[k])
  BY <1>3 DEF Rec, RecordOK
<1>5. Becomes(Replace(store, k, r), store, k, r)
  BY <1>4, KeyParts, ReplaceGood
<1>6. store' \in Evicted(Replace(store, k, r))
  BY <1>2 DEF Set
<1> QED  BY <1>1, <1>4, <1>5, <1>6, WriteKeeps

\* A deadline changes neither what a record holds nor its size.
LEMMA DeadlineRecord ==
    ASSUME NEW k \in Keys, NEW r \in Rec, NEW q, q = [r EXCEPT !.ttl = 1], NEW S, NEW c,
           RecordOK(r, S, c)
    PROVE  q \in Rec /\ recordSize(k, q) = recordSize(k, r) /\ RecordOK(q, S, c)
<1>1. CASE r.type = "string"
  <2>1. r \in StringRecord
    BY <1>1, RecParts
  <2>2. q \in StringRecord /\ q.type = "string" /\ q.text = r.text
    BY <2>1 DEF StringRecord
  <2>3. RecordOK(q, S, c)
    BY <2>2 DEF RecordOK
  <2>4. recordSize(k, q) = recordSize(k, r)
    BY <1>1, <2>2 DEF recordSize, valueSize
  <2> QED  BY <2>2, <2>3, <2>4 DEF Rec
<1>2. CASE r.type = "cms"
  <2>1. PICK d \in Dims : r \in CMSRecordOf(d)
    BY <1>2, RecParts
  <2>2. q \in CMSRecordOf(d) /\ q.type = "cms" /\ q.sketch = r.sketch
    BY <2>1 DEF CMSRecordOf
  <2>3. RecordOK(q, S, c)
    BY <1>2, <2>2, RecParts DEF RecordOK
  <2>4. recordSize(k, q) = recordSize(k, r)
    BY <1>2, <2>2 DEF recordSize, valueSize
  <2> QED  BY <2>2, <2>3, <2>4 DEF Rec, CMSRecords
<1>3. CASE r.type = "bloom"
  <2>1. r \in BloomRecords
    BY <1>3, RecParts
  <2>2. q \in BloomRecords /\ q.type = "bloom" /\ q.filter = r.filter
    BY <2>1 DEF BloomRecords
  <2>3. RecordOK(q, S, c)
    BY <1>3, <2>2, RecParts DEF RecordOK
  <2>4. recordSize(k, q) = recordSize(k, r)
    BY <1>3, <2>2 DEF recordSize, valueSize
  <2> QED  BY <2>2, <2>3, <2>4 DEF Rec
<1>4. CASE r.type = "zset"
  <2>1. PICK A \in SUBSET Members : r \in ZSetRecordOf(A)
    BY <1>4, RecParts
  <2>2. q \in ZSetRecordOf(A) /\ q.type = "zset" /\ q.scores = r.scores
    BY <2>1 DEF ZSetRecordOf
  <2>3. RecordOK(q, S, c)
    BY <1>4, <2>2, RecParts DEF RecordOK
  <2>4. recordSize(k, q) = recordSize(k, r)
    BY <1>4, <2>2 DEF recordSize, valueSize
  <2> QED  BY <2>2, <2>3, <2>4 DEF Rec, ZSetRecords
<1> QED  BY <1>1, <1>2, <1>3, <1>4, RecParts

LEMMA ExpireKeeps == ASSUME IInv, NEW k \in Keys, Expire(k) PROVE IInv'
<1>1. OnlyAt(k) /\ counted'[k] = counted[k] /\ members'[k] = members[k]
  BY SameOnlyAt DEF Expire, SameHistory
<1>2. store.data[k] # Absent
  BY DEF Expire, Live
<1>3. PICK o, r : o = store.data[k] /\ r = [o EXCEPT !.ttl = 1]
  OBVIOUS
<1>4. o \in Rec /\ RecordOK(o, members'[k], counted'[k])
  BY <1>1, <1>2, <1>3, KeyParts
<1>5. r \in Rec /\ recordSize(k, r) = recordSize(k, o) /\ RecordOK(r, members'[k], counted'[k])
  BY <1>3, <1>4, DeadlineRecord
<1>6. store' = notifyAccess(Put(store, k, r), k)
  BY <1>3 DEF Expire
<1> QED  BY <1>1, <1>2, <1>3, <1>5, <1>6, SameSizeKeeps

LEMMA DeleteKeeps == ASSUME IInv, NEW k \in Keys, Delete(k) PROVE IInv'
<1>1. OnlyAt(k)
  BY SameOnlyAt DEF Delete
<1>2. RecordOK(Absent, members'[k], counted'[k])
  BY DEF RecordOK
<1>3. Becomes(store', store, k, Absent)
  BY KeyParts, RemovalGood DEF Delete
<1> QED  BY <1>1, <1>2, <1>3, ChangeKeeps

-----------------------------------------------------------------------------
(* The theorems                                                              *)

LEMMA InitHolds == Init => IInv
<1> SUFFICES ASSUME Init PROVE IInv
  OBVIOUS
<1>1. PICK name \in Policies : store = New(name)
  BY DEF Init
<1>2. Good(store) /\ Present(store) = {}
  BY <1>1, NewGood
<1>3. Within(store)
  BY <1>2, EmptyFits DEF Within
<1>4. \A k \in Keys : store.data[k] = Absent
  BY <1>2 DEF Present
<1>5. \A k \in Keys : RecordOK(store.data[k], members[k], counted[k])
  BY <1>4 DEF RecordOK
<1>6. counted \in [Keys -> [Items -> Nat]] /\ members \in [Keys -> SUBSET Items]
  BY DEF Init, Nothing
<1> QED  BY <1>2, <1>3, <1>5, <1>6 DEF IInv

LEMMA StepHolds == IInv /\ [Next]_vars => IInv'
<1> SUFFICES ASSUME IInv, [Next]_vars PROVE IInv'
  OBVIOUS
<1>1. CASE UNCHANGED vars
  BY <1>1, IdleKeeps DEF vars, SameHistory
<1>2. ASSUME NEW k \in Keys, CMSInit(k) \/ CMSIncrBy(k) \/ CMSRead(k) \/ CMSMerge(k) PROVE IInv'
  BY <1>2, CMSInitKeeps, CMSIncrByKeeps, CMSReadKeeps, CMSMergeKeeps
<1>3. ASSUME NEW k \in Keys, BFReserve(k) \/ BFMultiAdd(k) \/ BFRead(k) PROVE IInv'
  BY <1>3, BFReserveKeeps, BFMultiAddKeeps, BFReadKeeps
<1>4. ASSUME NEW k \in Keys, ZAdd(k) \/ ZRem(k) \/ ZRead(k) PROVE IInv'
  BY <1>4, ZAddKeeps, ZRemKeeps, ZReadKeeps
<1>5. ASSUME NEW k \in Keys, Set(k) \/ Expire(k) \/ Delete(k) PROVE IInv'
  BY <1>5, SetKeeps, ExpireKeeps, DeleteKeeps
<1> QED  BY <1>1, <1>2, <1>3, <1>4, <1>5 DEF Next

LEMMA InvariantHolds == Spec => []IInv
BY InitHolds, StepHolds, PTL DEF Spec

\* usedMemory is what the map holds, whatever types of record follow one another
\* under a key, whatever a write evicts and whatever ZADD and ZREM charge.
THEOREM ContainersMemoryIsExact == Spec => []MemoryExact
<1>1. IInv => MemoryExact
  BY DEF IInv, Good, MemoryExact
<1> QED  BY <1>1, InvariantHolds, PTL

\* The policy tracks the keys of the map and no others: no sketch, filter or
\* sorted set is out of its reach, and none it could evict is gone.
THEOREM ContainersPolicyIsExact == Spec => []PolicyTracksData
<1>1. IInv => PolicyTracksData
  BY DEF IInv, Good, PolicyTracksData
<1> QED  BY <1>1, InvariantHolds, PTL

\* The loop of evictLocked ends with the store within both limits, and the calls
\* that evict nothing never need to: what they leave is no larger.
THEOREM ContainersStayWithinCapacity == Spec => []WithinCapacity
<1>1. IInv => WithinCapacity
  BY DEF IInv, Within, WithinCapacity
<1> QED  BY <1>1, InvariantHolds, PTL

\* For any hash function, any widths and depths and any word size: a sketch
\* answers at least what was added, whatever was merged into it, with whatever
\* weights, and wherever an overflow cut a list of increments short.
THEOREM SketchesNeverUnderestimate == Spec => []NeverUnderestimates
<1>1. ASSUME IInv PROVE NeverUnderestimates
  <2> SUFFICES ASSUME NEW k \in Sketches, NEW i \in Items
               PROVE  query(store.data[k].sketch, i) >= counted[k][i]
    BY DEF NeverUnderestimates
  <2>1. k \in Keys /\ store.data[k] # Absent /\ store.data[k].type = "cms"
    BY DEF Sketches
  <2>2. Kept(store.data[k].sketch, counted[k]) /\ store.data[k] \in Rec
    BY <1>1, <2>1, KeyParts DEF RecordOK
  <2>3. PICK d \in Dims : store.data[k].sketch \in SketchOf(d)
    BY <2>1, <2>2, RecParts DEF CMSRecordOf
  <2> QED  BY <2>2, <2>3, QueryLower DEF Kept
<1> QED  BY <1>1, InvariantHolds, PTL

\* An item that BF.ADD or BF.MADD put into a filter is found in it for as long as
\* the filter is there, whatever else was put into it.
THEOREM FiltersHaveNoFalseNegative == Spec => []NoFalseNegative
<1>1. IInv => NoFalseNegative
  BY DEF IInv, RecordOK, NoFalseNegative, Filters
<1> QED  BY <1>1, InvariantHolds, PTL

\* A sorted set that ZREM has emptied is gone, from the map and from the policy.
THEOREM NoSortedSetIsEmpty == Spec => []NoEmptySortedSet
<1>1. IInv => NoEmptySortedSet
  BY DEF IInv, RecordOK, NoEmptySortedSet
<1> QED  BY <1>1, InvariantHolds, PTL

\* Every row of a sketch, and its count, add up to what was added: no counter wraps,
\* and an overflow leaves nothing half counted. For any finite set of items.
THEOREM RowsSumUp == Spec => []RowsSumToCount
<1>1. ASSUME IInv PROVE RowsSumToCount
  <2> SUFFICES ASSUME NEW k \in Sketches, NEW s, s = store.data[k].sketch
               PROVE  /\ s.count = MapThenSumSet(LAMBDA i : counted[k][i], Items)
                      /\ \A row \in Rows(s) :
                            MapThenSumSet(LAMBDA column : s.counters[row][column], Columns(s)) = s.count
    BY DEF RowsSumToCount
  <2>1. k \in Keys /\ store.data[k] # Absent /\ store.data[k].type = "cms"
    BY DEF Sketches
  <2>2. SumsUp(s, counted[k])
    BY <1>1, <2>1, KeyParts DEF RecordOK, Kept
  <2> QED  BY <2>2 DEF SumsUp, SumOver
<1> QED  BY <1>1, InvariantHolds, PTL
=============================================================================
