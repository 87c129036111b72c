-------------------------------- MODULE Sums --------------------------------
(***************************************************************************)
(* Sums over finite sets, SumFunction(c). What holds of every finite       *)
(* subset is shown by way of a minimal subset of which it does not.        *)
(***************************************************************************)
EXTENDS Integers, Functions, FiniteSetTheorems, WellFoundedInduction, TLAPS

Some(s) == CHOOSE x \in s : TRUE

(* g[s] is the sum of c over s, for every subset s of S.                   *)
SumsUp(g, c, S) ==
    g = [s \in SUBSET S |-> IF s = {} THEN 0 ELSE c[Some(s)] + g[s \ {Some(s)}]]

(* A nonempty family of subsets of a finite set has a minimal member.      *)
LEMMA Smallest ==
    ASSUME NEW S, IsFiniteSet(S), NEW T, T \subseteq SUBSET S, T # {}
    PROVE  \E s \in T : \A t \in T : t \subseteq s => t = s
<1>1. SUBSET S = FiniteSubsetsOf(S)
  BY FS_Subset DEF FiniteSubsetsOf
<1>2. IsWellFoundedOn(StrictSubsetOrdering(S), SUBSET S)
  BY <1>1, FS_StrictSubsetOrderingWellFounded
<1>3. PICK s \in T : \A t \in T : <<t, s>> \notin StrictSubsetOrdering(S)
  BY <1>2, WFMin
<1>4. ASSUME NEW t \in T, t \subseteq s PROVE t = s
  BY <1>3, <1>4 DEF StrictSubsetOrdering
<1> QED
  BY <1>4

LEMMA Peel ==
    ASSUME NEW S, NEW s \in SUBSET S, s # {}
    PROVE  /\ Some(s) \in s
           /\ s \ {Some(s)} \in SUBSET S
           /\ s \ {Some(s)} \subseteq s /\ s \ {Some(s)} # s
BY DEF Some

LEMMA SumsAgree ==
    ASSUME NEW c, NEW S, IsFiniteSet(S), NEW R, R \subseteq S, NEW g, NEW h, SumsUp(g, c, S), SumsUp(h, c, R)
    PROVE  \A s \in SUBSET R : g[s] = h[s]
<1> DEFINE T == {s \in SUBSET R : g[s] # h[s]}
<1> SUFFICES ASSUME T # {} PROVE FALSE
  OBVIOUS
<1>1. IsFiniteSet(R)
  BY FS_Subset
<1>2. PICK s \in T : \A t \in T : t \subseteq s => t = s
  <2> T \subseteq SUBSET R
    OBVIOUS
  <2> HIDE DEF T
  <2> QED
    BY <1>1, Smallest
<1>3. s \in SUBSET S /\ s \in SUBSET R
  OBVIOUS
<1>4. /\ g[s] = IF s = {} THEN 0 ELSE c[Some(s)] + g[s \ {Some(s)}]
      /\ h[s] = IF s = {} THEN 0 ELSE c[Some(s)] + h[s \ {Some(s)}]
  BY <1>3 DEF SumsUp
<1>5. s # {}
  BY <1>4
<1>6. g[s \ {Some(s)}] = h[s \ {Some(s)}]
  BY <1>2, <1>3, <1>5, Peel
<1> QED
  BY <1>4, <1>5, <1>6

LEMMA SumExists ==
    ASSUME NEW c, NEW S, IsFiniteSet(S)
    PROVE  \E g : SumsUp(g, c, S)
<1> DEFINE T == {s \in SUBSET S : ~ \E g : SumsUp(g, c, s)}
<1> SUFFICES ASSUME T # {} PROVE FALSE
  BY S \in SUBSET S
<1>1. PICK s \in T : \A t \in T : t \subseteq s => t = s
  <2> T \subseteq SUBSET S
    OBVIOUS
  <2> HIDE DEF T
  <2> QED
    BY Smallest
<1>2. s \in SUBSET S /\ IsFiniteSet(s)
  BY FS_Subset
<1> DEFINE G(t) == CHOOSE g : SumsUp(g, c, t)
<1>3. ASSUME NEW t \in SUBSET s, t # s PROVE SumsUp(G(t), c, t)
  BY <1>1, <1>2, <1>3
<1> DEFINE Before(t) == t \ {Some(t)}
           f == [t \in SUBSET s |-> IF t = {} THEN 0 ELSE c[Some(t)] + G(Before(t))[Before(t)]]
<1>4. ASSUME NEW t \in SUBSET s, t # s PROVE f[t] = G(t)[t]
  <2>1. CASE t = {}
    <3>1. SumsUp(G(t), c, t)
      BY <1>3, <1>4
    <3> HIDE DEF G
    <3>2. G(t)[t] = 0
      BY <2>1, <3>1 DEF SumsUp
    <3> QED
      BY <2>1, <3>2
  <2>2. CASE t # {}
    <3>1. /\ Before(t) \in SUBSET s /\ Before(t) \subseteq t /\ Before(t) # s
          /\ Before(t) \in SUBSET t
      BY <1>4, <2>2, Peel
    <3>2. SumsUp(G(t), c, t) /\ SumsUp(G(Before(t)), c, Before(t)) /\ IsFiniteSet(t)
      BY <1>2, <1>3, <1>4, <3>1, FS_Subset
    <3> HIDE DEF G
    <3>3. G(t)[Before(t)] = G(Before(t))[Before(t)]
      <4> HIDE DEF Before
      <4>1. Before(t) \subseteq t /\ Before(t) \in SUBSET Before(t)
        BY <3>1
      <4> QED
        BY <4>1, <3>2, SumsAgree
    <3>4. G(t)[t] = c[Some(t)] + G(t)[Before(t)]
      BY <2>2, <3>2 DEF SumsUp
    <3> QED
      BY <2>2, <3>3, <3>4
  <2> QED
    BY <2>1, <2>2
<1>5. ASSUME NEW t \in SUBSET s, t # {}
      PROVE  Before(t) \in SUBSET s /\ Before(t) # s
  BY <1>5, Peel
<1>6. f = [t \in SUBSET s |-> IF t = {} THEN 0 ELSE c[Some(t)] + f[Before(t)]]
  <2> HIDE DEF G, Before
  <2> QED
    BY <1>4, <1>5
<1>7. SumsUp(f, c, s)
  BY <1>6 DEF SumsUp
<1> QED
  BY <1>1, <1>7

(* The fold of the community modules is such a sum.                        *)
LEMMA FoldSumsUp ==
    ASSUME NEW S, IsFiniteSet(S), NEW c, DOMAIN c = S
    PROVE  \E g : SumsUp(g, c, S) /\ SumFunction(c) = g[S]
<1>1. SumFunction(c) = (CHOOSE g : SumsUp(g, c, S))[S]
  BY DEF SumFunction, SumFunctionOnSet, FoldFunctionOnSet, MapThenFoldSet, SumsUp, Some
<1> QED
  BY <1>1, SumExists


----------------------------------------------------------------------------
(* One step of a sum over a subset that is not empty.                      *)
LEMMA SumPeels ==
    ASSUME NEW c, NEW S, NEW g, SumsUp(g, c, S), NEW s \in SUBSET S, s # {}
    PROVE  /\ g[s] = c[Some(s)] + g[s \ {Some(s)}]
           /\ s \ {Some(s)} \in SUBSET S /\ s \ {Some(s)} \subseteq s /\ s \ {Some(s)} # s
           /\ Some(s) \in s
BY Peel DEF SumsUp

(* A sum of integers is an integer.                                        *)
LEMMA SumsAreIntegers ==
    ASSUME NEW S, IsFiniteSet(S), NEW c \in [S -> Int], NEW g, SumsUp(g, c, S)
    PROVE  \A s \in SUBSET S : g[s] \in Int
<1> DEFINE T == {s \in SUBSET S : g[s] \notin Int}
<1> SUFFICES ASSUME T # {} PROVE FALSE
  OBVIOUS
<1>1. PICK s \in T : \A t \in T : t \subseteq s => t = s
  <2> T \subseteq SUBSET S
    OBVIOUS
  <2> HIDE DEF T
  <2> QED
    BY Smallest
<1>2. s # {}
  BY DEF SumsUp
<1>3. /\ g[s] = c[Some(s)] + g[s \ {Some(s)}]
      /\ s \ {Some(s)} \in SUBSET S /\ s \ {Some(s)} \subseteq s /\ s \ {Some(s)} # s
      /\ Some(s) \in S
  BY <1>2, SumPeels
<1>4. g[s \ {Some(s)}] \in Int
  BY <1>1, <1>3
<1>5. c[Some(s)] \in Int
  BY <1>3
<1> QED
  BY <1>3, <1>4, <1>5

(* Two sums differ by what their terms differ in one place.                *)
LEMMA SumsDiffer ==
    ASSUME NEW S, IsFiniteSet(S), NEW c \in [S -> Int], NEW d \in [S -> Int], NEW r \in S,
           \A x \in S \ {r} : c[x] = d[x],
           NEW g, SumsUp(g, c, S), NEW h, SumsUp(h, d, S)
    PROVE  \A s \in SUBSET S : h[s] = g[s] + (IF r \in s THEN d[r] - c[r] ELSE 0)
<1> DEFINE More(s) == IF r \in s THEN d[r] - c[r] ELSE 0
           T == {s \in SUBSET S : h[s] # g[s] + More(s)}
<1> SUFFICES ASSUME T # {} PROVE FALSE
  OBVIOUS
<1>1. PICK s \in T : \A t \in T : t \subseteq s => t = s
  <2> T \subseteq SUBSET S
    OBVIOUS
  <2> HIDE DEF T
  <2> QED
    BY Smallest
<1>2. s # {}
  <2> SUFFICES ASSUME s = {} PROVE FALSE
    OBVIOUS
  <2>1. h[s] = 0 /\ g[s] = 0 /\ More(s) = 0
    BY DEF SumsUp
  <2> QED
    BY <2>1
<1> DEFINE x == Some(s)
           t == s \ {x}
<1>3. /\ g[s] = c[x] + g[t] /\ h[s] = d[x] + h[t]
      /\ t \in SUBSET S /\ t \subseteq s /\ t # s /\ x \in S /\ x \in s
  <2>1. s \in SUBSET S
    OBVIOUS
  <2> HIDE DEF T, More, x, t
  <2>2. g[s] = c[Some(s)] + g[s \ {Some(s)}]
    BY <1>2, <2>1, SumPeels
  <2>3. h[s] = d[Some(s)] + h[s \ {Some(s)}]
    BY <1>2, <2>1, SumPeels
  <2>4. /\ Some(s) \in s /\ s \ {Some(s)} \in SUBSET S
        /\ s \ {Some(s)} \subseteq s /\ s \ {Some(s)} # s
    BY <1>2, <2>1, Peel
  <2> QED
    BY <2>1, <2>2, <2>3, <2>4 DEF x, t
<1>4. h[t] = g[t] + More(t)
  BY <1>1, <1>3
<1>5. g[t] \in Int /\ c[x] \in Int /\ d[x] \in Int /\ c[r] \in Int /\ d[r] \in Int
  BY <1>3, SumsAreIntegers
<1>6. CASE x = r
  <2>1. More(t) = 0 /\ More(s) = d[r] - c[r]
    BY <1>3, <1>6
  <2> HIDE DEF x, t, More
  <2> QED
    BY <1>3, <1>4, <1>5, <1>6, <2>1
<1>7. CASE x # r
  <2>1. More(t) = More(s) /\ c[x] = d[x] /\ More(s) \in Int
    BY <1>3, <1>5, <1>7
  <2> HIDE DEF x, t, More
  <2> QED
    BY <1>3, <1>4, <1>5, <2>1
<1> QED
  BY <1>6, <1>7

(* The sum of integers is an integer, and natural numbers sum up to one.   *)
LEMMA SumType ==
    ASSUME NEW S, IsFiniteSet(S), NEW c \in [S -> Int]
    PROVE  SumFunction(c) \in Int
<1>1. PICK g : SumsUp(g, c, S) /\ SumFunction(c) = g[S]
  BY FoldSumsUp
<1> QED
  BY <1>1, SumsAreIntegers

(* When one term of a sum changes, the sum changes by as much.             *)
LEMMA SumOfOneMore ==
    ASSUME NEW S, IsFiniteSet(S), NEW c \in [S -> Int], NEW d \in [S -> Int], NEW r \in S,
           \A x \in S \ {r} : c[x] = d[x]
    PROVE  SumFunction(d) = SumFunction(c) + (d[r] - c[r])
<1>1. PICK g : SumsUp(g, c, S) /\ SumFunction(c) = g[S]
  BY FoldSumsUp
<1>2. PICK h : SumsUp(h, d, S) /\ SumFunction(d) = h[S]
  BY FoldSumsUp
<1>3. S \in SUBSET S
  OBVIOUS
<1>4. h[S] = g[S] + (IF r \in S THEN d[r] - c[r] ELSE 0)
  BY <1>1, <1>2, <1>3, SumsDiffer
<1> QED
  BY <1>1, <1>2, <1>4

(* A sum of nothing but zeros is zero.                                     *)
LEMMA SumOfZeros ==
    ASSUME NEW S, IsFiniteSet(S)
    PROVE  SumFunction([x \in S |-> 0]) = 0
<1> DEFINE c == [x \in S |-> 0]
<1>1. PICK g : SumsUp(g, c, S) /\ SumFunction(c) = g[S]
  BY FoldSumsUp
<1> HIDE DEF c
<1> DEFINE T == {s \in SUBSET S : g[s] # 0}
<1>2. SUFFICES ASSUME T # {} PROVE FALSE
  BY <1>1 DEF c
<1>3. PICK s \in T : \A t \in T : t \subseteq s => t = s
  <2> T \subseteq SUBSET S /\ T # {}
    BY <1>2
  <2> HIDE DEF T
  <2> QED
    BY Smallest
<1>4. s # {}
  BY <1>1 DEF SumsUp
<1>5. /\ g[s] = c[Some(s)] + g[s \ {Some(s)}]
      /\ s \ {Some(s)} \in SUBSET S /\ s \ {Some(s)} \subseteq s /\ s \ {Some(s)} # s
      /\ Some(s) \in S
  BY <1>1, <1>4, SumPeels
<1>6. g[s \ {Some(s)}] = 0 /\ c[Some(s)] = 0
  BY <1>3, <1>5 DEF c
<1> QED
  BY <1>5, <1>6

----------------------------------------------------------------------------
(* The inequality of Cauchy and Schwarz for integers: the cosine of two    *)
(* vectors is at most one.                                                 *)

LEMMA Scaled ==
    ASSUME NEW m \in Nat, NEW p \in Int, NEW q \in Int, p <= q
    PROVE  m * p <= m * q
<1>1. PICK n \in Nat : q = p + n
  BY q - p \in Nat
<1>2. m * q = m * p + m * n /\ m * n \in Nat
  BY <1>1
<1> QED
  BY <1>2

LEMMA SquareIsNat ==
    ASSUME NEW u \in Int
    PROVE  u * u \in Nat
<1>1. CASE u >= 0
  BY <1>1
<1>2. CASE u < 0
  <2>1. (-u) * (-u) = u * u /\ -u \in Nat
    BY <1>2
  <2> QED
    BY <2>1
<1> QED
  BY <1>1, <1>2

LEMMA RootsAreOrdered ==
    ASSUME NEW p \in Int, NEW q \in Nat, p * p <= q * q
    PROVE  p <= q
<1> SUFFICES ASSUME p > q PROVE FALSE
  OBVIOUS
<1>1. q * q <= q * p
  BY Scaled
<1>2. PICK n \in Nat : p = q + n + 1
  BY p - q - 1 \in Nat
<1>3. p \in Nat
  OBVIOUS
<1>4. p * p = p * q + p * n + p /\ p * n \in Nat
  BY <1>2, <1>3
<1>5. p * q = q * p
  OBVIOUS
<1> QED
  BY <1>1, <1>3, <1>4, <1>5

LEMMA MeanBound ==
    ASSUME NEW x \in Nat, NEW y \in Nat, NEW w \in Int, w * w <= x * y
    PROVE  2 * w <= x + y
<1>1. (x - y) * (x - y) \in Nat
  BY SquareIsNat
<1>2. (x + y) * (x + y) = (x - y) * (x - y) + 4 * (x * y)
  OBVIOUS
<1>3. (2 * w) * (2 * w) = 4 * (w * w)
  OBVIOUS
<1>4. (2 * w) * (2 * w) <= (x + y) * (x + y)
  BY <1>1, <1>2, <1>3
<1> QED
  BY <1>4, RootsAreOrdered

LEMMA OneMoreCoordinate ==
    ASSUME NEW a \in Nat, NEW b \in Nat, NEW p \in Int, p * p <= a * b,
           NEW u \in Int, NEW v \in Int
    PROVE  (u * v + p) * (u * v + p) <= (u * u + a) * (v * v + b)
<1> DEFINE x == a * (v * v)
           y == b * (u * u)
           w == (u * v) * p
           m == (u * u) * (v * v)
<1>1. u * u \in Nat /\ v * v \in Nat
  BY SquareIsNat
<1>2. x \in Nat /\ y \in Nat /\ m \in Nat /\ w \in Int
  BY <1>1
<1>3. m * (p * p) <= m * (a * b)
  BY <1>2, Scaled
<1>4. w * w = m * (p * p) /\ x * y = m * (a * b)
  OBVIOUS
<1>5. 2 * w <= x + y
  <2> HIDE DEF x, y, w, m
  <2> QED
    BY <1>2, <1>3, <1>4, MeanBound
<1>6. (u * v + p) * (u * v + p) = m + 2 * w + p * p
  OBVIOUS
<1>7. (u * u + a) * (v * v + b) = m + (x + y) + a * b
  OBVIOUS
<1> HIDE DEF x, y, w, m
<1> QED
  BY <1>2, <1>5, <1>6, <1>7

(* The product sum of two integer vectors, and of each with itself.        *)
LEMMA CauchySchwarz ==
    ASSUME NEW S, IsFiniteSet(S), NEW a \in [S -> Int], NEW b \in [S -> Int],
           NEW ab, ab = [x \in S |-> a[x] * b[x]],
           NEW aa, aa = [x \in S |-> a[x] * a[x]],
           NEW bb, bb = [x \in S |-> b[x] * b[x]]
    PROVE  /\ SumFunction(aa) \in Nat /\ SumFunction(bb) \in Nat
           /\ SumFunction(ab) * SumFunction(ab) <= SumFunction(aa) * SumFunction(bb)
<1>0. ab \in [S -> Int] /\ aa \in [S -> Int] /\ bb \in [S -> Int]
  OBVIOUS
<1>1. PICK g : SumsUp(g, ab, S) /\ SumFunction(ab) = g[S]
  BY FoldSumsUp
<1>2. PICK h : SumsUp(h, aa, S) /\ SumFunction(aa) = h[S]
  BY FoldSumsUp
<1>3. PICK k : SumsUp(k, bb, S) /\ SumFunction(bb) = k[S]
  BY FoldSumsUp
<1>4. \A s \in SUBSET S : g[s] \in Int
  BY <1>0, <1>1, SumsAreIntegers
<1> DEFINE Bound(s) == h[s] \in Nat /\ k[s] \in Nat /\ g[s] * g[s] <= h[s] * k[s]
           T == {s \in SUBSET S : ~Bound(s)}
<1>5. SUFFICES ASSUME T # {} PROVE FALSE
  BY <1>1, <1>2, <1>3, S \in SUBSET S
<1>6. PICK s \in T : \A t \in T : t \subseteq s => t = s
  <2> T \subseteq SUBSET S /\ T # {}
    BY <1>5
  <2> HIDE DEF T
  <2> QED
    BY Smallest
<1>7. s \in SUBSET S /\ ~Bound(s)
  OBVIOUS
<1>8. s # {}
  <2> SUFFICES ASSUME s = {} PROVE FALSE
    OBVIOUS
  <2>1. g[s] = 0 /\ h[s] = 0 /\ k[s] = 0
    BY <1>1, <1>2, <1>3, <1>7 DEF SumsUp
  <2> QED
    BY <1>7, <2>1
<1>9. PICK x, t : /\ x = Some(s) /\ t = s \ {x}
                  /\ x \in S /\ t \in SUBSET S /\ t \subseteq s /\ t # s
  <2> HIDE DEF T, Bound
  <2>1. /\ Some(s) \in S /\ s \ {Some(s)} \in SUBSET S
        /\ s \ {Some(s)} \subseteq s /\ s \ {Some(s)} # s
    BY <1>7, <1>8, Peel
  <2> QED
    BY <2>1
<1>10. g[s] = ab[x] + g[t] /\ h[s] = aa[x] + h[t] /\ k[s] = bb[x] + k[t]
  <2> HIDE DEF T, Bound
  <2>1. g[s] = ab[x] + g[t]
    BY <1>1, <1>7, <1>8, <1>9 DEF SumsUp
  <2>2. h[s] = aa[x] + h[t]
    BY <1>2, <1>7, <1>8, <1>9 DEF SumsUp
  <2>3. k[s] = bb[x] + k[t]
    BY <1>3, <1>7, <1>8, <1>9 DEF SumsUp
  <2> QED
    BY <2>1, <2>2, <2>3
<1>11. Bound(t) /\ g[t] \in Int
  BY <1>4, <1>6, <1>9
<1>12. a[x] \in Int /\ b[x] \in Int
  BY <1>9
<1>13. g[s] = a[x] * b[x] + g[t] /\ h[s] = a[x] * a[x] + h[t] /\ k[s] = b[x] * b[x] + k[t]
  BY <1>9, <1>10
<1>14. g[s] * g[s] <= h[s] * k[s]
  <2> HIDE DEF T
  <2>1. (a[x] * b[x] + g[t]) * (a[x] * b[x] + g[t]) <= (a[x] * a[x] + h[t]) * (b[x] * b[x] + k[t])
    BY <1>11, <1>12, OneMoreCoordinate
  <2> QED
    BY <1>13, <2>1
<1>15. h[s] \in Nat /\ k[s] \in Nat
  <2>1. a[x] * a[x] \in Nat /\ b[x] * b[x] \in Nat
    BY <1>12, SquareIsNat
  <2> QED
    BY <1>11, <1>13, <2>1
<1> QED
  BY <1>7, <1>14, <1>15

=============================================================================
