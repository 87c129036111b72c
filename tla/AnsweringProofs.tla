-------------------------- MODULE AnsweringProofs --------------------------
(***************************************************************************)
(* The tiers of module Routing for prompts of every length and any number  *)
(* of patterns, the similarity of module SemanticCache for any texts, and  *)
(* what follows for the requests of module Answering.                      *)
(***************************************************************************)
EXTENDS Answering, Sums

----------------------------------------------------------------------------
(* Tiers                                                                   *)

LEMMA HitsAreCounted ==
    ASSUME NEW t \in Texts
    PROVE  HardHits(t) \in Nat /\ EasyHits(t) \in Nat
<1>1. IsFiniteSet({w \in HardWords : Occurs(w, t)})
    BY FS_Subset, PatternsAssumption
<1>2. IsFiniteSet({w \in EasyWords : Occurs(w, t)})
    BY FS_Subset, PatternsAssumption
<1> QED
    BY <1>1, <1>2, FS_CardinalityType DEF HardHits, EasyHits

(* A prompt with easy patterns only, and no clauses, goes to the fast      *)
(* tier, whatever its length (difficulty.py 14-17, README 144).            *)
THEOREM TrivialStaysFast ==
    ASSUME NEW easy \in Nat \ {0}, NEW words \in Nat
    PROVE  TierOf(0, easy, words, FALSE) = "fast"
<1> DEFINE sum == 200 - 80 * easy + LengthScore(words)
           score == Score(0, easy, words, FALSE)
<1>1. LengthScore(words) \in 0..60
    BY DEF LengthScore
<1>2. score = Clip(sum)
    BY <1>1 DEF Score
<1>3. sum \in Int /\ sum < 200
    BY <1>1
<1>4. TierOf(0, easy, words, FALSE) = IF score >= 200 THEN "smart" ELSE "fast"
    BY DEF TierOf
<1> HIDE DEF sum, score
<1>5. score \in 0..199
    BY <1>2, <1>3 DEF Clip
<1>6. ~(score >= 200)
    BY <1>5
<1> QED
    BY <1>4, <1>6

(* A prompt with hard patterns only goes to the smart tier, however short. *)
THEOREM HardIsSmart ==
    ASSUME NEW hard \in Nat \ {0}, NEW words \in Nat, NEW clauses \in BOOLEAN
    PROVE  TierOf(hard, 0, words, clauses) = "smart"
<1>1. LengthScore(words) \in 0..60
    BY DEF LengthScore
<1> DEFINE bonus == IF clauses THEN 40 ELSE 0
<1>2. bonus \in {0, 40}
    OBVIOUS
<1>3. Score(hard, 0, words, clauses) = Clip(200 + 60 * hard + LengthScore(words) + bonus)
    BY <1>1, <1>2 DEF Score
<1> HIDE DEF bonus
<1>4. 200 + 60 * hard + LengthScore(words) + bonus >= 200
    BY <1>1, <1>2
<1>5. Score(hard, 0, words, clauses) >= 200
    BY <1>1, <1>2, <1>3, <1>4 DEF Clip
<1> QED
    BY <1>5 DEF TierOf

(* Beyond 60 words the length makes no difference.                         *)
THEOREM LengthIsCapped ==
    ASSUME NEW hard \in Nat, NEW easy \in Nat, NEW clauses \in BOOLEAN,
           NEW v \in Nat, NEW w \in Nat, v >= 60, w >= 60
    PROVE  TierOf(hard, easy, v, clauses) = TierOf(hard, easy, w, clauses)
<1>1. LengthScore(v) = 60 /\ LengthScore(w) = 60
    BY DEF LengthScore
<1> QED
    BY <1>1 DEF TierOf, Score

(* Below 60 words it can decide: of two lists to be copied, both with      *)
(* clauses and with no hard pattern, the one with 40 words is taken for a  *)
(* hard prompt and the one with 39 for an easy one, although README 144    *)
(* says that the length can never dominate.                                *)
THEOREM LengthDecidesWithClauses ==
    TierOf(0, 1, 40, TRUE) = "smart" /\ TierOf(0, 1, 39, TRUE) = "fast"
BY DEF TierOf, Score, LengthScore, Clip

----------------------------------------------------------------------------
(* The plan of a waiting request is the one its body resolves to.          *)
PlanIsResolved ==
    \A r \in Requests :
        req[r] # Nothing => /\ req[r].body \in Bodies
                            /\ req[r].plan = Plan(req[r].body.model, req[r].body.text)

Inv == req = [r \in Requests |-> req[r]] /\ PlanIsResolved

LEMMA InitInv == Init => Inv
BY DEF Init, Inv, PlanIsResolved, Nothing

LEMMA NextInv == Inv /\ [Next]_vars => Inv'
<1> SUFFICES ASSUME Inv, [Next]_vars PROVE Inv'
    OBVIOUS
<1> USE DEF Inv, PlanIsResolved
<1>1. ASSUME NEW r \in Requests, NEW b \in Bodies, Miss(r, b) PROVE Inv'
    BY <1>1 DEF Miss, Waiting
<1>2. ASSUME NEW r \in Requests, NEW i \in DOMAIN req[r].plan, Complete(r, i) PROVE Inv'
    BY <1>2 DEF Complete
<1>3. ASSUME NEW r \in Requests, Fail(r) PROVE Inv'
    BY <1>3 DEF Fail
<1>4. ASSUME UNCHANGED req PROVE Inv'
    BY <1>4
<1> QED
    BY <1>1, <1>2, <1>3, <1>4 DEF Next, Unknown, Hit, vars

(* The texts of the bodies are texts of the model, of the kinds below.     *)
LEMMA InvTraps == Inv => TrapsHold
<1> SUFFICES ASSUME Inv, NEW r \in Requests, req[r] # Nothing, req[r].body.model = "auto"
             PROVE  /\ req[r].body.text \in LongButTrivial => req[r].plan = Chain["fast"]
                    /\ req[r].body.text \in ShortButHard => req[r].plan = Chain["smart"]
    BY DEF TrapsHold
<1> DEFINE t == req[r].body.text
<1>1. req[r].plan = Chain[Classify[t]]
    BY DEF Inv, PlanIsResolved, Plan, ResolveAuto
<1>2. ASSUME t \in LongButTrivial PROVE Classify[t] = "fast"
    <2>0. HasClauses(t) \in BOOLEAN
        BY DEF HasClauses
    <2>1. t \in Texts /\ EasyHits(t) \in Nat \ {0} /\ HardHits(t) = 0 /\ HasClauses(t) = FALSE
        BY <1>2, <2>0, HitsAreCounted DEF LongButTrivial
    <2>2. Classify[t] = TierOf(0, EasyHits(t), Len(WordsOf[t]), FALSE)
        BY <2>1 DEF Classify
    <2> QED
        BY <2>1, <2>2, TrivialStaysFast, TextsAssumption
<1>3. ASSUME t \in ShortButHard PROVE Classify[t] = "smart"
    <2>1. t \in Texts /\ HardHits(t) \in Nat \ {0} /\ EasyHits(t) = 0
        BY <1>3, HitsAreCounted DEF ShortButHard
    <2>2. Classify[t] = TierOf(HardHits(t), 0, Len(WordsOf[t]), HasClauses(t))
        BY <2>1 DEF Classify
    <2>3. HasClauses(t) \in BOOLEAN
        BY DEF HasClauses
    <2> QED
        BY <2>1, <2>2, <2>3, HardIsSmart, TextsAssumption
<1> QED
    BY <1>1, <1>2, <1>3

(* Whatever the texts and the limits are, "auto" sends the two kinds of    *)
(* traps of difficulty.py 14-17 to the tier that the comment promises.     *)
THEOREM AutoDefeatsTraps == Spec => []TrapsHold
<1>1. Spec => []Inv
    BY InitInv, NextInv, PTL DEF Spec
<1> QED
    BY <1>1, InvTraps, PTL

----------------------------------------------------------------------------
(* Similarity                                                              *)

LEMMA EmbedType ==
    ASSUME NEW t \in Texts
    PROVE  Embed[t] \in [Buckets -> Int]
<1>1. ASSUME NEW b \in Buckets, NEW sign PROVE InBucket(t, b, sign) \in Nat
  <2>1. IsFiniteSet(1..Len(WordsOf[t]))
    BY TextsAssumption, FS_Interval
  <2>2. {i \in Tokens(t) : Bucket[WordsOf[t][i]] = b /\ Sign[WordsOf[t][i]] = sign}
          \in SUBSET (1..Len(WordsOf[t]))
    BY DEF Tokens
  <2> QED
    BY <2>1, <2>2, FS_Subset, FS_CardinalityType DEF InBucket
<1> QED
  BY <1>1 DEF Embed

(* The cosine of two texts is at most one, and a text has a length.        *)
LEMMA DotFacts ==
    ASSUME NEW t \in Texts, NEW u \in Texts
    PROVE  /\ Dot[t][u] \in Int /\ Dot[t][t] \in Nat /\ Dot[u][u] \in Nat
           /\ Dot[t][u] * Dot[t][u] <= Dot[t][t] * Dot[u][u]
<1> DEFINE Product(v, w) == [b \in Buckets |-> Embed[v][b] * Embed[w][b]]
<1>1. Embed[t] \in [Buckets -> Int] /\ Embed[u] \in [Buckets -> Int]
  BY EmbedType
<1>2. /\ Dot[t][u] = SumFunction(Product(t, u))
      /\ Dot[t][t] = SumFunction(Product(t, t))
      /\ Dot[u][u] = SumFunction(Product(u, u))
  BY DEF Dot
<1>3. Product(t, u) \in [Buckets -> Int]
  BY <1>1
<1>4. SumFunction(Product(t, u)) \in Int
  <2> HIDE DEF Product
  <2> QED
    BY <1>3, SizesAssumption, SumType
<1>5. /\ SumFunction(Product(t, t)) \in Nat /\ SumFunction(Product(u, u)) \in Nat
      /\ SumFunction(Product(t, u)) * SumFunction(Product(t, u))
           <= SumFunction(Product(t, t)) * SumFunction(Product(u, u))
  BY <1>1, SizesAssumption, CauchySchwarz
<1> HIDE DEF Product
<1> QED
  BY <1>2, <1>4, <1>5

(* A text without words is similar to nothing.                             *)
LEMMA BlankHasNoLength ==
    ASSUME NEW t \in Texts, Blank(t)
    PROVE  Dot[t][t] = 0
<1>1. Tokens(t) = {}
  BY DEF Blank, Tokens
<1>2. ASSUME NEW b \in Buckets PROVE Embed[t][b] = 0
  <2>1. InBucket(t, b, 1) = 0 /\ InBucket(t, b, -1) = 0
    BY <1>1, FS_EmptySet DEF InBucket
  <2> QED
    BY <2>1 DEF Embed
<1>3. [b \in Buckets |-> Embed[t][b] * Embed[t][b]] = [b \in Buckets |-> 0]
  BY <1>2
<1>4. Dot[t][t] = SumFunction([b \in Buckets |-> 0])
  BY <1>3 DEF Dot
<1> QED
  BY <1>4, SizesAssumption, SumOfZeros

LEMMA Cancelled ==
    ASSUME NEW m \in Nat, NEW p \in Int, NEW q \in Int, m * p > m * q
    PROVE  p > q
<1> SUFFICES ASSUME p <= q PROVE FALSE
  OBVIOUS
<1>1. m * p <= m * q
  BY Scaled
<1>2. m * p \in Int /\ m * q \in Int
  OBVIOUS
<1> QED
  BY <1>1, <1>2

(* a / t, b / u and c / v are three squared cosines.                       *)
LEMMA QuotientsInOrder ==
    ASSUME NEW a \in Nat, NEW b \in Nat, NEW c \in Nat,
           NEW t \in Nat \ {0}, NEW u \in Nat \ {0}, NEW v \in Nat
    PROVE  /\ a * v > c * t /\ a * u <= b * t => b * v > c * u
           /\ a * u > b * t /\ b * v > c * u => a * v > c * t
<1>1. ASSUME a * v > c * t, a * u <= b * t PROVE b * v > c * u
  <2>1. v * (a * u) <= v * (b * t)
    BY <1>1, Scaled
  <2>2. u * (c * t) < u * (a * v)
    <3>1. u * (c * t + 1) <= u * (a * v)
      BY <1>1, Scaled
    <3> DEFINE x == c * t
               y == u * (a * v)
    <3>2. x \in Nat /\ u * (x + 1) = u * x + u /\ u * x \in Int /\ y \in Int
      OBVIOUS
    <3> HIDE DEF x, y
    <3>3. u * x < y
      BY <3>1, <3>2 DEF x, y
    <3> QED
      BY <3>3 DEF x, y
  <2>3. v * (a * u) = u * (a * v) /\ v * (b * t) = t * (b * v) /\ u * (c * t) = t * (c * u)
    OBVIOUS
  <2>4. t * (b * v) \in Int /\ t * (c * u) \in Int /\ u * (a * v) \in Int
    OBVIOUS
  <2>5. t * (b * v) > t * (c * u)
    BY <2>1, <2>2, <2>3, <2>4
  <2> QED
    BY <2>5, Cancelled
<1>2. ASSUME a * u > b * t, b * v > c * u, ~(a * v > c * t) PROVE FALSE
  <2>1. a * v <= c * t
    BY <1>2
  <2>2. u * (a * v) <= u * (c * t)
    BY <2>1, Scaled
  <2>3. v * (b * t) <= v * (a * u)
    BY <1>2, Scaled
  <2>4. t * (c * u) < t * (b * v)
    <3>1. t * (c * u + 1) <= t * (b * v)
      BY <1>2, Scaled
    <3> DEFINE x == c * u
               y == t * (b * v)
    <3>2. x \in Nat /\ t * (x + 1) = t * x + t /\ t * x \in Int /\ y \in Int
      OBVIOUS
    <3> HIDE DEF x, y
    <3>3. t * x < y
      BY <3>1, <3>2 DEF x, y
    <3> QED
      BY <3>3 DEF x, y
  <2>5. v * (a * u) = u * (a * v) /\ v * (b * t) = t * (b * v) /\ u * (c * t) = t * (c * u)
    OBVIOUS
  <2>6. t * (b * v) \in Int /\ t * (c * u) \in Int /\ u * (a * v) \in Int
    OBVIOUS
  <2> QED
    BY <2>2, <2>3, <2>4, <2>5, <2>6
<1> QED
  BY <1>1, <1>2

(* A text that is similar to another one has a length.                     *)
LEMMA SimilarHasLength ==
    ASSUME NEW q \in Texts, NEW t \in Texts, Dot[q][t] > 0
    PROVE  Dot[q][q] > 0 /\ Dot[t][t] > 0 /\ Dot[q][t] * Dot[q][t] \in Nat
<1>1. /\ Dot[q][t] \in Int /\ Dot[q][q] \in Nat /\ Dot[t][t] \in Nat
      /\ Dot[q][t] * Dot[q][t] <= Dot[q][q] * Dot[t][t]
  BY DotFacts
<1>2. Dot[q][t] * Dot[q][t] \in Nat /\ Dot[q][t] * Dot[q][t] > 0
  BY <1>1
<1>3. CASE Dot[q][q] = 0
  BY <1>1, <1>2, <1>3
<1>4. CASE Dot[t][t] = 0
  BY <1>1, <1>2, <1>4
<1> QED
  BY <1>1, <1>2, <1>3, <1>4

(* "Nearer" is an order in which two texts that are not apart are          *)
(* interchangeable.                                                        *)
LEMMA NearerOrder ==
    ASSUME NEW q \in Texts, NEW t \in Texts, NEW u \in Texts, NEW v \in Texts
    PROVE  /\ Nearer(q, t, v) /\ Dot[q][u] > 0 /\ ~Nearer(q, t, u) => Nearer(q, u, v)
           /\ Nearer(q, t, u) /\ Nearer(q, u, v) => Nearer(q, t, v)
<1>1. /\ Dot[q][t] \in Int /\ Dot[q][u] \in Int /\ Dot[q][v] \in Int
      /\ Dot[t][t] \in Nat /\ Dot[u][u] \in Nat /\ Dot[v][v] \in Nat
  BY DotFacts
<1> SUFFICES ASSUME Dot[q][t] > 0, Dot[q][u] > 0
             PROVE  /\ Nearer(q, t, v) /\ ~Nearer(q, t, u) => Nearer(q, u, v)
                    /\ Nearer(q, t, u) /\ Nearer(q, u, v) => Nearer(q, t, v)
  BY DEF Nearer
<1> DEFINE a == Dot[q][t] * Dot[q][t]
           b == Dot[q][u] * Dot[q][u]
           c == Dot[q][v] * Dot[q][v]
<1>2. a \in Nat /\ b \in Nat /\ c \in Nat
  BY <1>1, SquareIsNat
<1>3. Dot[t][t] \in Nat \ {0} /\ Dot[u][u] \in Nat \ {0}
  BY <1>1, SimilarHasLength
<1>4. /\ Nearer(q, t, v) <=> a * Dot[v][v] > c * Dot[t][t]
      /\ Nearer(q, t, u) <=> a * Dot[u][u] > b * Dot[t][t]
      /\ Nearer(q, u, v) <=> b * Dot[v][v] > c * Dot[u][u]
  BY DEF Nearer
<1> HIDE DEF a, b, c
<1>5. a * Dot[u][u] \in Int /\ b * Dot[t][t] \in Int
  BY <1>1, <1>2
<1>6. /\ a * Dot[v][v] > c * Dot[t][t] /\ a * Dot[u][u] <= b * Dot[t][t]
           => b * Dot[v][v] > c * Dot[u][u]
      /\ a * Dot[u][u] > b * Dot[t][t] /\ b * Dot[v][v] > c * Dot[u][u]
           => a * Dot[v][v] > c * Dot[t][t]
  BY <1>1, <1>2, <1>3, QuotientsInOrder
<1> QED
  BY <1>4, <1>5, <1>6

(* No text is nearer to a text than the text itself, and what is as near   *)
(* is similar enough.                                                      *)
LEMMA NothingIsNearer ==
    ASSUME NEW q \in Texts, NEW t \in Texts, Dot[q][q] > 0
    PROVE  /\ ~Nearer(q, t, q)
           /\ Dot[q][t] > 0 /\ ~Nearer(q, q, t) => SimilarEnough(q, t)
<1> DEFINE n == Dot[q][q]
           p == Dot[q][t] * Dot[q][t]
           l == Dot[t][t]
<1>1. /\ Dot[q][t] \in Int /\ n \in Nat \ {0} /\ p \in Nat /\ l \in Nat
      /\ p <= n * l
  BY DotFacts, SquareIsNat
<1>2. n * p <= n * (n * l)
  <2> HIDE DEF n, p, l
  <2> QED
    BY <1>1, Scaled
<1>3. p * n = n * p /\ n * n * l = n * (n * l)
  <2> HIDE DEF n, p, l
  <2> QED
    BY <1>1
<1>4. ~Nearer(q, t, q)
  BY <1>1, <1>2, <1>3 DEF Nearer
<1>5. ASSUME Dot[q][t] > 0, ~Nearer(q, q, t) PROVE SimilarEnough(q, t)
  <2>1. ~(n * n * l > p * n)
    BY <1>1, <1>5 DEF Nearer
  <2> HIDE DEF n, p, l
  <2>2. p >= n * l /\ n * l \in Nat
    <3>1. n * l \in Nat /\ n * (n * l) \in Int /\ n * p \in Int
      BY <1>1
    <3>2. ~(n * (n * l) > n * p)
      BY <1>3, <2>1
    <3>3. ASSUME p < n * l PROVE FALSE
      <4>1. n * (p + 1) <= n * (n * l)
        BY <1>1, <3>1, <3>3, Scaled
      <4>2. n * (p + 1) = n * p + n
        BY <1>1
      <4> QED
        BY <1>1, <3>1, <3>2, <4>1, <4>2
    <3> QED
      BY <1>1, <3>1, <3>3
  <2>3. 400 * p >= 121 * (n * l)
    <3> DEFINE x == n * l
    <3> HIDE DEF x
    <3>1. p >= x /\ x \in Nat
      BY <2>2 DEF x
    <3>2. 400 * p >= 121 * x
      BY <1>1, <3>1
    <3> QED
      BY <3>2 DEF x
  <2>4. 400 * Dot[q][t] * Dot[q][t] = 400 * p /\ 121 * Dot[q][q] * Dot[t][t] = 121 * (n * l)
    BY <1>1 DEF n, p, l
  <2> QED
    BY <1>5, <2>3, <2>4 DEF SimilarEnough
<1> QED
  BY <1>4, <1>5

(* What is nearer than something similar enough is similar enough.         *)
LEMMA NearerIsSimilar ==
    ASSUME NEW q \in Texts, NEW t \in Texts, NEW u \in Texts,
           Nearer(q, t, u), SimilarEnough(q, u)
    PROVE  SimilarEnough(q, t)
<1> DEFINE a == Dot[q][t] * Dot[q][t]
           b == Dot[q][u] * Dot[q][u]
           n == Dot[q][q]
           l == Dot[t][t]
           m == Dot[u][u]
<1>1. /\ Dot[q][t] \in Int /\ Dot[q][u] \in Int
      /\ a \in Nat /\ b \in Nat /\ n \in Nat /\ l \in Nat /\ m \in Nat
  BY DotFacts, SquareIsNat
<1>2. a * m > b * l /\ Dot[q][t] > 0
  BY DEF Nearer
<1>3. 400 * b >= 121 * (n * m)
  <2>1. 400 * Dot[q][u] * Dot[q][u] = 400 * b /\ 121 * Dot[q][q] * Dot[u][u] = 121 * (n * m)
    BY <1>1
  <2> QED
    BY <2>1 DEF SimilarEnough
<1>4. 400 * a > 121 * (n * l)
  <2> HIDE DEF a, b, n, l, m
  <2>1. l * (121 * (n * m)) <= l * (400 * b)
    BY <1>1, <1>3, Scaled
  <2>2. 400 * (b * l) < 400 * (a * m)
    BY <1>1, <1>2
  <2>3. /\ l * (400 * b) = 400 * (b * l) /\ 400 * (a * m) = m * (400 * a)
        /\ l * (121 * (n * m)) = m * (121 * (n * l))
    BY <1>1
  <2>4. m * (400 * a) > m * (121 * (n * l))
    BY <1>1, <2>1, <2>2, <2>3
  <2> QED
    BY <1>1, <2>4, Cancelled
<1>5. 400 * Dot[q][t] * Dot[q][t] = 400 * a /\ 121 * Dot[q][q] * Dot[t][t] = 121 * (n * l)
  BY <1>1
<1> QED
  BY <1>1, <1>2, <1>4, <1>5 DEF SimilarEnough

----------------------------------------------------------------------------
(* The loop of cache.py 36-43, and what it ends with                       *)

LEMMA LeastNumber ==
    ASSUME NEW I, I \subseteq Nat, I # {}
    PROVE  \E x \in I : \A y \in I : x <= y
<1> DEFINE R == {ss \in Nat \X Nat : ss[1] < ss[2]}
<1>1. IsWellFoundedOn(R, Nat)
  BY NatLessThanWellFounded DEF OpToRel
<1>2. PICK x \in I : \A y \in I : ~(<<y, x>> \in R)
  <2> HIDE DEF R
  <2> QED
    BY <1>1, WFMin
<1>3. ASSUME NEW y \in I PROVE x <= y
  <2>1. x \in Nat /\ y \in Nat /\ <<y, x>> \notin R
    BY <1>2
  <2>2. ~(y < x)
    BY <2>1
  <2> QED
    BY <2>1, <2>2
<1> QED
  BY <1>3

(* g[i] is the best row after the first i rows.                            *)
IsLoop(g, q, table, rows, n) ==
    g = [i \in 0..n |->
            IF i = 0 THEN 0
            ELSE IF i \in rows /\ Replaces(q, table, i, g[i - 1]) THEN i ELSE g[i - 1]]

LEMMA LoopEnds ==
    ASSUME NEW q, NEW table, NEW rows, NEW n \in Nat
    PROVE  \E g : IsLoop(g, q, table, rows, n)
<1> DEFINE I == {m \in Nat : ~ \E g : IsLoop(g, q, table, rows, m)}
<1> SUFFICES ASSUME I # {} PROVE FALSE
  OBVIOUS
<1>1. PICK m \in I : \A k \in I : m <= k
  <2>1. I \subseteq Nat
    OBVIOUS
  <2> HIDE DEF I
  <2> QED
    BY <2>1, LeastNumber
<1>2. m # 0
  <2>1. [i \in 0..0 |-> 0][0] = 0 /\ \A i \in 0..0 : i = 0
    OBVIOUS
  <2>2. IsLoop([i \in 0..0 |-> 0], q, table, rows, 0)
    BY <2>1 DEF IsLoop
  <2> QED
    BY <2>2
<1>3. m \in Nat /\ m - 1 \in Nat /\ ~(m <= m - 1)
  BY <1>2
<1>4. PICK f : IsLoop(f, q, table, rows, m - 1)
  BY <1>1, <1>3
<1> DEFINE g == [i \in 0..m |->
                    IF i < m THEN f[i]
                    ELSE IF m \in rows /\ Replaces(q, table, m, f[m - 1]) THEN m ELSE f[m - 1]]
<1>5. ASSUME NEW i \in 0..m
      PROVE  g[i] = IF i = 0 THEN 0
                    ELSE IF i \in rows /\ Replaces(q, table, i, g[i - 1]) THEN i ELSE g[i - 1]
  <2>1. CASE i = m
    <3>1. g[i - 1] = f[m - 1]
      BY <1>3, <2>1
    <3> QED
      BY <1>2, <1>3, <2>1, <3>1
  <2>2. CASE i # m
    <3>1. i \in 0..(m - 1) /\ i < m
      BY <1>3, <2>2
    <3>2. f[i] = IF i = 0 THEN 0
                 ELSE IF i \in rows /\ Replaces(q, table, i, f[i - 1]) THEN i ELSE f[i - 1]
      BY <1>4, <3>1 DEF IsLoop
    <3>3. g[i] = f[i]
      BY <3>1
    <3>4. i # 0 => g[i - 1] = f[i - 1]
      BY <1>3, <3>1
    <3> QED
      BY <3>2, <3>3, <3>4
  <2> QED
    BY <2>1, <2>2
<1>6. IsLoop(g, q, table, rows, m)
  <2> DEFINE h == [i \in 0..m |->
                      IF i = 0 THEN 0
                      ELSE IF i \in rows /\ Replaces(q, table, i, g[i - 1]) THEN i ELSE g[i - 1]]
  <2>1. g = [i \in 0..m |-> g[i]]
    OBVIOUS
  <2>2. h = [i \in 0..m |-> h[i]] /\ \A i \in 0..m : g[i] = h[i]
    BY <1>5
  <2>3. g = h
    <3> HIDE DEF g, h
    <3> QED
      BY <2>1, <2>2
  <2> QED
    BY <2>3 DEF IsLoop
<1> QED
  BY <1>1, <1>6

(* No row of the first n is nearer than the best one, and none as near as  *)
(* the best one comes before it.                                           *)
BestSoFar(b, q, table, rows, n) ==
    /\ b \in 0..n
    /\ b = 0 => \A i \in rows : i <= n => ~(Dot[q][table[i].text] > 0)
    /\ b # 0 => /\ b \in rows /\ Dot[q][table[b].text] > 0
                /\ \A i \in rows : i <= n => ~Nearer(q, table[i].text, table[b].text)
                /\ \A i \in rows : i < b /\ Dot[q][table[i].text] > 0
                                     => Nearer(q, table[b].text, table[i].text)

LEMMA NotNearerToItself ==
    ASSUME NEW q \in Texts, NEW t \in Texts
    PROVE  ~Nearer(q, t, t)
<1>1. PICK x, y : x = Dot[q][t] /\ y = Dot[t][t]
  OBVIOUS
<1>2. x \in Int /\ y \in Int
  BY <1>1, DotFacts
<1>3. x * x * y \in Int
  BY <1>2
<1>4. ~(x * x * y > x * x * y)
  BY <1>3
<1> QED
  BY <1>1, <1>4 DEF Nearer

LEMMA LoopStep ==
    ASSUME NEW q \in Texts, NEW table, NEW rows, rows \subseteq Nat \ {0},
           \A i \in rows : table[i].text \in Texts,
           NEW m \in Nat \ {0}, NEW a, BestSoFar(a, q, table, rows, m - 1),
           NEW b, b = IF m \in rows /\ Replaces(q, table, m, a) THEN m ELSE a
    PROVE  BestSoFar(b, q, table, rows, m)
<1>0. /\ a \in 0..(m - 1) /\ a \in 0..m /\ m \in 0..m /\ a # m
      /\ \A i \in rows : i \in Nat /\ (i <= m <=> i <= m - 1 \/ i = m) /\ (i < m <=> i <= m - 1)
  BY DEF BestSoFar
<1>1. CASE m \notin rows
  <2>1. b = a
    BY <1>1
  <2> QED
    BY <1>0, <1>1, <2>1 DEF BestSoFar
<1>2. CASE m \in rows /\ a = 0
  <2>1. CASE Dot[q][table[m].text] > 0
    <3>1. b = m /\ m # 0
      BY <1>2, <2>1 DEF Replaces
    <3>2. \A i \in rows : i <= m - 1 => ~(Dot[q][table[i].text] > 0)
      BY <1>2 DEF BestSoFar
    <3>3. \A i \in rows : i <= m => ~Nearer(q, table[i].text, table[m].text)
      <4>1. ~Nearer(q, table[m].text, table[m].text)
        BY <1>2, NotNearerToItself
      <4> QED
        BY <1>0, <3>2, <4>1 DEF Nearer
    <3> QED
      BY <1>0, <1>2, <2>1, <3>1, <3>2, <3>3 DEF BestSoFar
  <2>2. CASE ~(Dot[q][table[m].text] > 0)
    <3>1. b = 0
      BY <1>2, <2>2 DEF Replaces
    <3> QED
      BY <1>0, <1>2, <2>2, <3>1 DEF BestSoFar
  <2> QED
    BY <2>1, <2>2
<1>3. CASE m \in rows /\ a # 0
  <2>1. /\ a \in rows /\ Dot[q][table[a].text] > 0
        /\ \A i \in rows : i <= m - 1 => ~Nearer(q, table[i].text, table[a].text)
        /\ \A i \in rows : i < a /\ Dot[q][table[i].text] > 0
                             => Nearer(q, table[a].text, table[i].text)
    BY <1>3 DEF BestSoFar
  <2>2. CASE Nearer(q, table[m].text, table[a].text)
    <3>1. b = m
      BY <1>3, <2>2 DEF Replaces
    <3>2. Dot[q][table[m].text] > 0
      BY <2>2 DEF Nearer
    <3>3. ASSUME NEW i \in rows, i <= m PROVE ~Nearer(q, table[i].text, table[m].text)
      <4>1. CASE i = m
        BY <4>1, NotNearerToItself
      <4>2. CASE i <= m - 1
        <5>1. ~Nearer(q, table[i].text, table[a].text)
          BY <2>1, <4>2
        <5> QED
          BY <1>3, <2>1, <2>2, <5>1, NearerOrder
      <4> QED
        BY <1>0, <3>3, <4>1, <4>2
    <3>4. ASSUME NEW i \in rows, i < m, Dot[q][table[i].text] > 0
          PROVE  Nearer(q, table[m].text, table[i].text)
      <4>1. ~Nearer(q, table[i].text, table[a].text)
        BY <1>0, <2>1, <3>4
      <4> QED
        BY <1>3, <2>1, <2>2, <3>4, <4>1, NearerOrder
    <3> QED
      BY <1>0, <1>3, <3>1, <3>2, <3>3, <3>4 DEF BestSoFar
  <2>3. CASE ~Nearer(q, table[m].text, table[a].text)
    <3>1. b = a
      BY <1>3, <2>3 DEF Replaces
    <3>2. \A i \in rows : i <= m => ~Nearer(q, table[i].text, table[a].text)
      BY <1>0, <2>1, <2>3
    <3> QED
      BY <1>0, <1>3, <2>1, <3>1, <3>2 DEF BestSoFar
  <2> QED
    BY <2>2, <2>3
<1> QED
  BY <1>1, <1>2, <1>3

LEMMA LoopInvariant ==
    ASSUME NEW q \in Texts, NEW table, NEW rows, rows \subseteq Nat \ {0},
           \A i \in rows : table[i].text \in Texts,
           NEW n \in Nat, NEW g, IsLoop(g, q, table, rows, n)
    PROVE  \A i \in 0..n : BestSoFar(g[i], q, table, rows, i)
<1> DEFINE I == {i \in 0..n : ~BestSoFar(g[i], q, table, rows, i)}
<1> SUFFICES ASSUME I # {} PROVE FALSE
  OBVIOUS
<1>1. PICK m \in I : \A k \in I : m <= k
  <2>1. I \subseteq Nat
    OBVIOUS
  <2> HIDE DEF I
  <2> QED
    BY <2>1, LeastNumber
<1>2. m \in 0..n
  OBVIOUS
<1>3. g[m] = IF m = 0 THEN 0
             ELSE IF m \in rows /\ Replaces(q, table, m, g[m - 1]) THEN m ELSE g[m - 1]
  BY <1>2 DEF IsLoop
<1>4. CASE m = 0
  <2>1. \A i \in rows : ~(i <= 0)
    OBVIOUS
  <2>2. BestSoFar(g[0], q, table, rows, 0)
    BY <1>3, <1>4, <2>1 DEF BestSoFar
  <2> QED
    BY <1>4, <2>2
<1>5. CASE m # 0
  <2>1. m \in Nat \ {0} /\ m - 1 \in 0..n /\ ~(m <= m - 1)
    BY <1>2, <1>5
  <2>2. BestSoFar(g[m - 1], q, table, rows, m - 1)
    BY <1>1, <2>1
  <2>3. g[m] = IF m \in rows /\ Replaces(q, table, m, g[m - 1]) THEN m ELSE g[m - 1]
    BY <1>3, <1>5
  <2>4. BestSoFar(g[m], q, table, rows, m)
    BY <2>1, <2>2, <2>3, LoopStep
  <2> QED
    BY <2>4
<1> QED
  BY <1>4, <1>5

(* The rows with the greatest similarity, if it is greater than 0.         *)
Nearest(q, table, rows) ==
    {i \in rows : /\ Dot[q][table[i].text] > 0
                  /\ \A j \in rows : ~Nearer(q, table[j].text, table[i].text)}

(* The loop of lookup ends with the first of the rows that are nearest to  *)
(* the text, in a table of any length and for any texts (cache.py 36-43).  *)
THEOREM LoopFindsFirst ==
    ASSUME NEW q \in Texts, NEW table \in Seq(Entries), NEW rows \in SUBSET (1..Len(table))
    PROVE  LET best == Best(q, table, rows)
               nearest == Nearest(q, table, rows)
           IN  IF nearest = {} THEN best = 0
                               ELSE best \in nearest /\ \A i \in nearest : best <= i
<1> DEFINE n == Len(table)
           nearest == Nearest(q, table, rows)
<1>0. /\ n \in Nat /\ rows \subseteq Nat \ {0}
      /\ \A i \in rows : i \in 1..n /\ i <= n
  OBVIOUS
<1>1. ASSUME NEW i \in rows PROVE table[i].text \in Texts
  <2>1. table[i] \in Entries
    OBVIOUS
  <2> QED
    BY <2>1 DEF Entries
<1>2. PICK g : IsLoop(g, q, table, rows, n) /\ Best(q, table, rows) = g[n]
  <2>1. Best(q, table, rows) = (CHOOSE g : IsLoop(g, q, table, rows, n))[n]
    BY DEF Best, IsLoop
  <2> HIDE DEF n
  <2> QED
    BY <1>0, <2>1, LoopEnds
<1> DEFINE b == g[n]
<1>3. BestSoFar(b, q, table, rows, n)
  <2>1. \A i \in 0..n : BestSoFar(g[i], q, table, rows, i)
    <3> HIDE DEF n
    <3> QED
      BY <1>0, <1>1, <1>2, LoopInvariant
  <2> QED
    BY <1>0, <2>1
<1> HIDE DEF b, n
<1>4. CASE b = 0
  <2>1. nearest = {}
    BY <1>0, <1>3, <1>4 DEF BestSoFar, Nearest
  <2> QED
    BY <1>2, <1>4, <2>1 DEF b
<1>5. CASE b # 0
  <2>1. b \in nearest
    BY <1>0, <1>3, <1>5 DEF BestSoFar, Nearest
  <2>2. ASSUME NEW i \in nearest PROVE b <= i
    <3>1. i \in rows /\ Dot[q][table[i].text] > 0 /\ ~Nearer(q, table[b].text, table[i].text)
      BY <2>1 DEF Nearest
    <3>2. ~(i < b)
      BY <1>3, <1>5, <3>1 DEF BestSoFar
    <3>3. i \in Nat /\ b \in Nat
      BY <1>0, <1>3, <3>1 DEF BestSoFar
    <3> QED
      BY <3>2, <3>3
  <2> QED
    BY <1>2, <2>1, <2>2 DEF b
<1> QED
  BY <1>4, <1>5

(* What a lookup finds is the first of the nearest rows, and similar       *)
(* enough; it finds nothing only when that row is not.                     *)
LEMMA FindFacts ==
    ASSUME NEW table \in Seq(Entries), NEW time, NEW who, NEW q \in Texts
    PROVE  LET nearest == Nearest(q, table, Rows(table, time, who))
               found == Find(table, time, who, q)
           IN  /\ nearest \subseteq 1..Len(table)
               /\ found # 0 => /\ ~Blank(q) /\ found \in nearest
                               /\ \A i \in nearest : found <= i
                               /\ SimilarEnough(q, table[found].text)
               /\ ~Blank(q) /\ (\A i \in nearest : SimilarEnough(q, table[i].text))
                    /\ nearest # {} => found # 0
               /\ ~Blank(q) => \A i \in nearest : (\A j \in nearest : i <= j)
                                 /\ SimilarEnough(q, table[i].text) => found = i
<1> DEFINE rows == Rows(table, time, who)
           nearest == Nearest(q, table, rows)
           best == Best(q, table, rows)
           found == Find(table, time, who, q)
<1>1. rows \in SUBSET (1..Len(table)) /\ Len(table) \in Nat
  BY DEF Rows
<1>2. nearest \subseteq 1..Len(table) /\ 0 \notin nearest /\ \A x \in nearest : x \in Int
  BY <1>1 DEF Nearest
<1>3. IF nearest = {} THEN best = 0
                      ELSE best \in nearest /\ \A i \in nearest : best <= i
  BY <1>1, LoopFindsFirst
<1>4. found = IF ~Blank(q) /\ best # 0 /\ SimilarEnough(q, table[best].text) THEN best ELSE 0
  BY DEF Find
<1> HIDE DEF rows, nearest, best, found
<1>5. /\ found # 0 => /\ ~Blank(q) /\ found \in nearest
                      /\ \A i \in nearest : found <= i
                      /\ SimilarEnough(q, table[found].text)
      /\ ~Blank(q) /\ (\A i \in nearest : SimilarEnough(q, table[i].text))
           /\ nearest # {} => found # 0
  BY <1>2, <1>3, <1>4
<1>6. ASSUME ~Blank(q), NEW i \in nearest, \A j \in nearest : i <= j,
             SimilarEnough(q, table[i].text)
      PROVE  found = i
  <2>1. best \in nearest /\ best <= i /\ i <= best
    BY <1>3, <1>6
  <2>2. best \in Int /\ i \in Int
    BY <1>2, <2>1
  <2>3. best = i
    BY <2>1, <2>2
  <2> QED
    BY <1>2, <1>4, <1>6, <2>3
<1> QED
  BY <1>2, <1>5, <1>6 DEF nearest, rows, found

(* A body that has a live copy of itself in its tenant's cache is answered *)
(* from the cache.                                                         *)
LEMMA CopiesAreFound ==
    ASSUME entries \in Seq(Entries), NEW b \in Bodies, Dot[b.text][b.text] > 0,
           NEW i \in Copies(b)
    PROVE  Lookup(tenant(b), b.text) # 0
<1> DEFINE q == b.text
           rows == Rows(entries, now, tenant(b))
           nearest == Nearest(q, entries, rows)
<1>1. q \in Texts /\ ~Blank(q)
  <2>1. q \in Texts
    BY BodiesAssumption DEF BodiesAssumption
  <2>2. Blank(q) => Dot[q][q] = 0
    BY <2>1, BlankHasNoLength
  <2> QED
    BY <2>1, <2>2
<1>2. \A j \in rows : entries[j].text \in Texts
  <2> SUFFICES ASSUME NEW j \in rows PROVE entries[j].text \in Texts
    OBVIOUS
  <2>1. j \in 1..Len(entries)
    BY DEF Rows
  <2>2. entries[j] \in Entries
    BY <2>1
  <2> QED
    BY <2>2 DEF Entries
<1>3. i \in rows /\ entries[i].text = q
  BY DEF Copies, Rows, Live
<1>4. i \in nearest
  <2>1. \A j \in rows : ~Nearer(q, entries[j].text, q)
    <3> HIDE DEF rows
    <3> QED
      BY <1>1, <1>2, NothingIsNearer
  <2> QED
    BY <1>3, <2>1 DEF Nearest
<1>5. ASSUME NEW j \in nearest PROVE SimilarEnough(q, entries[j].text)
  <2>1. Dot[q][entries[j].text] > 0 /\ ~Nearer(q, q, entries[j].text) /\ j \in rows
    BY <1>3 DEF Nearest
  <2> QED
    BY <1>1, <1>2, <2>1, NothingIsNearer
<1> QED
  BY <1>1, <1>4, <1>5, FindFacts DEF Lookup

----------------------------------------------------------------------------
(* Types                                                                   *)

LEMMA PlanType ==
    ASSUME NEW b \in Bodies
    PROVE  Plan(b.model, b.text) \in Seq(Models)
<1>1. ResolveCandidates(b.model) \in Seq(Models)
  <2>1. CASE b.model \in DOMAIN Chain
    BY <2>1, ChainAssumption DEF ChainAssumption, ResolveCandidates
  <2>2. CASE b.model \in Models \ DOMAIN Chain
    BY <2>2 DEF ResolveCandidates
  <2>3. CASE b.model \notin Models \cup DOMAIN Chain
    BY <2>3 DEF ResolveCandidates
  <2> QED
    BY <2>1, <2>2, <2>3
<1>2. ResolveAuto(b.text) \in Seq(Models)
  <2>1. Classify[b.text] \in Tiers
    BY BodiesAssumption DEF BodiesAssumption, Classify, TierOf, Tiers
  <2> QED
    BY <2>1, ChainAssumption DEF ChainAssumption, ResolveAuto
<1> QED
  BY <1>1, <1>2 DEF Plan

(* Every row of the cache is of a tenant, a text and a model of the        *)
(* gateway, and every plan names models only, for any chains and prices.   *)
TypeInv == Inv /\ TypeOK

LEMMA TypeStep == TypeInv /\ [Next]_vars => TypeInv'
<1> SUFFICES ASSUME TypeInv, [Next]_vars PROVE TypeOK'
  BY NextInv DEF TypeInv
<1>0. /\ now \in 0..MaxNow /\ MaxNow \in Nat /\ Ttl \in Nat /\ MaxEntries \in Nat
      /\ entries \in Seq(Entries) /\ Len(entries) <= MaxEntries
      /\ req = [r \in Requests |-> req[r]]
  BY SizesAssumption DEF SizesAssumption, TypeInv, TypeOK, Inv
<1> DEFINE Typed(q) == \/ q = Nothing
                       \/ q.body \in Bodies /\ q.plan \in Seq(Models) \ {<<>>}
<1>1. \A r \in Requests : Typed(req[r])
  BY DEF TypeInv, TypeOK
<1>2. ASSUME NEW r \in Requests, NEW b \in Bodies, Miss(r, b) PROVE TypeOK'
  <2>1. Typed(Waiting(b))
    BY <1>2, PlanType DEF Miss, Resolves, Waiting
  <2>2. UNCHANGED cache /\ req' = [req EXCEPT ![r] = Waiting(b)]
    BY <1>2 DEF Miss
  <2>3. \A s \in Requests : Typed(req'[s])
    <3> HIDE DEF Typed
    <3> QED
      BY <1>0, <1>1, <2>1, <2>2
  <2> QED
    BY <1>0, <2>2, <2>3 DEF TypeOK, cache
<1>3. ASSUME NEW r \in Requests, NEW i \in DOMAIN req[r].plan, Complete(r, i) PROVE TypeOK'
  <2>1. req[r].body \in Bodies /\ req[r].plan \in Seq(Models)
    BY <1>1, <1>3 DEF Nothing
  <2>2. /\ tenant(req[r].body) \in {TenantOf[k] : k \in Keys}
        /\ req[r].body.text \in Texts
        /\ AnsweringModel(r, i) \in Models
    BY <1>3, <2>1, BodiesAssumption DEF BodiesAssumption, tenant, AnsweringModel
  <2>3. now' = now /\ now + Ttl \in Ttl..MaxNow + Ttl
    BY <1>0, <1>3 DEF Complete, Store
  <2>4. entries' \in Seq(Entries) /\ Len(entries') <= MaxEntries
    <3> DEFINE e == [tenant |-> tenant(req[r].body), text |-> req[r].body.text,
                     model |-> AnsweringModel(r, i), expires |-> now + Ttl]
    <3>1. e \in Entries
      BY <2>2, <2>3 DEF Entries
    <3>2. Len(entries) < MaxEntries /\ (entries' = entries \/ entries' = Append(entries, e))
      BY <1>3 DEF Complete, Store
    <3> HIDE DEF e
    <3> QED
      BY <1>0, <3>1, <3>2
  <2>5. \A s \in Requests : req'[s] = req[s] \/ req'[s] = Nothing
    BY <1>0, <1>3 DEF Complete
  <2> QED
    BY <1>0, <1>1, <2>3, <2>4, <2>5 DEF TypeOK
<1>4. ASSUME NEW r \in Requests, Fail(r) PROVE TypeOK'
  BY <1>0, <1>1, <1>4 DEF Fail, TypeOK, cache
<1>5. CASE Tick /\ UNCHANGED req
  BY <1>0, <1>1, <1>5 DEF Tick, TypeOK
<1>6. CASE UNCHANGED vars
  BY <1>0, <1>1, <1>6 DEF TypeOK, vars, cache
<1> QED
  BY <1>2, <1>3, <1>4, <1>5, <1>6 DEF Next, Unknown, Hit

LEMMA TypeInvariance == Spec => []TypeInv
<1>1. Init => TypeOK
  <2>1. <<>> \in Seq(Entries) /\ Len(<<>>) = 0
    OBVIOUS
  <2>2. MaxNow \in Nat /\ MaxEntries \in Nat
    BY SizesAssumption DEF SizesAssumption
  <2> QED
    BY <2>1, <2>2 DEF Init, CacheInit, TypeOK
<1> QED
  BY <1>1, InitInv, TypeStep, PTL DEF Spec, TypeInv

(* The cache holds rows of the gateway's tenants, texts and models only,   *)
(* whoever asked for what: a plan never reaches beyond the price table.    *)
THEOREM TypeCorrect == Spec => []TypeOK
BY TypeInvariance, PTL DEF TypeInv

----------------------------------------------------------------------------
(* Copies                                                                  *)

(* The requests that will store what b would store, if they are answered.  *)
Askers(b) ==
    {r \in Requests : /\ req[r] # Nothing
                      /\ tenant(req[r].body) = tenant(b) /\ req[r].body.text = b.text}

(* Who waits for the answer to a text has not stored it yet.               *)
RoomForAskers ==
    \A b \in Bodies :
        Dot[b.text][b.text] > 0
            => Cardinality(Copies(b)) + Cardinality(Askers(b)) <= Cardinality(Requests)

(* The requests served at the same time and the rows of a table can be     *)
(* counted.                                                                *)
LEMMA CountsAreFinite ==
    ASSUME TypeInv, NEW b \in Bodies
    PROVE  /\ IsFiniteSet(Copies(b)) /\ IsFiniteSet(Askers(b))
           /\ Cardinality(Copies(b)) \in Nat
           /\ Cardinality(Askers(b)) \in Nat
           /\ Cardinality(Requests) \in Nat /\ Cardinality(Askers(b)) <= Cardinality(Requests)
<1>1. IsFiniteSet(DOMAIN entries) /\ Copies(b) \in SUBSET DOMAIN entries
  <2>1. DOMAIN entries = 1..Len(entries) /\ Len(entries) \in Nat
    BY DEF TypeInv, TypeOK
  <2> QED
    BY <2>1, FS_Interval DEF Copies
<1>2. Askers(b) \in SUBSET Requests
  BY DEF Askers
<1> QED
  BY <1>1, <1>2, RequestsAssumption, FS_Subset, FS_CardinalityType

LEMMA FewerTakeLessRoom ==
    ASSUME NEW C, NEW A, NEW n \in Nat, IsFiniteSet(C), IsFiniteSet(A),
           Cardinality(C) + Cardinality(A) <= n,
           NEW D \in SUBSET C, NEW B \in SUBSET A
    PROVE  Cardinality(D) + Cardinality(B) <= n
<1>1. /\ Cardinality(D) \in Nat /\ Cardinality(D) <= Cardinality(C)
      /\ Cardinality(B) \in Nat /\ Cardinality(B) <= Cardinality(A)
      /\ Cardinality(C) \in Nat /\ Cardinality(A) \in Nat
  BY FS_Subset, FS_CardinalityType
<1> QED
  BY <1>1

(* One asker fewer makes room for one more copy.                           *)
LEMMA OneForOne ==
    ASSUME NEW C, NEW A, NEW n \in Nat, IsFiniteSet(C), IsFiniteSet(A),
           Cardinality(C) + Cardinality(A) <= n,
           NEW x, NEW D \in SUBSET (C \cup {x}), NEW r \in A
    PROVE  Cardinality(D) + Cardinality(A \ {r}) <= n
<1>1. Cardinality(C) \in Nat /\ Cardinality(A) \in Nat
  BY FS_CardinalityType
<1>2. /\ IsFiniteSet(C \cup {x})
      /\ Cardinality(C \cup {x}) = IF x \in C THEN Cardinality(C) ELSE Cardinality(C) + 1
  BY FS_AddElement
<1>3. Cardinality(D) \in Nat /\ Cardinality(D) <= Cardinality(C \cup {x})
  BY <1>2, FS_Subset, FS_CardinalityType
<1>4. Cardinality(A \ {r}) = Cardinality(A) - 1
  BY FS_RemoveElement
<1> QED
  BY <1>1, <1>2, <1>3, <1>4

LEMMA RoomStep == TypeInv /\ RoomForAskers /\ [Next]_vars => RoomForAskers'
<1> SUFFICES ASSUME TypeInv, RoomForAskers, [Next]_vars,
                    NEW b \in Bodies, Dot[b.text][b.text] > 0
             PROVE  (Cardinality(Copies(b)) + Cardinality(Askers(b)) <= Cardinality(Requests))'
  BY DEF RoomForAskers
<1>0. /\ entries \in Seq(Entries) /\ now \in Nat /\ Ttl \in Nat
      /\ req = [r \in Requests |-> req[r]]
      /\ \A e \in Entries : e.expires \in Nat
  <2>1. Ttl \in Nat /\ MaxNow \in Nat
    BY SizesAssumption DEF SizesAssumption
  <2> QED
    BY <2>1 DEF TypeInv, TypeOK, Inv, Entries
<1>1. /\ IsFiniteSet(Copies(b)) /\ IsFiniteSet(Askers(b)) /\ Cardinality(Requests) \in Nat
      /\ Cardinality(Copies(b)) + Cardinality(Askers(b)) <= Cardinality(Requests)
  BY CountsAreFinite DEF RoomForAskers
<1>2. ASSUME Copies(b)' \subseteq Copies(b), Askers(b)' \subseteq Askers(b)
      PROVE  (Cardinality(Copies(b)) + Cardinality(Askers(b)) <= Cardinality(Requests))'
  BY <1>1, <1>2, FewerTakeLessRoom
<1>3. ASSUME NEW r \in Requests, NEW a \in Bodies, Miss(r, a)
      PROVE  (Cardinality(Copies(b)) + Cardinality(Askers(b)) <= Cardinality(Requests))'
  <2>1. Copies(b)' = Copies(b)
    BY <1>3 DEF Miss, cache, Copies, tenant
  <2>2. CASE tenant(a) = tenant(b) /\ a.text = b.text
    <3>1. Copies(b) = {}
      BY <1>0, <1>3, <2>2, CopiesAreFound DEF Miss
    <3>2. Cardinality(Askers(b)') \in Nat /\ Cardinality(Askers(b)') <= Cardinality(Requests)
      <4>1. Askers(b)' \in SUBSET Requests
        BY DEF Askers
      <4> QED
        BY <4>1, RequestsAssumption, FS_Subset, FS_CardinalityType
    <3>3. Cardinality(Copies(b)') = 0
      BY <2>1, <3>1, FS_EmptySet
    <3> QED
      BY <1>1, <3>2, <3>3
  <2>3. CASE ~(tenant(a) = tenant(b) /\ a.text = b.text)
    <3>1. Askers(b)' \subseteq Askers(b)
      BY <1>0, <1>3, <2>3 DEF Miss, Waiting, Askers, tenant
    <3> QED
      BY <1>2, <2>1, <3>1
  <2> QED
    BY <2>2, <2>3
<1>4. ASSUME NEW r \in Requests, NEW i \in DOMAIN req[r].plan, Complete(r, i)
      PROVE  (Cardinality(Copies(b)) + Cardinality(Askers(b)) <= Cardinality(Requests))'
  <2> DEFINE e == [tenant |-> tenant(req[r].body), text |-> req[r].body.text,
                   model |-> AnsweringModel(r, i), expires |-> now + Ttl]
  <2>1. now' = now /\ (entries' = entries \/ entries' = Append(entries, e))
    BY <1>4 DEF Complete, Store
  <2>2. req[r] # Nothing
    BY <1>4 DEF Nothing
  <2>3. Askers(b)' = Askers(b) \ {r}
    BY <1>0, <1>4 DEF Complete, Askers, tenant
  <2>4. Copies(b)' \subseteq Copies(b) \cup {Len(entries) + 1}
    <3> HIDE DEF e
    <3> QED
      BY <1>0, <2>1 DEF Copies, tenant
  <2>5. ASSUME r \notin Askers(b) PROVE Copies(b)' \subseteq Copies(b)
    <3>1. e.tenant # tenant(b) \/ e.text # b.text
      BY <2>2, <2>5 DEF Askers
    <3> HIDE DEF e
    <3> QED
      BY <1>0, <2>1, <3>1 DEF Copies, tenant
  <2>6. CASE r \in Askers(b)
    <3>1. Cardinality(Copies(b)') + Cardinality(Askers(b) \ {r}) <= Cardinality(Requests)
      BY <1>1, <2>4, <2>6, OneForOne
    <3> QED
      BY <2>3, <3>1
  <2>7. CASE r \notin Askers(b)
    BY <1>2, <2>3, <2>5, <2>7
  <2> QED
    BY <2>6, <2>7
<1>5. ASSUME NEW r \in Requests, Fail(r)
      PROVE  (Cardinality(Copies(b)) + Cardinality(Askers(b)) <= Cardinality(Requests))'
  <2>1. Askers(b)' \subseteq Askers(b) /\ Copies(b)' = Copies(b)
    BY <1>0, <1>5 DEF Fail, cache, Askers, Copies, tenant
  <2> QED
    BY <1>2, <2>1
<1>6. CASE Tick /\ UNCHANGED req
  <2>1. Askers(b)' = Askers(b)
    BY <1>6 DEF Askers, tenant
  <2>2. Copies(b)' \subseteq Copies(b)
    BY <1>0, <1>6 DEF Tick, Copies, tenant
  <2> QED
    BY <1>2, <2>1, <2>2
<1>7. CASE UNCHANGED vars
  <2>1. Askers(b)' = Askers(b) /\ Copies(b)' = Copies(b)
    BY <1>7 DEF vars, cache, Askers, Copies, tenant
  <2> QED
    BY <1>2, <2>1
<1> QED
  BY <1>3, <1>4, <1>5, <1>6, <1>7 DEF Next, Unknown, Hit, vars

(* However many requests for equal texts there were, and however their     *)
(* lookups and stores interleave: the equal entries of a tenant that live  *)
(* at the same time are no more than the requests that the gateway serves  *)
(* at the same time (cache.py 57-73).                                      *)
THEOREM CopiesAreFew == Spec => []NoPileUp
<1>1. Init => RoomForAskers
  <2> SUFFICES ASSUME Init, NEW b \in Bodies
               PROVE  Cardinality(Copies(b)) + Cardinality(Askers(b)) <= Cardinality(Requests)
    BY DEF RoomForAskers
  <2>1. Copies(b) = {} /\ Askers(b) = {}
    BY DEF Init, CacheInit, Copies, Askers
  <2>2. Cardinality(Requests) \in Nat
    BY RequestsAssumption, FS_CardinalityType
  <2> QED
    BY <2>1, <2>2, FS_EmptySet
<1>2. TypeInv /\ RoomForAskers => NoPileUp
  <2> SUFFICES ASSUME TypeInv, RoomForAskers, NEW b \in Bodies, Dot[b.text][b.text] > 0
               PROVE  Cardinality(Copies(b)) <= Cardinality(Requests)
    BY DEF NoPileUp
  <2> QED
    BY CountsAreFinite DEF RoomForAskers
<1> QED
  BY <1>1, <1>2, RoomStep, TypeInvariance, PTL DEF Spec

----------------------------------------------------------------------------
(* Stable answers                                                          *)

(* In a table that has at most one row more, at a later time, a row that   *)
(* answers q and lives still answers it, or a nearer one does.             *)
LEMMA LaterTable ==
    ASSUME NEW table \in Seq(Entries), NEW later \in Seq(Entries),
           NEW time \in Int, NEW then \in Int, time <= then, NEW who, NEW q \in Texts,
           Len(later) \in {Len(table), Len(table) + 1},
           \A i \in 1..Len(table) : later[i] = table[i],
           NEW old, old = Find(table, time, who, q), old # 0,
           table[old].expires > then,
           NEW new, new = Find(later, then, who, q)
    PROVE  \/ new = old
           \/ new # 0 /\ Nearer(q, later[new].text, table[old].text)
<1> DEFINE R == Rows(table, time, who)
           S == Rows(later, then, who)
           N == Nearest(q, table, R)
           M == Nearest(q, later, S)
           last == Len(table) + 1
<1>1. ASSUME NEW i \in S PROVE later[i].text \in Texts
  <2>1. later[i] \in Entries
    BY DEF Rows
  <2> QED
    BY <2>1 DEF Entries
<1>2. ASSUME NEW i \in S, i # last PROVE i \in R /\ later[i] = table[i]
  <2>1. i \in 1..Len(table) /\ later[i] = table[i] /\ later[i] \in Entries
    BY <1>2 DEF Rows
  <2>2. table[i].tenant = who /\ table[i].expires > then
    BY <2>1 DEF Rows, Live
  <2>3. table[i].expires \in Int
    BY <2>1, SizesAssumption DEF SizesAssumption, Entries
  <2> QED
    BY <2>1, <2>2, <2>3 DEF Rows, Live
<1>3. /\ ~Blank(q) /\ old \in N /\ SimilarEnough(q, table[old].text)
      /\ \A i \in N : old <= i
      /\ old \in 1..Len(table)
  BY FindFacts
<1>4. /\ Dot[q][table[old].text] > 0
      /\ old \in R /\ \A j \in R : ~Nearer(q, table[j].text, table[old].text)
  BY <1>3 DEF Nearest
<1>5. old \in S /\ later[old] = table[old]
  BY <1>3, <1>4 DEF Rows, Live
<1>6. /\ new # 0 => new \in M
      /\ \A i \in M : (\A j \in M : i <= j) /\ SimilarEnough(q, later[i].text) => new = i
      /\ M # {} /\ (\A i \in M : SimilarEnough(q, later[i].text)) => new # 0
      /\ M \subseteq 1..Len(later)
  BY <1>3, FindFacts
<1>7. /\ \A i \in S : /\ Dot[q][later[i].text] > 0
                      /\ \A j \in S : ~Nearer(q, later[j].text, later[i].text)
                      => i \in M
      /\ \A i \in M : /\ i \in S /\ Dot[q][later[i].text] > 0
                      /\ \A j \in S : ~Nearer(q, later[j].text, later[i].text)
  BY DEF Nearest
<1>8. \A i \in R : /\ Dot[q][table[i].text] > 0
                   /\ \A j \in R : ~Nearer(q, table[j].text, table[i].text)
                   => i \in N
  BY DEF Nearest
<1>9. ASSUME NEW i \in R PROVE table[i].text \in Texts
  <2>1. table[i] \in Entries
    BY DEF Rows
  <2> QED
    BY <2>1 DEF Entries
<1> HIDE DEF R, S, N, M
<1>10. CASE \A j \in S : ~Nearer(q, later[j].text, later[old].text)
  <2>1. old \in M
    BY <1>4, <1>5, <1>7, <1>10
  <2>2. ASSUME NEW i \in M PROVE old <= i
    <3>1. CASE i = last
      BY <1>3, <3>1
    <3>2. CASE i \in R /\ later[i] = table[i]
      <4>1. Dot[q][table[i].text] > 0 /\ ~Nearer(q, table[old].text, table[i].text)
        BY <1>5, <1>7, <3>2
      <4>2. ASSUME NEW j \in R PROVE ~Nearer(q, table[j].text, table[i].text)
        BY <1>4, <1>9, <3>2, <4>1, NearerOrder
      <4> QED
        BY <1>3, <1>8, <3>2, <4>1, <4>2
    <3> QED
      BY <1>2, <1>7, <3>1, <3>2
  <2>3. (\A i \in M : old <= i) /\ SimilarEnough(q, later[old].text)
    BY <1>3, <1>5, <2>2
  <2>4. new = old
    BY <1>6, <2>1, <2>3
  <2> QED
    BY <2>4
<1>11. ASSUME NEW j \in S, Nearer(q, later[j].text, later[old].text)
       PROVE  new # 0 /\ Nearer(q, later[new].text, table[old].text)
  <2>1. j = last
    BY <1>2, <1>4, <1>5, <1>11
  <2>2. Dot[q][later[j].text] > 0
    BY <1>11 DEF Nearer
  <2>3. ASSUME NEW k \in S PROVE ~Nearer(q, later[k].text, later[j].text)
    <3>1. CASE k = j
      <4>1. Dot[q][later[j].text] \in Int /\ Dot[later[j].text][later[j].text] \in Int
        BY <1>1, DotFacts
      <4>2. PICK x, y : x = Dot[q][later[j].text] /\ y = Dot[later[j].text][later[j].text]
        OBVIOUS
      <4>3. ~(x * x * y > x * x * y)
        <5>1. x * x * y \in Int
          BY <4>1, <4>2
        <5> QED
          BY <5>1
      <4> QED
        BY <3>1, <4>2, <4>3 DEF Nearer
    <3>2. CASE k \in R /\ later[k] = table[k]
      <4>1. ~Nearer(q, later[k].text, later[old].text)
        BY <1>4, <1>5, <3>2
      <4> QED
        BY <1>1, <1>5, <1>11, <4>1, NearerOrder
    <3> QED
      BY <1>2, <2>1, <3>1, <3>2
  <2>4. j \in M
    BY <1>7, <2>2, <2>3
  <2>5. ASSUME NEW i \in M
        PROVE  Nearer(q, later[i].text, table[old].text) /\ SimilarEnough(q, later[i].text)
    <3>1. i \in S /\ Dot[q][later[i].text] > 0 /\ ~Nearer(q, later[j].text, later[i].text)
      BY <1>7
    <3>2. Nearer(q, later[i].text, later[old].text)
      BY <1>1, <1>5, <1>11, <3>1, NearerOrder
    <3> QED
      BY <1>1, <1>3, <1>5, <3>1, <3>2, NearerIsSimilar
  <2> QED
    BY <1>6, <2>4, <2>5
<1> QED
  BY <1>10, <1>11

(* For any texts, tenants and number of requests: while the entry that     *)
(* answers a text is alive, what other requests store does not change the  *)
(* answer, unless it is nearer to the text (cache.py 36-43).               *)
THEOREM AnswersAreStable == Spec => AnswerIsStable
<1>1. ASSUME TypeInv, [Next]_vars, NEW b \in Bodies,
             Lookup(tenant(b), b.text) # 0,
             entries[Lookup(tenant(b), b.text)].expires > now'
      PROVE  LET old == Lookup(tenant(b), b.text)
                 new == Find(entries', now', tenant(b), b.text)
             IN  \/ new = old
                 \/ new # 0 /\ Nearer(b.text, entries'[new].text, entries[old].text)
  <2>1. TypeInv'
    BY <1>1, TypeStep
  <2>2. /\ entries \in Seq(Entries) /\ entries' \in Seq(Entries)
        /\ now \in Int /\ now' \in Int /\ b.text \in Texts
    BY <1>1, <2>1, BodiesAssumption
       DEF TypeInv, TypeOK, Entries, BodiesAssumption
  <2>3. now <= now'
    <3>1. now' = now \/ now' = now + 1
      BY <1>1 DEF Next, Unknown, Hit, Miss, Complete, Store, Fail, Tick, vars, cache
    <3> QED
      BY <2>2, <3>1
  <2>4. entries' = entries \/ \E e \in Entries : entries' = Append(entries, e)
    <3>1. entries' = entries \/ \E e : entries' = Append(entries, e)
      BY <1>1 DEF Next, Unknown, Hit, Miss, Complete, Store, Fail, Tick, vars, cache
    <3>2. ASSUME NEW e, entries' = Append(entries, e) PROVE e \in Entries
      <4>1. Len(entries') = Len(entries) + 1 /\ entries'[Len(entries) + 1] = e
        BY <2>2, <3>2
      <4> QED
        BY <2>2, <4>1
    <3> QED
      BY <3>1, <3>2
  <2>5. /\ Len(entries') \in {Len(entries), Len(entries) + 1}
        /\ \A i \in 1..Len(entries) : entries'[i] = entries[i]
    BY <2>2, <2>4
  <2> QED
    BY <1>1, <2>2, <2>3, <2>5, LaterTable DEF Lookup
<1>2. TypeInv /\ [Next]_vars
        => [\A b \in Bodies :
              LET old == Lookup(tenant(b), b.text)
                  new == Find(entries', now', tenant(b), b.text)
              IN  old # 0 /\ entries[old].expires > now'
                    => \/ new = old
                       \/ new # 0 /\ Nearer(b.text, entries'[new].text, entries[old].text)]_cache
  BY <1>1
<1> QED
  BY <1>2, TypeInvariance, PTL DEF Spec, AnswerIsStable

=============================================================================
