------------------------------ MODULE Routing ------------------------------
(***************************************************************************)
(* From the model that a request names to the candidates that may answer   *)
(* it: app/core/router.py and app/core/difficulty.py.  WordsOf[t] is what   *)
(* text t consists of; a word of HardWords or EasyWords stands for         *)
(* whatever matches one pattern of HARD_SIGNALS or EASY_SIGNALS.           *)
(***************************************************************************)
EXTENDS Texts, FiniteSets

CONSTANTS
    Models,     \* the models in model_pricing.json
    Chain,      \* Chain[a]: the primary and the fallback chain of alias a
    HardWords,
    EasyWords,
    Numbers,    \* words like "1)", which number a clause
    And         \* the word "and"

Tiers == {"fast", "smart"}

ASSUME ChainAssumption ==
    /\ Tiers \subseteq DOMAIN Chain
    /\ \A a \in DOMAIN Chain : Chain[a] \in Seq(Models) /\ Chain[a] # <<>>

ASSUME PatternsAssumption == IsFiniteSet(HardWords) /\ IsFiniteSet(EasyWords)

Occurs(w, t) == \E i \in 1..Len(WordsOf[t]) : WordsOf[t][i] = w

(* Patterns are counted, not their matches.                                *)
HardHits(t) == Cardinality({w \in HardWords : Occurs(w, t)})
EasyHits(t) == Cardinality({w \in EasyWords : Occurs(w, t)})

HasClauses(t) ==
    \/ Cardinality({i \in 1..Len(WordsOf[t]) : WordsOf[t][i] = And}) >= 3
    \/ \E w \in Numbers : Occurs(w, t)

\* Faulty variant: the contribution of the length has no cap.
AnyLength(words) == words

(* min(word_count / 400, 0.15)                                             *)
LengthScore(words) == IF words < 60 THEN words ELSE 60

Clip(x) == IF x < 0 THEN 0 ELSE IF x > 400 THEN 400 ELSE x

(* score_difficulty in units of 1/400, exact; the floating-point sum of    *)
(* the code differs from it by rounding, which matters only where the      *)
(* score is exactly the threshold.                                         *)
Score(hard, easy, words, clauses) ==
    Clip(200 + 60 * hard - 80 * easy + LengthScore(words) + (IF clauses THEN 40 ELSE 0))

(* classify with difficulty_threshold 0.5.                                 *)
TierOf(hard, easy, words, clauses) ==
    IF Score(hard, easy, words, clauses) >= 200 THEN "smart" ELSE "fast"

Classify ==
    [t \in Texts |-> TierOf(HardHits(t), EasyHits(t), Len(WordsOf[t]), HasClauses(t))]

ResolveAuto(t) == Chain[Classify[t]]

(* Nothing for a name that is neither an alias nor priced: the ValueError. *)
ResolveCandidates(name) ==
    CASE name \in DOMAIN Chain -> Chain[name]
      [] name \in Models \ DOMAIN Chain -> <<name>>
      [] OTHER -> <<>>

Plan(name, t) == IF name = "auto" THEN ResolveAuto(t) ELSE ResolveCandidates(name)
=============================================================================
