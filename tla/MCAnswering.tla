---------------------------- MODULE MCAnswering -----------------------------
(* Module Answering with the models of data/model_pricing.json and the     *)
(* aliases of data/gateway_config.sample.json.  The texts meet every way   *)
(* for two texts to be related in the cache: equal, near in part (q1 and   *)
(* q3 are near to q2, not to each other), opposite, unrelated, of          *)
(* stopwords, blank.                                                       *)
EXTENDS Answering, TLC

CONSTANTS r1, r2, alpha, beta

MCModels == {"gpt-4o-mini", "gpt-4o", "claude-haiku", "claude-sonnet"}

MCChain == [fast |-> <<"gpt-4o-mini", "claude-haiku">>, smart |-> <<"gpt-4o", "claude-sonnet">>]

MCBucket == [capital |-> 1, france |-> 2, city |-> 3, item |-> 3, prove |-> 4, copy |-> 5]

MCSign == [w \in DOMAIN MCBucket |-> IF w = "item" THEN -1 ELSE 1]

MCTenantOf == [k \in {alpha, beta} |-> k]

MCAllowed == (alpha :> MCModels \cup {"fast", "smart", "auto", "gone"}) @@
             (beta :> {"gpt-4o-mini", "claude-haiku", "fast", "auto"})

MCWordsOf == [
    q1 |-> <<"the", "capital", "france">>,
    q2 |-> <<"prove", "france", "capital", "city">>,
    q3 |-> <<"prove", "city">>,
    long |-> [i \in 1..90 |-> CASE i = 1 -> "copy" [] i = 2 -> "item" [] OTHER -> "the"],
    stop |-> <<"the">>,
    blank |-> <<>>]

MCTexts == DOMAIN MCWordsOf

Body(k, m, x) == [key |-> k, model |-> m, text |-> x]

MCBodies == {
    Body(alpha, "fast", "q1"),
    Body(alpha, "gpt-4o", "q2"),
    Body(alpha, "gpt-4o", "q3"),
    Body(alpha, "auto", "long"),
    Body(alpha, "gpt-4o", "stop"),
    Body(alpha, "smart", "blank"),
    Body(alpha, "gone", "q1"),
    Body(beta, "auto", "q3")}

Symmetry == Permutations({r1, r2})
=============================================================================
