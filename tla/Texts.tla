------------------------------- MODULE Texts -------------------------------
(* The user texts of the requests: what _extract_prompt_text (chat.py) and *)
(* _cache_key_text (cache.py) put together from the messages of the user.  *)
EXTENDS Integers, Sequences

CONSTANTS
    Texts,
    WordsOf     \* WordsOf[t]: the words of text t, in order

ASSUME TextsAssumption == \A t \in Texts : Len(WordsOf[t]) \in Nat
=============================================================================
