--------------------------- MODULE SemanticCache ---------------------------
(***************************************************************************)
(* The response cache: app/core/cache.py over the hashed bag of words of   *)
(* app/core/semantic.py.  A vector holds the signed counts of its buckets; *)
(* the code also divides it by its length, which is left to the            *)
(* comparisons here, so that all of them are exact.  The floating-point    *)
(* numbers of the code may round where two similarities are equal.         *)
(***************************************************************************)
EXTENDS Texts, FiniteSets, SequencesExt

CONSTANTS
    Stopwords,  \* _STOPWORDS, and the words of one character
    Bucket,     \* Bucket[w]: the coordinate that the hash of word w selects
    Sign,       \* Sign[w]: 1 or -1
    Ttl,        \* cache.ttl_seconds, in ticks
    MaxNow,     \* the clock stops here: a bound for TLC
    MaxEntries  \* no more answers are stored: a bound for TLC

ASSUME WordsAssumption ==
    \A t \in Texts : \A i \in 1..Len(WordsOf[t]) :
        WordsOf[t][i] \notin Stopwords
            => WordsOf[t][i] \in DOMAIN Bucket /\ Sign[WordsOf[t][i]] \in {-1, 1}

Buckets == {Bucket[w] : w \in DOMAIN Bucket}

ASSUME SizesAssumption ==
    /\ IsFiniteSet(Buckets)
    /\ Ttl \in Nat /\ MaxNow \in Nat /\ MaxEntries \in Nat

VARIABLES
    now,
    entries   \* table cache_entries in the order of its ids; nothing is deleted

cache == <<now, entries>>

CacheInit == now = 0 /\ entries = <<>>

(* The positions of the words that count.                                  *)
Tokens(t) == {i \in 1..Len(WordsOf[t]) : WordsOf[t][i] \notin Stopwords}

InBucket(t, b, sign) ==
    Cardinality({i \in Tokens(t) : Bucket[WordsOf[t][i]] = b /\ Sign[WordsOf[t][i]] = sign})

Embed == [t \in Texts |-> [b \in Buckets |-> InBucket(t, b, 1) - InBucket(t, b, -1)]]

Dot == [t \in Texts |-> [u \in Texts |-> SumFunction([b \in Buckets |-> Embed[t][b] * Embed[u][b]])]]

Blank(t) == WordsOf[t] = <<>>

\* Faulty variant: an entry counts as expired a tick too early.
LivesOn(e, time) == e.expires > time + 1

Live(e, time) == e.expires > time

(* cosine(q, t) > cosine(q, u), when neither of them is negative.          *)
Nearer(q, t, u) ==
    Dot[q][t] > 0 /\ Dot[q][t] * Dot[q][t] * Dot[u][u] > Dot[q][u] * Dot[q][u] * Dot[t][t]

(* best_sim >= 0.55, and 0.55 = 11 / 20.                                   *)
SimilarEnough(q, t) ==
    Dot[q][t] > 0 /\ 400 * Dot[q][t] * Dot[q][t] >= 121 * Dot[q][q] * Dot[t][t]

(* The ids of the live rows of a tenant in a given table.                  *)
Rows(table, time, tenant) == {i \in DOMAIN table : table[i].tenant = tenant /\ Live(table[i], time)}

\* Faulty variant: "sim >= best_sim".
ReplacesOnTie(q, table, i, best) ==
    /\ Dot[q][table[i].text] > 0
    /\ best = 0 \/ ~Nearer(q, table[best].text, table[i].text)

(* "sim > best_sim", where best_sim is 0.0 as long as there is no best.    *)
Replaces(q, table, i, best) ==
    IF best = 0 THEN Dot[q][table[i].text] > 0
                ELSE Nearer(q, table[i].text, table[best].text)

(* The id of the best row after the loop over the given rows, or 0.        *)
Best(q, table, rows) ==
    LET best[i \in 0..Len(table)] ==
            IF i = 0 THEN 0
            ELSE IF i \in rows /\ Replaces(q, table, i, best[i - 1]) THEN i ELSE best[i - 1]
    IN  best[Len(table)]

(* The id of the row that answers q, or 0.                                 *)
Find(table, time, tenant, q) ==
    LET best == Best(q, table, Rows(table, time, tenant))
    IN  IF ~Blank(q) /\ best # 0 /\ SimilarEnough(q, table[best].text) THEN best ELSE 0

Lookup(tenant, q) == Find(entries, now, tenant, q)

(* A blank text is not stored; a text of stopwords is, with a vector that  *)
(* is never similar to anything.                                           *)
Store(tenant, t, model) ==
    /\ Len(entries) < MaxEntries
    /\ entries' = IF Blank(t) THEN entries
                  ELSE Append(entries, [tenant |-> tenant, text |-> t,
                                        model |-> model, expires |-> now + Ttl])
    /\ UNCHANGED now

Tick == now < MaxNow /\ now' = now + 1 /\ UNCHANGED entries
=============================================================================
