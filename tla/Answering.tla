----------------------------- MODULE Answering -----------------------------
(***************************************************************************)
(* Who answers a request: the routing of module Routing and the cache of   *)
(* module SemanticCache as app/routers/chat.py (84-136) puts them          *)
(* together, for requests that have been admitted.  The lookup of one      *)
(* request, its upstream call and its store are separate steps, between    *)
(* those of the others.  What happens inside the upstream call is module   *)
(* Failover, what the answer costs is module Gateway.                      *)
(***************************************************************************)
EXTENDS Routing, SemanticCache

CONSTANTS
    Requests,   \* the requests that are served at the same time
    Keys,
    TenantOf,   \* TenantOf[k]: column tenant
    Allowed,    \* Allowed[k]: column allowed_models
    Bodies,     \* the requests that pass admission
    NoBody

ASSUME BodiesAssumption ==
    \A b \in Bodies : /\ b.key \in Keys /\ b.model \in Allowed[b.key]
                      /\ b.text \in Texts

ASSUME RequestsAssumption == IsFiniteSet(Requests)

VARIABLE req   \* req[r]: the body and the plan of a request that waits for its
               \* candidates, or nothing

vars == <<cache, req>>

Nothing == [body |-> NoBody, plan |-> <<>>]
Waiting(b) == [body |-> b, plan |-> Plan(b.model, b.text)]

Entries == [tenant : {TenantOf[k] : k \in Keys}, text : Texts, model : Models,
            expires : Ttl..MaxNow + Ttl]

TypeOK ==
    /\ now \in 0..MaxNow
    /\ entries \in Seq(Entries) /\ Len(entries) <= MaxEntries
    /\ \A r \in Requests :
          \/ req[r] = Nothing
          \/ /\ req[r].body \in Bodies
             /\ req[r].plan \in Seq(Models) \ {<<>>}

Init == CacheInit /\ req = [r \in Requests |-> Nothing]

tenant(b) == TenantOf[b.key]

Resolves(b) == Plan(b.model, b.text) # <<>>

(* 400 unknown_model, before the cache is asked.                           *)
Unknown(r, b) == req[r] = Nothing /\ ~Resolves(b) /\ UNCHANGED vars

(* The handler resolves the model and looks into the cache: a hit, and the *)
(* plan goes unused.                                                       *)
Hit(r, b) ==
    /\ req[r] = Nothing
    /\ Resolves(b)
    /\ Lookup(tenant(b), b.text) # 0
    /\ UNCHANGED vars

Miss(r, b) ==
    /\ req[r] = Nothing
    /\ Resolves(b)
    /\ Lookup(tenant(b), b.text) = 0
    /\ req' = [req EXCEPT ![r] = Waiting(b)]
    /\ UNCHANGED cache

\* Faulty variant: the answer is stored under the name that was asked for.
RequestedModel(r, i) == req[r].body.model

AnsweringModel(r, i) == req[r].plan[i]

(* Candidate i answers, and its answer is stored.                          *)
Complete(r, i) ==
    /\ Store(tenant(req[r].body), req[r].body.text, AnsweringModel(r, i))
    /\ req' = [req EXCEPT ![r] = Nothing]

(* No candidate answers, or something fails on the way to the store.       *)
Fail(r) ==
    /\ req[r] # Nothing
    /\ req' = [req EXCEPT ![r] = Nothing]
    /\ UNCHANGED cache

Next ==
    \/ \E r \in Requests, b \in Bodies : Unknown(r, b) \/ Hit(r, b) \/ Miss(r, b)
    \/ \E r \in Requests : \E i \in DOMAIN req[r].plan : Complete(r, i)
    \/ \E r \in Requests : Fail(r)
    \/ Tick /\ UNCHANGED req

Spec == Init /\ [][Next]_vars

----------------------------------------------------------------------------
(* The live entries that are equal to what a body would store.             *)
Copies(b) ==
    {i \in DOMAIN entries : /\ entries[i].tenant = tenant(b) /\ entries[i].text = b.text
                            /\ entries[i].expires > now}

(* A hit does not store, so an answer is stored again only by requests     *)
(* that had all missed before the first of them was stored: equal entries  *)
(* that live at the same time are no more than the requests served at the  *)
(* same time (cache.py 57-73).  Not so for a text of stopwords, which      *)
(* never hits.                                                             *)
NoPileUp ==
    \A b \in Bodies :
        Dot[b.text][b.text] > 0 => Cardinality(Copies(b)) <= Cardinality(Requests)

(* As long as the entry that answers a text is alive, only an entry that   *)
(* is nearer to the text takes its place; an equal one that another        *)
(* request stores meanwhile does not (cache.py 41-46).                     *)
AnswerIsStable ==
    [][\A b \in Bodies :
          LET old == Lookup(tenant(b), b.text)
              new == Find(entries', now', tenant(b), b.text)
          IN  old # 0 /\ entries[old].expires > now'
                  => \/ new = old
                     \/ new # 0 /\ Nearer(b.text, entries'[new].text, entries[old].text)]_cache

LongButTrivial == {t \in Texts : EasyHits(t) > 0 /\ HardHits(t) = 0 /\ ~HasClauses(t)}
ShortButHard == {t \in Texts : HardHits(t) > 0 /\ EasyHits(t) = 0}

(* The two traps of difficulty.py 14-17 for requests that ask for "auto":  *)
(* a text with easy patterns only and no clauses goes to the fast tier,    *)
(* however long it is; a text with hard patterns only goes to the smart    *)
(* tier, however short it is.                                              *)
TrapsHold ==
    \A r \in Requests :
        req[r] # Nothing /\ req[r].body.model = "auto" =>
            /\ req[r].body.text \in LongButTrivial => req[r].plan = Chain["fast"]
            /\ req[r].body.text \in ShortButHard => req[r].plan = Chain["smart"]

(* README 321: the key of team-beta has the fast tier only.  What a tenant *)
(* whose keys list no other model is answered with, and is stored for it,  *)
(* is the answer of no other model.                                        *)
FastTierOnly ==
    LET fast == ToSet(Chain["fast"]) IN
    \A i \in DOMAIN entries :
        (\A k \in Keys : TenantOf[k] = entries[i].tenant => Allowed[k] \cap Models \subseteq fast)
            => entries[i].model \in fast
=============================================================================
