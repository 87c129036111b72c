------------------------------- MODULE Health -------------------------------
(***************************************************************************)
(* The switchboard of provider health, app/providers/mock.py: the table    *)
(* provider_health, shared by all worker processes, and in each process a  *)
(* cache of it that its threads share without a lock.  A provider call     *)
(* asks the cache, which is read again from the table when it is older     *)
(* than its ttl; an operator's toggle writes the table first and then the  *)
(* cache of the process that handles it.                                   *)
(*                                                                         *)
(* Time is counted in ticks and kept as ages, so that it never runs out:   *)
(* an age that no longer matters stays where it is.                        *)
(***************************************************************************)
EXTENDS Integers, FiniteSets

CONSTANTS
    Providers,   \* the names in the pricing table
    Workers,     \* gunicorn worker processes, each one the set of its threads
    Ttl,         \* _cache_ttl
    Slow,        \* a thread is never longer than this inside get, set or all
    Admins,      \* the threads that admin requests happen to be served on
    Posted       \* the states that operators post, valid or not

Threads == UNION Workers
Of(t) == CHOOSE W \in Workers : t \in W

ASSUME HealthAssumption == Ttl \in Nat /\ Slow \in Nat /\ Admins \subseteq Threads

Healths == {"up", "down", "degraded"}

VARIABLES
    table,   \* table[p]: provider_health.state, a missing row counts as "up"
    cache,   \* cache[W][p]: _cache of process W, a missing key counts as "up"
    age,     \* age[W]: ticks since _cache_ts, up to Ttl + 1
    pc,      \* pc[t]: where thread t is
    asked,   \* asked[t]: the provider it asks for or sets; none in all
    held,    \* held[t]: the rows it has read, the state it sets, or its answer
    busy,    \* busy[t]: ticks since it entered get, set or all
    gone     \* history: gone[p][s], ticks since table[p] was s, up to Forgotten

vars == <<table, cache, age, pc, asked, held, busy, gone>>

Bound == Ttl + 3 * Slow
Forgotten == Bound + 1
AllUp == [p \in Providers |-> "up"]

Inside == {"read", "assign", "stamp", "answer", "mark"}

TypeOK ==
    /\ table \in [Providers -> Healths]
    /\ cache \in [Workers -> [Providers -> Healths]]
    /\ age \in [Workers -> 0..Ttl + 1]
    /\ pc \in [Threads -> Inside \cup {"idle", "call"}]
    /\ asked \in [Threads -> SUBSET Providers]
    /\ held \in [Threads -> [Providers -> Healths]]
    /\ busy \in [Threads -> 0..Slow]
    /\ gone \in [Providers -> [Healths -> 0..Forgotten]]

Init ==
    /\ table = AllUp
    /\ cache = [W \in Workers |-> AllUp]
    /\ age = [W \in Workers |-> Ttl + 1]
    /\ pc = [t \in Threads |-> "idle"]
    /\ asked = [t \in Threads |-> {}]
    /\ held = [t \in Threads |-> AllUp]
    /\ busy = [t \in Threads |-> 0]
    /\ gone = [p \in Providers |-> [s \in Healths |-> IF s = table[p] THEN 0 ELSE Forgotten]]

Goto(t, s) == pc' = [pc EXCEPT ![t] = s]

(* Thread t enters get, set or all, at step s.                             *)
Enter(t, s, P) ==
    /\ pc[t] = "idle"
    /\ Goto(t, s)
    /\ asked' = [asked EXCEPT ![t] = P]
    /\ busy' = [busy EXCEPT ![t] = 0]

(* The request is over; nothing of it is left.                             *)
Leave(t) ==
    /\ Goto(t, "idle")
    /\ asked' = [asked EXCEPT ![t] = {}]
    /\ held' = [held EXCEPT ![t] = AllUp]
    /\ busy' = [busy EXCEPT ![t] = 0]

Tick ==
    /\ \A t \in Threads : pc[t] \in Inside => busy[t] < Slow
    /\ age' = [W \in Workers |-> IF age[W] > Ttl THEN age[W] ELSE age[W] + 1]
    /\ busy' = [t \in Threads |-> IF pc[t] \in Inside THEN busy[t] + 1 ELSE busy[t]]
    /\ gone' = [p \in Providers |-> [s \in Healths |->
                   IF s = table[p] \/ gone[p][s] = Forgotten THEN gone[p][s]
                                                              ELSE gone[p][s] + 1]]
    /\ UNCHANGED <<table, cache, pc, asked, held>>

----------------------------------------------------------------------------
(* get, all and _refresh                                                   *)

\* Faulty variant: a cache that has been filled once is kept.
EmptyOnly(W) == cache[W] = AllUp

Expired(W) == age[W] > Ttl

(* A provider call asks for the state of p.                                *)
Get(t, p) ==
    /\ Enter(t, IF Expired(Of(t)) THEN "read" ELSE "answer", {p})
    /\ UNCHANGED <<table, cache, age, held, gone>>

(* The operator's console asks for all states, past the ttl.               *)
All(t) ==
    /\ Enter(t, "read", {})
    /\ UNCHANGED <<table, cache, age, held, gone>>

Read(t) ==
    /\ pc[t] = "read"
    /\ held' = [held EXCEPT ![t] = table]
    /\ Goto(t, "assign")
    /\ UNCHANGED <<table, cache, age, asked, busy, gone>>

(* Whatever other threads have put into the cache since the rows were      *)
(* read is replaced.                                                       *)
Assign(t) ==
    /\ pc[t] = "assign"
    /\ cache' = [cache EXCEPT ![Of(t)] = held[t]]
    /\ held' = [held EXCEPT ![t] = AllUp]
    /\ Goto(t, "stamp")
    /\ UNCHANGED <<table, age, asked, busy, gone>>

Stamp(t) ==
    /\ pc[t] = "stamp"
    /\ age' = [age EXCEPT ![Of(t)] = 0]
    /\ Goto(t, "answer")
    /\ UNCHANGED <<table, cache, asked, held, busy, gone>>

(* get returns what the cache holds by now, and the provider call goes on  *)
(* with it; all sends it to the console.                                   *)
Answer(t) ==
    /\ pc[t] = "answer"
    /\ IF asked[t] = {} THEN Leave(t)
       ELSE /\ held' = [held EXCEPT ![t] = cache[Of(t)]]
            /\ Goto(t, "call")
            /\ busy' = [busy EXCEPT ![t] = 0]
            /\ UNCHANGED asked
    /\ UNCHANGED <<table, cache, age, gone>>

----------------------------------------------------------------------------
(* set_provider_health and set                                             *)

\* Faulty variant: the body of the request is not checked.
AnyState(s) == TRUE

Accepts(s) == s \in Healths

(* The row is written and committed.                                       *)
Set(t, p, s) ==
    /\ Accepts(s)
    /\ Enter(t, "mark", {p})
    /\ table' = [table EXCEPT ![p] = s]
    /\ held' = [held EXCEPT ![t][p] = s]
    /\ gone' = [gone EXCEPT ![p][s] = 0]
    /\ UNCHANGED <<cache, age>>

(* The cache of this process, but not its time stamp.                      *)
Mark(t) ==
    /\ pc[t] = "mark"
    /\ cache' = [cache EXCEPT ![Of(t)] =
                    [p \in Providers |-> IF p \in asked[t] THEN held[t][p] ELSE @[p]]]
    /\ Leave(t)
    /\ UNCHANGED <<table, age, gone>>

----------------------------------------------------------------------------
(* complete and stream of the mock provider.  The state is asked for once, *)
(* before the first piece; "down" and "degraded" end in a retryable error  *)
(* and nothing is emitted.                                                 *)

\* Faulty variant: only an outage fails.
MayServeDegraded(t) == \A p \in asked[t] : held[t][p] # "down"

MayServe(t) == \A p \in asked[t] : held[t][p] = "up"

Serve(t) ==
    /\ pc[t] = "call"
    /\ MayServe(t)
    /\ Leave(t)
    /\ UNCHANGED <<table, cache, age, gone>>

(* Down, degraded, a transient error or a timeout of its own.              *)
Fail(t) ==
    /\ pc[t] = "call"
    /\ Leave(t)
    /\ UNCHANGED <<table, cache, age, gone>>

(* The worker process dies and another one takes its place.                *)
Restart(W) ==
    /\ cache' = [cache EXCEPT ![W] = AllUp]
    /\ age' = [age EXCEPT ![W] = Ttl + 1]
    /\ pc' = [t \in Threads |-> IF t \in W THEN "idle" ELSE pc[t]]
    /\ asked' = [t \in Threads |-> IF t \in W THEN {} ELSE asked[t]]
    /\ held' = [t \in Threads |-> IF t \in W THEN AllUp ELSE held[t]]
    /\ busy' = [t \in Threads |-> IF t \in W THEN 0 ELSE busy[t]]
    /\ UNCHANGED <<table, gone>>

Step(t) == Read(t) \/ Assign(t) \/ Stamp(t) \/ Answer(t) \/ Mark(t) \/ Serve(t) \/ Fail(t)

Next ==
    \/ Tick
    \/ \E t \in Threads, p \in Providers : Get(t, p)
    \/ \E t \in Admins : All(t)
    \/ \E t \in Admins, p \in Providers, s \in Posted : Set(t, p, s)
    \/ \E t \in Threads : Step(t)
    \/ \E W \in Workers : Restart(W)

Spec == Init /\ [][Next]_vars

(* Time passes and the operating system runs every thread.  No call and no *)
(* toggle has to be made.                                                  *)
FairSpec == Spec /\ WF_vars(Tick) /\ \A t \in Threads : WF_vars(Step(t))

----------------------------------------------------------------------------
(* How stale an answer can be.  The rows are read before the time stamp is *)
(* taken (mock.py 45-47), a slower refresh may replace the rows of a       *)
(* faster one, and the ttl is checked before the cache is looked at (36-   *)
(* 38): what get and all return was in the table at most the ttl and three *)
(* delays of a thread ago.                                                 *)
BoundedStaleness ==
    \A t \in Threads : pc[t] = "answer" =>
        \A p \in Providers : gone[p][cache[Of(t)][p]] <= Bound

(* A toggle that stands is seen by every call of every process after some  *)
(* time, whatever refreshes were under way (mock.py 9-12).                 *)
Converges ==
    \A p \in Providers, s \in Healths :
        <>[](table[p] = s) =>
            <>[](\A t \in Threads : pc[t] = "call" /\ p \in asked[t] => held[t][p] = s)

(* A provider that stays out of order, down or degraded, serves nobody     *)
(* after some time (mock.py 81-88, 103-111).                               *)
OutageIsObeyed ==
    \A p \in Providers :
        <>[](table[p] # "up") =>
            <>[][\A t \in Threads : p \in asked[t] => ~Serve(t)]_vars
=============================================================================
