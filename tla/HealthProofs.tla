---------------------------- MODULE HealthProofs ----------------------------
(***************************************************************************)
(* The staleness bound of the health cache, for any providers, processes,  *)
(* threads, ttl and delay.  The inductive invariant follows a row from the *)
(* SELECT to the answer: how old it can be in the hands of a thread that   *)
(* refreshes, in the cache before it is stamped, in the cache as long as   *)
(* it has not expired, and in the cache of a thread about to answer.       *)
(***************************************************************************)
EXTENDS Health, TLAPS

(* What the table holds now has not been gone for any time.                *)
Current == \A p \in Providers : gone[p][table[p]] = 0

(* Rows that were read, and a state that was set, are as old as the call.  *)
InHand ==
    \A t \in Threads, p \in Providers :
        pc[t] = "assign" \/ (pc[t] = "mark" /\ p \in asked[t])
            => gone[p][held[t][p]] <= busy[t]

(* Before the stamp, another refresh may have put in rows of its own.      *)
Unstamped ==
    \A t \in Threads, p \in Providers :
        pc[t] = "stamp" => gone[p][cache[Of(t)][p]] <= busy[t] + Slow

Unexpired ==
    \A W \in Workers, p \in Providers :
        age[W] <= Ttl => gone[p][cache[W][p]] <= age[W] + 2 * Slow

AboutToAnswer ==
    \A t \in Threads, p \in Providers :
        pc[t] = "answer" => gone[p][cache[Of(t)][p]] <= Ttl + 2 * Slow + busy[t]

IInv == TypeOK /\ Current /\ InHand /\ Unstamped /\ Unexpired /\ AboutToAnswer

USE HealthAssumption DEF HealthAssumption

(* Every thread belongs to the process that Of names.                      *)
LEMMA OfType == ASSUME NEW t \in Threads PROVE Of(t) \in Workers /\ t \in Of(t)
BY DEF Threads, Of

LEMMA Numbers == Bound \in Nat /\ Forgotten \in Nat
BY DEF Bound, Forgotten

LEMMA Later == ASSUME NEW n \in 0..Forgotten, n # Forgotten PROVE n + 1 \in 0..Forgotten
BY Numbers

LEMMA UpEverywhere == AllUp \in [Providers -> Healths]
BY DEF AllUp, Healths

(* Every variable keeps its type; above all the table never holds a state  *)
(* that the admin endpoint would have refused.                             *)
THEOREM TypeCorrect == Spec => []TypeOK
<1>1. Init => TypeOK
  <2> SUFFICES ASSUME Init PROVE TypeOK
    OBVIOUS
  <2>1. gone \in [Providers -> [Healths -> 0..Forgotten]]
    BY Numbers DEF Init
  <2> QED
    BY <2>1, UpEverywhere DEF Init, TypeOK
<1>2. TypeOK /\ [Next]_vars => TypeOK'
  <2> SUFFICES ASSUME TypeOK, [Next]_vars PROVE TypeOK'
    OBVIOUS
  <2> USE DEF TypeOK
  <2>1. CASE Tick
    <3>1. age' \in [Workers -> 0..Ttl + 1]
      BY <2>1 DEF Tick
    <3>2. busy' \in [Threads -> 0..Slow]
      BY <2>1 DEF Tick
    <3>3. gone' \in [Providers -> [Healths -> 0..Forgotten]]
      <4> DEFINE g(p, s) == IF s = table[p] \/ gone[p][s] = Forgotten THEN gone[p][s]
                                                                      ELSE gone[p][s] + 1
      <4>1. ASSUME NEW p \in Providers, NEW s \in Healths PROVE g(p, s) \in 0..Forgotten
        <5>1. gone[p][s] \in 0..Forgotten
          OBVIOUS
        <5>2. gone[p][s] # Forgotten => gone[p][s] + 1 \in 0..Forgotten
          BY <5>1, Later
        <5> QED
          BY <5>1, <5>2, Zenon
      <4>2. gone' = [p \in Providers |-> [s \in Healths |-> g(p, s)]]
        BY <2>1 DEF Tick
      <4> HIDE DEF g
      <4> QED
        BY <4>1, <4>2
    <3>4. UNCHANGED <<table, cache, pc, asked, held>>
      BY <2>1 DEF Tick
    <3> QED
      BY <3>1, <3>2, <3>3, <3>4
  <2>2. ASSUME NEW t \in Threads, NEW p \in Providers, Get(t, p) PROVE TypeOK'
    BY <2>2 DEF Get, Enter, Goto, Inside
  <2>3. ASSUME NEW t \in Threads, All(t) PROVE TypeOK'
    BY <2>3 DEF All, Enter, Goto, Inside
  <2>4. ASSUME NEW t \in Threads, NEW p \in Providers, NEW s, Set(t, p, s) PROVE TypeOK'
    <3>1. s \in Healths
      BY <2>4 DEF Set, Accepts
    <3>2. [held[t] EXCEPT ![p] = s] \in [Providers -> Healths]
      BY <3>1
    <3>3. held' \in [Threads -> [Providers -> Healths]]
      BY <2>4, <3>2 DEF Set
    <3>4. [gone[p] EXCEPT ![s] = 0] \in [Healths -> 0..Forgotten]
      BY <3>1, Numbers
    <3>5. gone' \in [Providers -> [Healths -> 0..Forgotten]]
      BY <2>4, <3>4 DEF Set
    <3>6. table' \in [Providers -> Healths] /\ UNCHANGED <<cache, age>>
      BY <2>4, <3>1 DEF Set
    <3>7. /\ pc' \in [Threads -> Inside \cup {"idle", "call"}]
          /\ asked' \in [Threads -> SUBSET Providers]
          /\ busy' \in [Threads -> 0..Slow]
      BY <2>4 DEF Set, Enter, Goto, Inside
    <3> QED
      BY <3>3, <3>5, <3>6, <3>7
  <2>5. ASSUME NEW t \in Threads, Read(t) PROVE TypeOK'
    BY <2>5 DEF Read, Goto, Inside
  <2>11. ASSUME NEW t \in Threads, Assign(t) PROVE TypeOK'
    BY <2>11, OfType, UpEverywhere DEF Assign, Goto, Inside
  <2>12. ASSUME NEW t \in Threads, Stamp(t) PROVE TypeOK'
    BY <2>12, OfType DEF Stamp, Goto, Inside
  <2>10. ASSUME NEW t \in Threads, Answer(t) PROVE TypeOK'
    <3>1. CASE asked[t] = {}
      <4>1. Leave(t) /\ UNCHANGED <<table, cache, age, gone>>
        BY <2>10, <3>1 DEF Answer
      <4> QED
        BY <4>1, UpEverywhere DEF Leave, Goto
    <3>2. CASE asked[t] # {}
      <4>1. /\ held' = [held EXCEPT ![t] = cache[Of(t)]]
            /\ pc' = [pc EXCEPT ![t] = "call"]
            /\ busy' = [busy EXCEPT ![t] = 0]
            /\ UNCHANGED <<asked, table, cache, age, gone>>
        BY <2>10, <3>2 DEF Answer, Goto
      <4> QED
        BY <4>1, OfType
    <3> QED
      BY <3>1, <3>2
  <2>6. ASSUME NEW t \in Threads, Mark(t) PROVE TypeOK'
    <3> DEFINE c == [p \in Providers |-> IF p \in asked[t] THEN held[t][p] ELSE cache[Of(t)][p]]
    <3>1. c \in [Providers -> Healths]
      BY OfType
    <3>2. cache' = [cache EXCEPT ![Of(t)] = c]
      BY <2>6, OfType DEF Mark
    <3> HIDE DEF c
    <3>3. cache' \in [Workers -> [Providers -> Healths]]
      BY <3>1, <3>2
    <3>4. UNCHANGED <<table, age, gone>>
      BY <2>6 DEF Mark
    <3>5. /\ pc' \in [Threads -> Inside \cup {"idle", "call"}]
          /\ asked' \in [Threads -> SUBSET Providers]
          /\ held' \in [Threads -> [Providers -> Healths]]
          /\ busy' \in [Threads -> 0..Slow]
      BY <2>6, UpEverywhere DEF Mark, Leave, Goto
    <3> QED
      BY <3>3, <3>4, <3>5
  <2>7. ASSUME NEW t \in Threads, Serve(t) \/ Fail(t) PROVE TypeOK'
    <3>1. Leave(t) /\ UNCHANGED <<table, cache, age, gone>>
      BY <2>7 DEF Serve, Fail
    <3> QED
      BY <3>1, UpEverywhere DEF Leave, Goto
  <2>8. ASSUME NEW W \in Workers, Restart(W) PROVE TypeOK'
    <3>1. UNCHANGED <<table, gone>>
      BY <2>8 DEF Restart
    <3>2. /\ cache' \in [Workers -> [Providers -> Healths]]
          /\ age' \in [Workers -> 0..Ttl + 1]
      BY <2>8, UpEverywhere DEF Restart
    <3>3. /\ pc' \in [Threads -> Inside \cup {"idle", "call"}]
          /\ asked' \in [Threads -> SUBSET Providers]
      BY <2>8 DEF Restart
    <3>4. /\ held' \in [Threads -> [Providers -> Healths]]
          /\ busy' \in [Threads -> 0..Slow]
      BY <2>8, UpEverywhere DEF Restart
    <3> QED
      BY <3>1, <3>2, <3>3, <3>4
  <2>9. CASE UNCHANGED vars
    BY <2>9 DEF vars
  <2> QED
    BY <2>1, <2>2, <2>3, <2>4, <2>5, <2>6, <2>7, <2>8, <2>9, <2>10, <2>11, <2>12 DEF Next, Step
<1> QED
  BY <1>1, <1>2, PTL DEF Spec

----------------------------------------------------------------------------
(* The types that the steps below need, at one point.                      *)
LEMMA Points ==
    ASSUME TypeOK, NEW t \in Threads, NEW W \in Workers, NEW p \in Providers
    PROVE  /\ busy[t] \in Nat /\ busy[t] <= Slow
           /\ age[W] \in Nat
           /\ table[p] \in Healths /\ cache[W][p] \in Healths /\ held[t][p] \in Healths
BY DEF TypeOK

LEMMA GoneIsNat ==
    ASSUME TypeOK, NEW p \in Providers, NEW s \in Healths PROVE gone[p][s] \in Nat
BY Numbers DEF TypeOK

(* In one tick nothing gets older by more than one.                        *)
LEMMA TickAges ==
    ASSUME TypeOK, Tick, NEW p \in Providers, NEW s \in Healths
    PROVE  gone'[p][s] <= gone[p][s] + 1 /\ (s = table[p] => gone'[p][s] = gone[p][s])
<1>1. gone'[p][s] = IF s = table[p] \/ gone[p][s] = Forgotten THEN gone[p][s]
                                                              ELSE gone[p][s] + 1
  BY DEF Tick
<1>2. gone[p][s] \in Nat
  BY GoneIsNat
<1> QED
  BY <1>1, <1>2

(* A toggle makes nothing older.                                           *)
LEMMA SetAges ==
    ASSUME TypeOK, NEW t \in Threads, NEW q \in Providers, NEW r, Set(t, q, r),
           NEW p \in Providers, NEW s \in Healths
    PROVE  gone'[p][s] <= gone[p][s] /\ (p = q /\ s = r => gone'[p][s] = 0)
<1>1. gone' = [gone EXCEPT ![q][r] = 0]
  BY DEF Set
<1>2. gone[p][s] \in Nat
  BY GoneIsNat
<1>3. gone'[p][s] = IF p = q /\ s = r THEN 0 ELSE gone[p][s]
  BY <1>1 DEF TypeOK
<1> QED
  BY <1>2, <1>3

LEMMA InitInv == Init => Current /\ InHand /\ Unstamped /\ Unexpired /\ AboutToAnswer
<1> SUFFICES ASSUME Init PROVE Current /\ InHand /\ Unstamped /\ Unexpired /\ AboutToAnswer
  OBVIOUS
<1>1. Current
  BY DEF Init, Current, AllUp, Healths
<1>2. InHand /\ Unstamped /\ AboutToAnswer
  BY DEF Init, InHand, Unstamped, AboutToAnswer
<1>3. Unexpired
  BY DEF Init, Unexpired
<1> QED
  BY <1>1, <1>2, <1>3

LEMMA TickInv == IInv /\ Tick => Current' /\ InHand' /\ Unstamped' /\ Unexpired' /\ AboutToAnswer'
<1> SUFFICES ASSUME IInv, Tick
             PROVE  Current' /\ InHand' /\ Unstamped' /\ Unexpired' /\ AboutToAnswer'
  OBVIOUS
<1> USE DEF IInv
<1>0. UNCHANGED <<table, cache, pc, asked, held>>
  BY DEF Tick
<1>1. ASSUME NEW t \in Threads, pc[t] \in Inside PROVE busy'[t] = busy[t] + 1
  BY <1>1 DEF Tick
<1>2. ASSUME NEW p \in Providers, NEW s \in Healths, NEW b \in Int, gone[p][s] <= b
      PROVE  gone'[p][s] <= b + 1
  <2>1. gone[p][s] \in Nat /\ gone'[p][s] <= gone[p][s] + 1
    BY GoneIsNat, TickAges
  <2>2. gone'[p][s] = gone[p][s] \/ gone'[p][s] = gone[p][s] + 1
    BY DEF Tick, TypeOK
  <2> QED
    BY <1>2, <2>1, <2>2
<1>3. Current'
  BY <1>0, TickAges, Points DEF Current, TypeOK
<1>4. InHand'
  <2> SUFFICES ASSUME NEW t \in Threads, NEW p \in Providers,
                      pc[t] = "assign" \/ (pc[t] = "mark" /\ p \in asked[t])
               PROVE  gone'[p][held[t][p]] <= busy'[t]
    BY <1>0 DEF InHand
  <2>1. gone[p][held[t][p]] <= busy[t]
    BY DEF InHand
  <2>2. held[t][p] \in Healths /\ busy[t] \in Int /\ pc[t] \in Inside
    BY DEF TypeOK, Inside
  <2> QED
    BY <2>1, <2>2, <1>1, <1>2
<1>5. Unstamped'
  <2> SUFFICES ASSUME NEW t \in Threads, NEW p \in Providers, pc[t] = "stamp"
               PROVE  gone'[p][cache[Of(t)][p]] <= busy'[t] + Slow
    BY <1>0 DEF Unstamped
  <2>1. gone[p][cache[Of(t)][p]] <= busy[t] + Slow
    BY DEF Unstamped
  <2>2. cache[Of(t)][p] \in Healths /\ busy[t] \in Int /\ pc[t] \in Inside
    BY OfType DEF TypeOK, Inside
  <2>3. gone'[p][cache[Of(t)][p]] <= (busy[t] + Slow) + 1
    BY <2>1, <2>2, <1>2
  <2>4. busy'[t] = busy[t] + 1
    BY <2>2, <1>1
  <2> QED
    BY <2>2, <2>3, <2>4
<1>6. Unexpired'
  <2> SUFFICES ASSUME NEW W \in Workers, NEW p \in Providers, age'[W] <= Ttl
               PROVE  gone'[p][cache[W][p]] <= age'[W] + 2 * Slow
    BY <1>0 DEF Unexpired
  <2>1. age[W] \in Nat /\ age[W] <= Ttl /\ age'[W] = age[W] + 1
    <3>1. age[W] \in Nat
      BY DEF TypeOK
    <3>2. age'[W] = IF age[W] > Ttl THEN age[W] ELSE age[W] + 1
      BY DEF Tick
    <3> QED
      BY <3>1, <3>2
  <2>2. gone[p][cache[W][p]] <= age[W] + 2 * Slow
    BY <2>1 DEF Unexpired
  <2>3. cache[W][p] \in Healths /\ age[W] + 2 * Slow \in Int
    BY <2>1 DEF TypeOK
  <2>4. gone'[p][cache[W][p]] <= (age[W] + 2 * Slow) + 1
    BY <2>2, <2>3, <1>2
  <2> QED
    BY <2>1, <2>4
<1>7. AboutToAnswer'
  <2> SUFFICES ASSUME NEW t \in Threads, NEW p \in Providers, pc[t] = "answer"
               PROVE  gone'[p][cache[Of(t)][p]] <= Ttl + 2 * Slow + busy'[t]
    BY <1>0 DEF AboutToAnswer
  <2>1. gone[p][cache[Of(t)][p]] <= Ttl + 2 * Slow + busy[t]
    BY DEF AboutToAnswer
  <2>2. cache[Of(t)][p] \in Healths /\ busy[t] \in Int /\ pc[t] \in Inside
    BY OfType DEF TypeOK, Inside
  <2>3. gone'[p][cache[Of(t)][p]] <= (Ttl + 2 * Slow + busy[t]) + 1
    BY <2>1, <2>2, <1>2
  <2>4. busy'[t] = busy[t] + 1
    BY <2>2, <1>1
  <2> QED
    BY <2>2, <2>3, <2>4
<1> QED
  BY <1>3, <1>4, <1>5, <1>6, <1>7

LEMMA EnterInv ==
    ASSUME IInv, NEW t \in Threads, NEW P, NEW c, Enter(t, c, P),
           c \in {"read", "answer"}, c = "answer" => age[Of(t)] <= Ttl,
           UNCHANGED <<table, cache, age, held, gone>>
    PROVE  Current' /\ InHand' /\ Unstamped' /\ Unexpired' /\ AboutToAnswer'
<1> USE DEF IInv
<1>1. pc' = [pc EXCEPT ![t] = c] /\ busy' = [busy EXCEPT ![t] = 0] /\ asked' = [asked EXCEPT ![t] = P]
  BY DEF Enter, Goto
<1>2. ASSUME NEW u \in Threads, u # t
      PROVE  pc'[u] = pc[u] /\ busy'[u] = busy[u] /\ asked'[u] = asked[u]
  BY <1>1, <1>2 DEF TypeOK
<1>3. pc'[t] = c /\ busy'[t] = 0
  BY <1>1 DEF TypeOK
<1>4. Current' /\ Unexpired'
  BY DEF Current, Unexpired
<1>5. InHand'
  BY <1>2, <1>3 DEF InHand
<1>6. Unstamped'
  BY <1>2, <1>3 DEF Unstamped
<1>7. AboutToAnswer'
  <2> SUFFICES ASSUME NEW u \in Threads, NEW p \in Providers, pc'[u] = "answer"
               PROVE  gone[p][cache[Of(u)][p]] <= Ttl + 2 * Slow + busy'[u]
    BY DEF AboutToAnswer
  <2>1. CASE u # t
    BY <1>2, <2>1 DEF AboutToAnswer
  <2>2. CASE u = t
    <3>1. Of(t) \in Workers /\ age[Of(t)] <= Ttl /\ age[Of(t)] \in Nat
      BY <1>3, <2>2, OfType DEF TypeOK
    <3>2. gone[p][cache[Of(t)][p]] <= age[Of(t)] + 2 * Slow
      BY <3>1 DEF Unexpired
    <3>3. cache[Of(t)][p] \in Healths
      BY <3>1 DEF TypeOK
    <3>4. gone[p][cache[Of(t)][p]] \in Nat
      BY <3>3, GoneIsNat
    <3> QED
      BY <2>2, <1>3, <3>1, <3>2, <3>4
  <2> QED
    BY <2>1, <2>2
<1> QED
  BY <1>4, <1>5, <1>6, <1>7

(* A thread that leaves owes nothing.                                      *)
LEMMA LeaveInv ==
    ASSUME IInv, NEW t \in Threads, NEW c \in {"idle", "call"},
           pc' = [pc EXCEPT ![t] = c],
           \A u \in Threads \ {t} : /\ busy'[u] = busy[u] /\ asked'[u] = asked[u]
                                    /\ held'[u] = held[u],
           UNCHANGED <<table, cache, age, gone>>
    PROVE  Current' /\ InHand' /\ Unstamped' /\ Unexpired' /\ AboutToAnswer'
<1> USE DEF IInv
<1>1. pc'[t] = c /\ \A u \in Threads : u # t => pc'[u] = pc[u]
  BY DEF TypeOK
<1>2. Current' /\ Unexpired'
  BY DEF Current, Unexpired
<1>3. InHand'
  BY <1>1 DEF InHand
<1>4. Unstamped'
  BY <1>1 DEF Unstamped
<1>5. AboutToAnswer'
  BY <1>1 DEF AboutToAnswer
<1> QED
  BY <1>2, <1>3, <1>4, <1>5

(* Rows, or a state, that a thread had in its hands get into the cache of  *)
(* its process.  They are at most Slow old.                                *)
LEMMA FillInv ==
    ASSUME IInv, NEW t \in Threads, NEW c \in {"idle", "stamp"},
           pc' = [pc EXCEPT ![t] = c],
           \A u \in Threads \ {t} : /\ busy'[u] = busy[u] /\ asked'[u] = asked[u]
                                    /\ held'[u] = held[u],
           c = "stamp" => busy' = busy,
           \A p \in Providers : \/ /\ cache'[Of(t)][p] = held[t][p]
                                   /\ gone[p][held[t][p]] <= busy[t]
                                \/ /\ cache'[Of(t)][p] = cache[Of(t)][p]
                                   /\ c = "idle",
           \A W \in Workers : W # Of(t) => cache'[W] = cache[W],
           TypeOK',
           UNCHANGED <<table, age, gone>>
    PROVE  Current' /\ InHand' /\ Unstamped' /\ Unexpired' /\ AboutToAnswer'
<1> USE DEF IInv
<1>1. pc'[t] = c /\ \A u \in Threads : u # t => pc'[u] = pc[u]
  BY DEF TypeOK
<1>2. Current'
  BY DEF Current
<1>3. InHand'
  BY <1>1 DEF InHand
<1>4. ASSUME NEW W \in Workers, NEW p \in Providers
      PROVE  \/ gone[p][cache'[W][p]] <= Slow
             \/ cache'[W][p] = cache[W][p] /\ (W = Of(t) => c = "idle")
  <2>1. busy[t] <= Slow /\ busy[t] \in Nat /\ gone[p][held[t][p]] \in Nat
    BY GoneIsNat, Points
  <2> QED
    BY <2>1
<1>5. \A W \in Workers, p \in Providers : gone[p][cache'[W][p]] \in Nat
  BY GoneIsNat DEF TypeOK
<1>6. Unstamped'
  <2> SUFFICES ASSUME NEW u \in Threads, NEW p \in Providers, pc'[u] = "stamp"
               PROVE  gone[p][cache'[Of(u)][p]] <= busy'[u] + Slow
    BY DEF Unstamped
  <2>1. Of(u) \in Workers /\ busy'[u] \in Nat
    BY OfType DEF TypeOK
  <2>2. CASE gone[p][cache'[Of(u)][p]] <= Slow
    BY <2>1, <2>2, <1>5
  <2>3. CASE cache'[Of(u)][p] = cache[Of(u)][p] /\ (Of(u) = Of(t) => c = "idle")
    BY <2>3, <1>1 DEF Unstamped
  <2> QED
    BY <2>1, <2>2, <2>3, <1>4
<1>7. Unexpired'
  <2> SUFFICES ASSUME NEW W \in Workers, NEW p \in Providers, age[W] <= Ttl
               PROVE  gone[p][cache'[W][p]] <= age[W] + 2 * Slow
    BY DEF Unexpired
  <2>1. age[W] \in Nat
    BY DEF TypeOK
  <2>2. CASE gone[p][cache'[W][p]] <= Slow
    BY <2>1, <2>2, <1>5
  <2>3. CASE cache'[W][p] = cache[W][p]
    BY <2>3 DEF Unexpired
  <2> QED
    BY <2>2, <2>3, <1>4
<1>8. AboutToAnswer'
  <2> SUFFICES ASSUME NEW u \in Threads, NEW p \in Providers, pc'[u] = "answer"
               PROVE  gone[p][cache'[Of(u)][p]] <= Ttl + 2 * Slow + busy'[u]
    BY DEF AboutToAnswer
  <2>1. Of(u) \in Workers /\ busy'[u] \in Nat
    BY OfType DEF TypeOK
  <2>2. CASE gone[p][cache'[Of(u)][p]] <= Slow
    BY <2>1, <2>2, <1>5
  <2>3. CASE cache'[Of(u)][p] = cache[Of(u)][p]
    BY <2>3, <1>1 DEF AboutToAnswer
  <2> QED
    BY <2>1, <2>2, <2>3, <1>4
<1> QED
  BY <1>2, <1>3, <1>6, <1>7, <1>8

LEMMA StampInv ==
    ASSUME IInv, NEW t \in Threads, Stamp(t)
    PROVE  Current' /\ InHand' /\ Unstamped' /\ Unexpired' /\ AboutToAnswer'
<1> USE DEF IInv
<1>1. /\ pc[t] = "stamp"
      /\ pc' = [pc EXCEPT ![t] = "answer"]
      /\ age' = [age EXCEPT ![Of(t)] = 0]
      /\ UNCHANGED <<table, cache, asked, held, busy, gone>>
  BY DEF Stamp, Goto
<1>2. pc'[t] = "answer" /\ \A u \in Threads : u # t => pc'[u] = pc[u]
  BY <1>1 DEF TypeOK
<1>3. ASSUME NEW p \in Providers
      PROVE  /\ gone[p][cache[Of(t)][p]] <= busy[t] + Slow
             /\ gone[p][cache[Of(t)][p]] \in Nat
             /\ busy[t] \in Nat /\ busy[t] <= Slow
  BY <1>1, OfType, Points, GoneIsNat DEF Unstamped
<1>4. Current' /\ InHand' /\ Unstamped'
  BY <1>1, <1>2 DEF Current, InHand, Unstamped
<1>5. Unexpired'
  <2> SUFFICES ASSUME NEW W \in Workers, NEW p \in Providers, age'[W] <= Ttl
               PROVE  gone[p][cache[W][p]] <= age'[W] + 2 * Slow
    BY <1>1 DEF Unexpired
  <2>1. CASE W = Of(t)
    <3>1. age'[W] = 0
      BY <1>1, <2>1 DEF TypeOK
    <3> QED
      BY <1>3, <2>1, <3>1
  <2>2. CASE W # Of(t)
    <3>1. age'[W] = age[W]
      BY <1>1, <2>2 DEF TypeOK
    <3> QED
      BY <3>1 DEF Unexpired
  <2> QED
    BY <2>1, <2>2
<1>6. AboutToAnswer'
  <2> SUFFICES ASSUME NEW u \in Threads, NEW p \in Providers, pc'[u] = "answer"
               PROVE  gone[p][cache[Of(u)][p]] <= Ttl + 2 * Slow + busy[u]
    BY <1>1 DEF AboutToAnswer
  <2>1. CASE u = t
    BY <1>3, <2>1
  <2>2. CASE u # t
    BY <1>2, <2>2 DEF AboutToAnswer
  <2> QED
    BY <2>1, <2>2
<1> QED
  BY <1>4, <1>5, <1>6

LEMMA SetInv ==
    ASSUME IInv, TypeOK', NEW t \in Threads, NEW q \in Providers, NEW r, Set(t, q, r)
    PROVE  Current' /\ InHand' /\ Unstamped' /\ Unexpired' /\ AboutToAnswer'
<1> USE DEF IInv
<1>1. /\ r \in Healths
      /\ table' = [table EXCEPT ![q] = r]
      /\ held' = [held EXCEPT ![t] = [held[t] EXCEPT ![q] = r]]
      /\ pc' = [pc EXCEPT ![t] = "mark"]
      /\ asked' = [asked EXCEPT ![t] = {q}]
      /\ busy' = [busy EXCEPT ![t] = 0]
      /\ UNCHANGED <<cache, age>>
  BY DEF Set, Enter, Goto, Accepts
<1>2. ASSUME NEW u \in Threads, u # t
      PROVE  /\ pc'[u] = pc[u] /\ busy'[u] = busy[u]
             /\ asked'[u] = asked[u] /\ held'[u] = held[u]
  BY <1>1, <1>2 DEF TypeOK
<1>3. pc'[t] = "mark" /\ busy'[t] = 0 /\ asked'[t] = {q} /\ held'[t][q] = r
  BY <1>1 DEF TypeOK
<1>4. ASSUME NEW p \in Providers, NEW s \in Healths, NEW b \in Int, gone[p][s] <= b
      PROVE  gone'[p][s] <= b
  <2>1. gone'[p][s] \in Nat /\ gone[p][s] \in Nat
    BY Numbers DEF TypeOK
  <2>2. gone'[p][s] <= gone[p][s]
    BY SetAges
  <2> QED
    BY <1>4, <2>1, <2>2
<1>5. Current'
  <2> SUFFICES ASSUME NEW p \in Providers PROVE gone'[p][table'[p]] = 0
    BY DEF Current
  <2>1. CASE p = q
    <3>1. table'[p] = r
      BY <1>1, <2>1 DEF TypeOK
    <3> QED
      BY <1>1, <2>1, <3>1, SetAges
  <2>2. CASE p # q
    <3>1. table'[p] = table[p] /\ table[p] \in Healths
      BY <1>1, <2>2 DEF TypeOK
    <3>2. gone'[p][table[p]] <= 0
      BY <3>1, <1>4 DEF Current
    <3>3. gone'[p][table[p]] \in Nat
      BY <3>1, Numbers DEF TypeOK
    <3> QED
      BY <3>1, <3>2, <3>3
  <2> QED
    BY <2>1, <2>2
<1>6. InHand'
  <2> SUFFICES ASSUME NEW u \in Threads, NEW p \in Providers,
                      pc'[u] = "assign" \/ (pc'[u] = "mark" /\ p \in asked'[u])
               PROVE  gone'[p][held'[u][p]] <= busy'[u]
    BY DEF InHand
  <2>1. CASE u = t
    <3>1. p = q /\ held'[u][p] = r
      BY <1>3, <2>1
    <3>2. gone'[p][r] = 0
      BY <1>1, <3>1, SetAges
    <3> QED
      BY <1>3, <2>1, <3>1, <3>2
  <2>2. CASE u # t
    <3>1. gone[p][held[u][p]] <= busy[u]
      BY <1>2, <2>2 DEF InHand
    <3>2. held[u][p] \in Healths /\ busy[u] \in Int
      BY DEF TypeOK
    <3> QED
      BY <1>2, <1>4, <2>2, <3>1, <3>2
  <2> QED
    BY <2>1, <2>2
<1>7. Unstamped'
  <2> SUFFICES ASSUME NEW u \in Threads, NEW p \in Providers, pc'[u] = "stamp"
               PROVE  gone'[p][cache[Of(u)][p]] <= busy'[u] + Slow
    BY <1>1 DEF Unstamped
  <2>1. u # t
    BY <1>3
  <2>2. gone[p][cache[Of(u)][p]] <= busy[u] + Slow
    BY <1>2, <2>1 DEF Unstamped
  <2>3. cache[Of(u)][p] \in Healths /\ busy[u] + Slow \in Int
    BY OfType DEF TypeOK
  <2> QED
    BY <1>2, <1>4, <2>1, <2>2, <2>3
<1>8. Unexpired'
  <2> SUFFICES ASSUME NEW W \in Workers, NEW p \in Providers, age[W] <= Ttl
               PROVE  gone'[p][cache[W][p]] <= age[W] + 2 * Slow
    BY <1>1 DEF Unexpired
  <2>1. cache[W][p] \in Healths /\ age[W] + 2 * Slow \in Int
    BY DEF TypeOK
  <2>2. gone[p][cache[W][p]] <= age[W] + 2 * Slow
    BY DEF Unexpired
  <2> QED
    BY <1>4, <2>1, <2>2
<1>9. AboutToAnswer'
  <2> SUFFICES ASSUME NEW u \in Threads, NEW p \in Providers, pc'[u] = "answer"
               PROVE  gone'[p][cache[Of(u)][p]] <= Ttl + 2 * Slow + busy'[u]
    BY <1>1 DEF AboutToAnswer
  <2>1. u # t
    BY <1>3
  <2>2. gone[p][cache[Of(u)][p]] <= Ttl + 2 * Slow + busy[u]
    BY <1>2, <2>1 DEF AboutToAnswer
  <2>3. cache[Of(u)][p] \in Healths /\ Ttl + 2 * Slow + busy[u] \in Int
    BY OfType DEF TypeOK
  <2> QED
    BY <1>2, <1>4, <2>1, <2>2, <2>3
<1> QED
  BY <1>5, <1>6, <1>7, <1>8, <1>9

LEMMA RestartInv ==
    ASSUME IInv, NEW W \in Workers, Restart(W)
    PROVE  Current' /\ InHand' /\ Unstamped' /\ Unexpired' /\ AboutToAnswer'
<1> USE DEF IInv
<1>1. UNCHANGED <<table, gone>>
  BY DEF Restart
<1>2. ASSUME NEW V \in Workers, V # W PROVE cache'[V] = cache[V] /\ age'[V] = age[V]
  BY <1>2 DEF Restart, TypeOK
<1>3. age'[W] = Ttl + 1
  BY DEF Restart, TypeOK
<1>4. ASSUME NEW t \in Threads, t \in W PROVE pc'[t] = "idle"
  BY <1>4 DEF Restart
<1>5. ASSUME NEW t \in Threads, t \notin W
      PROVE  /\ pc'[t] = pc[t] /\ asked'[t] = asked[t]
             /\ held'[t] = held[t] /\ busy'[t] = busy[t]
             /\ Of(t) \in Workers /\ Of(t) # W
  BY <1>5, OfType DEF Restart
<1>6. Current'
  BY <1>1 DEF Current
<1>7. InHand'
  BY <1>1, <1>4, <1>5 DEF InHand
<1>8. Unstamped'
  BY <1>1, <1>2, <1>4, <1>5 DEF Unstamped
<1>9. Unexpired'
  BY <1>1, <1>2, <1>3 DEF Unexpired
<1>10. AboutToAnswer'
  BY <1>1, <1>2, <1>4, <1>5 DEF AboutToAnswer
<1> QED
  BY <1>6, <1>7, <1>8, <1>9, <1>10

(* The invariant that carries the bound.                                   *)
THEOREM Invariance == Spec => []IInv
<1> DEFINE Rest == Current /\ InHand /\ Unstamped /\ Unexpired /\ AboutToAnswer
<1>1. Init => Rest
  BY InitInv
<1>2. IInv /\ TypeOK' /\ [Next]_vars => Rest'
  <2> SUFFICES ASSUME IInv, TypeOK', [Next]_vars PROVE Rest'
    OBVIOUS
  <2>1. CASE Tick
    BY <2>1, TickInv
  <2>2. ASSUME NEW t \in Threads, NEW p \in Providers, Get(t, p) PROVE Rest'
    <3> DEFINE c == IF Expired(Of(t)) THEN "read" ELSE "answer"
    <3>1. Enter(t, c, {p}) /\ UNCHANGED <<table, cache, age, held, gone>>
      BY <2>2 DEF Get
    <3>2. c = "answer" => age[Of(t)] <= Ttl
      <4>1. age[Of(t)] \in Nat
        BY OfType DEF IInv, TypeOK
      <4> QED
        BY <4>1 DEF Expired
    <3>3. c \in {"read", "answer"}
      OBVIOUS
    <3> HIDE DEF c
    <3> QED
      BY <3>1, <3>2, <3>3, EnterInv
  <2>3. ASSUME NEW t \in Threads, All(t) PROVE Rest'
    BY <2>3, EnterInv DEF All
  <2>4. ASSUME NEW t \in Threads, NEW p \in Providers, NEW s, Set(t, p, s) PROVE Rest'
    BY <2>4, SetInv
  <2>5. ASSUME NEW t \in Threads, Read(t) PROVE Rest'
    <3>1. /\ pc' = [pc EXCEPT ![t] = "assign"]
          /\ held' = [held EXCEPT ![t] = table]
          /\ UNCHANGED <<table, cache, age, asked, busy, gone>>
      BY <2>5 DEF Read, Goto
    <3>2. pc'[t] = "assign" /\ held'[t] = table
      BY <3>1 DEF IInv, TypeOK
    <3>3. ASSUME NEW u \in Threads, u # t PROVE pc'[u] = pc[u] /\ held'[u] = held[u]
      BY <3>1, <3>3 DEF IInv, TypeOK
    <3>4. Current' /\ Unexpired'
      BY <3>1 DEF IInv, Current, Unexpired
    <3>5. InHand'
      <4>1. \A p \in Providers : gone[p][table[p]] = 0 /\ busy[t] \in Nat
        BY DEF IInv, Current, TypeOK
      <4> QED
        BY <3>1, <3>2, <3>3, <4>1 DEF IInv, InHand
    <3>6. Unstamped'
      BY <3>1, <3>2, <3>3 DEF IInv, Unstamped
    <3>7. AboutToAnswer'
      BY <3>1, <3>2, <3>3 DEF IInv, AboutToAnswer
    <3> QED
      BY <3>4, <3>5, <3>6, <3>7
  <2>6. ASSUME NEW t \in Threads, Assign(t) PROVE Rest'
    <3>1. /\ pc[t] = "assign"
          /\ pc' = [pc EXCEPT ![t] = "stamp"]
          /\ cache' = [cache EXCEPT ![Of(t)] = held[t]]
          /\ held' = [held EXCEPT ![t] = AllUp]
          /\ UNCHANGED <<table, age, asked, busy, gone>>
      BY <2>6 DEF Assign, Goto
    <3>2. \A u \in Threads \ {t} : held'[u] = held[u]
      BY <3>1 DEF IInv, TypeOK
    <3>3. cache'[Of(t)] = held[t]
      BY <3>1, OfType DEF IInv, TypeOK
    <3>4. \A W \in Workers : W # Of(t) => cache'[W] = cache[W]
      BY <3>1 DEF IInv, TypeOK
    <3>5. \A p \in Providers : gone[p][held[t][p]] <= busy[t]
      BY <3>1 DEF IInv, InHand
    <3> QED
      BY <3>1, <3>2, <3>3, <3>4, <3>5, FillInv
  <2>7. ASSUME NEW t \in Threads, Stamp(t) PROVE Rest'
    BY <2>7, StampInv
  <2>8. ASSUME NEW t \in Threads, Leave(t), UNCHANGED <<table, cache, age, gone>> PROVE Rest'
    <3>1. pc' = [pc EXCEPT ![t] = "idle"]
      BY <2>8 DEF Leave, Goto
    <3>2. \A u \in Threads \ {t} : /\ busy'[u] = busy[u] /\ asked'[u] = asked[u]
                                    /\ held'[u] = held[u]
      BY <2>8 DEF Leave, IInv, TypeOK
    <3> QED
      BY <2>8, <3>1, <3>2, LeaveInv
  <2>9. ASSUME NEW t \in Threads, Answer(t) PROVE Rest'
    <3>1. CASE asked[t] = {}
      BY <2>8, <2>9, <3>1 DEF Answer
    <3>2. CASE asked[t] # {}
      <4>1. /\ held' = [held EXCEPT ![t] = cache[Of(t)]]
            /\ pc' = [pc EXCEPT ![t] = "call"]
            /\ busy' = [busy EXCEPT ![t] = 0]
            /\ UNCHANGED <<asked, table, cache, age, gone>>
        BY <2>9, <3>2 DEF Answer, Goto
      <4>2. \A u \in Threads \ {t} : /\ busy'[u] = busy[u] /\ asked'[u] = asked[u]
                                      /\ held'[u] = held[u]
        BY <4>1 DEF IInv, TypeOK
      <4> QED
        BY <4>1, <4>2, LeaveInv
    <3> QED
      BY <3>1, <3>2
  <2>10. ASSUME NEW t \in Threads, Mark(t) PROVE Rest'
    <3> DEFINE c == [p \in Providers |-> IF p \in asked[t] THEN held[t][p] ELSE cache[Of(t)][p]]
    <3>1. pc[t] = "mark" /\ Leave(t) /\ UNCHANGED <<table, age, gone>>
      BY <2>10 DEF Mark
    <3>2. cache' = [cache EXCEPT ![Of(t)] = c]
      BY <2>10, OfType DEF Mark, IInv, TypeOK
    <3>3. \A p \in Providers : c[p] = IF p \in asked[t] THEN held[t][p] ELSE cache[Of(t)][p]
      OBVIOUS
    <3> HIDE DEF c
    <3>4. cache'[Of(t)] = c
      BY <3>2, OfType DEF IInv, TypeOK
    <3>5. \A W \in Workers : W # Of(t) => cache'[W] = cache[W]
      BY <3>2 DEF IInv, TypeOK
    <3>6. \A p \in Providers : p \in asked[t] => gone[p][held[t][p]] <= busy[t]
      BY <3>1 DEF IInv, InHand
    <3>7. pc' = [pc EXCEPT ![t] = "idle"]
      BY <3>1 DEF Leave, Goto
    <3>8. \A u \in Threads \ {t} : /\ busy'[u] = busy[u] /\ asked'[u] = asked[u]
                                    /\ held'[u] = held[u]
      BY <3>1 DEF Leave, IInv, TypeOK
    <3>9. \A p \in Providers : \/ /\ cache'[Of(t)][p] = held[t][p]
                                   /\ gone[p][held[t][p]] <= busy[t]
                                \/ cache'[Of(t)][p] = cache[Of(t)][p]
      BY <3>3, <3>4, <3>6
    <3> QED
      BY <3>1, <3>5, <3>7, <3>8, <3>9, FillInv
  <2>11. ASSUME NEW t \in Threads, Serve(t) \/ Fail(t) PROVE Rest'
    BY <2>8, <2>11 DEF Serve, Fail
  <2>12. ASSUME NEW W \in Workers, Restart(W) PROVE Rest'
    BY <2>12, RestartInv
  <2>13. CASE UNCHANGED vars
    BY <2>13 DEF vars, IInv, Current, InHand, Unstamped, Unexpired, AboutToAnswer
  <2> QED
    BY <2>1, <2>2, <2>3, <2>4, <2>5, <2>6, <2>7, <2>9, <2>10, <2>11, <2>12, <2>13 DEF Next, Step
<1>3. IInv <=> TypeOK /\ Rest
  BY DEF IInv
<1> HIDE DEF Rest
<1> QED
  BY <1>1, <1>2, <1>3, TypeCorrect, PTL DEF Spec

(* Whatever the interleaving of refreshes, toggles and restarts, no        *)
(* provider call and no console answer is given a state that left the      *)
(* table more than the ttl and three delays ago.                           *)
THEOREM StalenessIsBounded == Spec => []BoundedStaleness
<1>1. IInv => BoundedStaleness
  <2> SUFFICES ASSUME IInv, NEW t \in Threads, pc[t] = "answer", NEW p \in Providers
               PROVE  gone[p][cache[Of(t)][p]] <= Bound
    BY DEF BoundedStaleness
  <2>1. gone[p][cache[Of(t)][p]] <= Ttl + 2 * Slow + busy[t]
    BY DEF IInv, AboutToAnswer
  <2>2. Of(t) \in Workers /\ busy[t] \in Nat /\ busy[t] <= Slow
    BY OfType, Points DEF IInv
  <2>3. gone[p][cache[Of(t)][p]] \in Nat
    BY <2>2, Points, GoneIsNat DEF IInv
  <2> QED
    BY <2>1, <2>2, <2>3 DEF Bound
<1> QED
  BY <1>1, Invariance, PTL
=============================================================================
