---------------------------- MODULE LedgerProofs ----------------------------
(***************************************************************************)
(* The promises of module Ledger, for all keys, limits, costs and months   *)
(* and for any number of concurrent requests.                              *)
(***************************************************************************)
EXTENDS Ledger, TLAPS

USE LimitsAssumption, CostAssumption
    DEF LimitsAssumption, CostAssumption, ConcurrencyAssumption

(* The guards of the actions are expanded wherever the action is.          *)
USE DEF HasRoom, Dates, Affords, Charged

(* Months are natural numbers, and the first window has one.               *)
LEMMA ClockFacts ==
    /\ 0 \in Windows
    /\ \A w \in Windows : w \in Nat /\ MonthOf[w] \in Months
    /\ Months \subseteq Nat
BY ClockAssumption DEF ClockAssumption, Windows, Months

(* The largest charge n requests can still make grows with n.              *)
LEMMA ChargesGrow ==
    ASSUME NEW a \in Int, NEW b \in Int, a <= b
    PROVE  a * MaxCost <= b * MaxCost
<1>1. PICK d \in Nat : b = a + d
  BY b - a \in Nat
<1>2. b * MaxCost = a * MaxCost + d * MaxCost
  BY <1>1
<1>3. d * MaxCost >= 0
  OBVIOUS
<1> QED
  BY <1>2, <1>3

(* One request more is one MaxCost more.                                   *)
LEMMA OneMoreCharge ==
    ASSUME NEW n \in Int
    PROVE  (n + 1) * MaxCost = n * MaxCost + MaxCost
OBVIOUS

(* Every variable keeps its type: the stored month is always the month of  *)
(* a window of the clock and no more requests are open than the gateway    *)
(* runs at once.                                                           *)
THEOREM TypeCorrect ==
    ASSUME ConcurrencyAssumption PROVE Spec => []TypeOK
<1>1. Init => TypeOK
  BY ClockFacts DEF Init, TypeOK
<1>2. TypeOK /\ [Next]_vars => TypeOK'
  <2> SUFFICES ASSUME TypeOK, [Next]_vars PROVE TypeOK'
    OBVIOUS
  <2> USE DEF TypeOK
  <2>1. CASE Tick
    BY <2>1, ClockAssumption DEF Tick, Windows, ClockAssumption
  <2>2. ASSUME NEW k \in Keys, NEW w \in Windows, TakeSlot(k, w) PROVE TypeOK'
    BY <2>2 DEF TakeSlot
  <2>3. ASSUME NEW k \in Keys, NEW m \in Months, CheckBudget(k, m) PROVE TypeOK'
    BY <2>3 DEF CheckBudget
  <2>4. ASSUME NEW k \in Keys, NEW c \in 0..MaxCost, Settle(k, c) PROVE TypeOK'
    BY <2>4 DEF Settle
  <2>5. CASE Abandon
    BY <2>5 DEF Abandon
  <2>6. CASE UNCHANGED vars
    BY <2>6 DEF vars
  <2> QED
    BY <2>1, <2>2, <2>3, <2>4, <2>5, <2>6 DEF Next
<1> QED
  BY <1>1, <1>2, PTL DEF Spec

(* No minute of a key is charged more slots than its rpm_limit, for every  *)
(* limit and any number of requests.                                       *)
THEOREM RpmIsKept ==
    ASSUME ConcurrencyAssumption PROVE Spec => []WithinRpm
<1>0. Spec => []TypeOK
  BY TypeCorrect
<1>1. Init => WithinRpm
  BY DEF Init, WithinRpm
<1>2. TypeOK /\ WithinRpm /\ [Next]_vars => WithinRpm'
  <2> SUFFICES ASSUME TypeOK, WithinRpm, [Next]_vars PROVE WithinRpm'
    OBVIOUS
  <2>1. ASSUME NEW k \in Keys, NEW w \in Windows, TakeSlot(k, w) PROVE WithinRpm'
    BY <2>1 DEF TakeSlot, WithinRpm, TypeOK
  <2>2. CASE UNCHANGED used
    BY <2>2 DEF WithinRpm
  <2> QED
    BY <2>1, <2>2 DEF Next, vars, Tick, CheckBudget, Settle, Abandon
<1> QED
  BY <1>0, <1>1, <1>2, PTL DEF Spec

(* The spend of a key can pass its budget only by what the requests that   *)
(* the gateway runs at once may cost, for every budget and every MaxCost.  *)
(* The bound is inductive because it counts the requests still open: each  *)
(* of them keeps one MaxCost in reserve until it is charged.               *)
THEOREM BudgetOverrunIsBounded ==
    ASSUME ConcurrencyAssumption PROVE Spec => []OverrunBound
<1>0. Spec => []TypeOK
  BY TypeCorrect
<1>1. Init => OverrunBound
  <2> SUFFICES ASSUME Init, NEW k \in Keys
               PROVE  0 < Budget[k] + (Concurrency - 0) * MaxCost
    BY DEF Init, OverrunBound
  <2>1. 1 * MaxCost <= Concurrency * MaxCost
    BY ChargesGrow
  <2> QED
    BY <2>1
<1>2. TypeOK /\ OverrunBound /\ [Next]_vars => OverrunBound'
  <2> SUFFICES ASSUME TypeOK, OverrunBound, [Next]_vars, NEW k \in Keys
               PROVE  spent'[k] < Budget[k] + (Concurrency - open'[k]) * MaxCost
    BY DEF OverrunBound
  <2> DEFINE Reserve(n) == (Concurrency - n) * MaxCost
  <2>0. /\ spent[k] \in Nat /\ open[k] \in 0..Concurrency
        /\ Budget[k] \in Nat
        /\ spent[k] < Budget[k] + Reserve(open[k])
    BY DEF TypeOK, OverrunBound
  <2>1. CASE spent'[k] = spent[k] /\ open'[k] = open[k]
    BY <2>0, <2>1
  <2>2. ASSUME NEW m \in Months, CheckBudget(k, m)
        PROVE  spent'[k] < Budget[k] + Reserve(open'[k])
    <3> DEFINE fresh == IF m = period[k] THEN spent[k] ELSE 0
    <3>1. /\ open[k] < Concurrency /\ spent'[k] = fresh /\ fresh \in Nat
          /\ open'[k] = IF fresh < Budget[k] THEN open[k] + 1 ELSE open[k]
      BY <2>0, <2>2 DEF CheckBudget, TypeOK
    <3>2. CASE fresh < Budget[k]
      <4>1. 0 * MaxCost <= (Concurrency - (open[k] + 1)) * MaxCost
        BY <2>0, <3>1, ChargesGrow
      <4>2. Reserve(open'[k]) \in Int /\ 0 <= Reserve(open'[k])
        BY <4>1, <3>1, <3>2, <2>0
      <4> HIDE DEF Reserve
      <4> QED
        BY <4>2, <3>1, <3>2, <2>0
    <3>3. CASE ~(fresh < Budget[k])
      <4>1. 1 * MaxCost <= (Concurrency - open[k]) * MaxCost
        BY <2>0, <3>1, ChargesGrow
      <4>2. Reserve(open'[k]) \in Int /\ 1 <= Reserve(open'[k]) /\ open'[k] = open[k]
        BY <4>1, <3>1, <3>3, <2>0
      <4> HIDE DEF Reserve
      <4> QED
        BY <4>2, <3>1, <3>3, <2>0
    <3> QED
      BY <3>2, <3>3
  <2>3. ASSUME NEW c \in 0..MaxCost, Settle(k, c)
        PROVE  spent'[k] < Budget[k] + Reserve(open'[k])
    <3>1. /\ open[k] > 0 /\ spent'[k] = spent[k] + c /\ open'[k] = open[k] - 1
      BY <2>3 DEF Settle, TypeOK
    <3>2. ((Concurrency - open[k]) + 1) * MaxCost = (Concurrency - open[k]) * MaxCost + MaxCost
      BY <2>0, OneMoreCharge
    <3>3. (Concurrency - open[k]) + 1 = Concurrency - open'[k]
      BY <3>1, <2>0
    <3>4. Reserve(open'[k]) = Reserve(open[k]) + MaxCost /\ Reserve(open[k]) \in Int
      BY <3>2, <3>3, <2>0
    <3> HIDE DEF Reserve
    <3> QED
      BY <3>4, <3>1, <2>0
  <2>4. ASSUME Abandon
        PROVE  spent'[k] < Budget[k] + Reserve(open'[k])
    <3>1. open'[k] \in 0..Concurrency /\ open'[k] <= open[k] /\ spent'[k] = spent[k]
      BY <2>4 DEF Abandon
    <3>2. Reserve(open[k]) <= Reserve(open'[k])
      BY <3>1, <2>0, ChargesGrow
    <3>3. Reserve(open[k]) \in Int /\ Reserve(open'[k]) \in Int
      BY <3>1, <2>0
    <3> HIDE DEF Reserve
    <3> QED
      BY <3>1, <3>2, <3>3, <2>0
  <2>5. ASSUME NEW j \in Keys, j # k,
               \/ \E m \in Months : CheckBudget(j, m)
               \/ \E c \in 0..MaxCost : Settle(j, c)
        PROVE  spent'[k] = spent[k] /\ open'[k] = open[k]
    BY <2>5 DEF CheckBudget, Settle, TypeOK
  <2> HIDE DEF Reserve
  <2> QED
    BY <2>1, <2>2, <2>3, <2>4, <2>5 DEF Next, vars, Tick, TakeSlot, Reserve
<1> QED
  BY <1>0, <1>1, <1>2, PTL DEF Spec

(* The stored spend never falls except when a later month begins.          *)
THEOREM SpendIsMonotoneInAMonth ==
    ASSUME ConcurrencyAssumption PROVE Spec => SpendFallsOnlyWithMonth
<1>0. Spec => []TypeOK
  BY TypeCorrect
<1>1. TypeOK /\ [Next]_vars
        => [\A k \in Keys : spent'[k] < spent[k] => period'[k] > period[k]]_vars
  <2> SUFFICES ASSUME TypeOK, [Next]_vars, NEW k \in Keys, spent'[k] < spent[k]
               PROVE  period'[k] > period[k]
    OBVIOUS
  <2>1. ASSUME NEW j \in Keys, NEW m \in Months, CheckBudget(j, m)
        PROVE  period'[k] > period[k]
    <3>1. j = k
      BY <2>1 DEF CheckBudget, TypeOK
    <3>2. m # period[k] /\ m >= period[k] /\ period'[k] = m
      BY <2>1, <3>1 DEF CheckBudget, TypeOK
    <3>3. m \in Nat /\ period[k] \in Nat
      BY ClockFacts DEF TypeOK
    <3> QED
      BY <3>2, <3>3
  <2>2. ASSUME NEW j \in Keys, NEW c \in 0..MaxCost, Settle(j, c) PROVE FALSE
    BY <2>2 DEF Settle, TypeOK
  <2> QED
    BY <2>1, <2>2 DEF Next, vars, Tick, TakeSlot, Abandon, TypeOK
<1> QED
  BY <1>0, <1>1, PTL DEF Spec, SpendFallsOnlyWithMonth
=============================================================================
