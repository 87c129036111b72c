-------------------------- MODULE AdmissionProofs ---------------------------
(***************************************************************************)
(* Safety of the admission transactions for any keys, limits, workers and  *)
(* clock.  The inductive invariant says what the write lock buys: only its *)
(* holder is inside a transaction, so the row it has read stays as it was  *)
(* until it commits.                                                       *)
(***************************************************************************)
EXTENDS Admission, FiniteSetTheorems, TLAPS

(* The guards of the actions are expanded wherever the action is.          *)
USE DEF InTime, LockIsFree, Unlock, HasRoom, Today, Affords, Charged

IInv ==
    /\ TypeOK
    /\ LockDiscipline
    /\ FreshRead
    /\ WindowIsRecent
    /\ WindowLimit
    /\ PassedFromWindows

(* The clock starts in a window, and the month of a window is a month.     *)
LEMMA ClockFacts ==
    /\ 0 \in Windows
    /\ Windows \subseteq Nat
    /\ \A w \in Windows : MonthOf[w] \in Months
    /\ \A w \in Windows : w < MaxNow => w + 1 \in Windows
BY ClockAssumption DEF ClockAssumption, Windows, Months

LEMMA CostFacts == MaxCost \in Nat /\ 0 \in 0..MaxCost /\ 0..MaxCost \subseteq Nat
BY CostAssumption DEF CostAssumption

(* The states of a thread, spelled out for the provers.                    *)
LEMMA WaitingTypes ==
    ASSUME NEW s \in Waiting
    PROVE  /\ Behind[s] \in InTxn
           /\ s \notin InTxn
           /\ Behind[s] \notin {"rate_decide", "budget_decide", "idle"}
           /\ s # "rate_begin" => Behind[s] \notin InRate
           /\ Behind[s] \in States
BY DEF Waiting, Behind, InTxn, InRate, InBudget, States

(* A step of a thread moves only its own program counter and frame.        *)
LEMMA TypeStep == TypeOK /\ [Next]_vars => TypeOK'
<1> SUFFICES ASSUME TypeOK, [Next]_vars PROVE TypeOK'
  OBVIOUS
<1> USE DEF TypeOK
<1>1. CASE Tick
  BY <1>1, ClockFacts DEF Tick
<1>2. ASSUME NEW t \in Threads, NEW k \in Keys, Arrive(t, k) PROVE TypeOK'
  <2> DEFINE f == [key |-> k, window |-> now, current |-> 0, today |-> MonthOf[now],
                   since |-> MonthOf[now], cost |-> 0]
  <2>1. f \in Frames
    BY ClockFacts, CostFacts DEF Frames
  <2>2. "rate_begin" \in States
    BY DEF States, Waiting
  <2> HIDE DEF f
  <2>3. frame' = [frame EXCEPT ![t] = f] /\ pc' = [pc EXCEPT ![t] = "rate_begin"]
    BY <1>2 DEF Arrive, Goto, f
  <2> QED
    BY <1>2, <2>1, <2>2, <2>3 DEF Arrive, shared
<1>3. ASSUME NEW t \in Threads, Begin(t) PROVE TypeOK'
  BY <1>3, WaitingTypes DEF Begin, Goto, shared, Waiting
<1>4. ASSUME NEW t \in Threads, Finish(t), UNCHANGED shared, UNCHANGED passed,
             lock' \in {lock, NoThread}
      PROVE  TypeOK'
  <2>1. "idle" \in States
    BY DEF States
  <2> QED
    BY <1>4, <2>1 DEF Finish, shared
<1>5. ASSUME NEW t \in Threads, RateRead(t) PROVE TypeOK'
  <2>1. used[frame[t].key][frame[t].window] \in Nat
    BY <1>5 DEF RateRead, Frames
  <2>2. [frame[t] EXCEPT !.current = used[frame[t].key][frame[t].window]] \in Frames
    BY <2>1, <1>5 DEF RateRead, Frames
  <2>3. "rate_decide" \in States
    BY DEF States, InTxn, InRate
  <2> QED
    BY <1>5, <2>2, <2>3 DEF RateRead, Goto, shared
<1>6. ASSUME NEW t \in Threads, RateGrant(t) PROVE TypeOK'
  <2>1. frame[t].key \in Keys /\ frame[t].window \in Windows /\ frame[t].current \in Nat
    BY <1>6 DEF RateGrant, Frames
  <2>2. "budget_begin" \in States
    BY DEF States, Waiting
  <2>3. used' \in [Keys -> [Windows -> Nat]] /\ passed' \in [Keys -> [Windows -> Nat]]
    BY <1>6, <2>1 DEF RateGrant
  <2>4. pc' \in [Threads -> States] /\ frame' = frame /\ pc[t] # "idle"
        /\ \A s \in Threads : pc'[s] # "idle" => s = t \/ pc[s] # "idle"
    BY <1>6, <2>2 DEF RateGrant, Goto
  <2> QED
    BY <1>6, <2>3, <2>4 DEF RateGrant
<1>7. ASSUME NEW t \in Threads, BudgetRead(t) PROVE TypeOK'
  <2> DEFINE f == [frame[t] EXCEPT !.current = spent[frame[t].key],
                                   !.since = period[frame[t].key],
                                   !.today = MonthOf[now]]
  <2>1. frame[t] \in Frames
    BY <1>7 DEF BudgetRead
  <2>2. f \in Frames
    BY <2>1, ClockFacts DEF Frames
  <2>3. "budget_decide" \in States
    BY DEF States, InTxn, InBudget
  <2>4. frame' = [frame EXCEPT ![t] = f]
    BY <1>7 DEF BudgetRead
  <2> HIDE DEF f
  <2> QED
    BY <1>7, <2>2, <2>3, <2>4 DEF BudgetRead, Goto, shared
<1>8. ASSUME NEW t \in Threads, pc[t] = "budget_decide", CommitPeriod(t)
      PROVE  /\ lock' = NoThread /\ now' = now /\ used' = used /\ passed' = passed
             /\ spent' \in [Keys -> Nat] /\ period' \in [Keys -> Months]
  <2>1. frame[t] \in Frames
    BY <1>8
  <2>2. frame[t].key \in Keys /\ frame[t].today \in Months
    BY <2>1 DEF Frames
  <2> QED
    BY <1>8, <2>2 DEF CommitPeriod
<1>9. ASSUME NEW t \in Threads, BudgetReject(t) PROVE TypeOK'
  <2>1. "idle" \in States
    BY DEF States
  <2> QED
    BY <1>8, <1>9, <2>1 DEF BudgetReject, Finish
<1>10. ASSUME NEW t \in Threads, BudgetGrant(t) PROVE TypeOK'
  <2>1. "serving" \in States
    BY DEF States, Admitted
  <2> QED
    BY <1>8, <1>10, <2>1 DEF BudgetGrant, Goto
<1>11. ASSUME NEW t \in Threads, NEW c \in 0..MaxCost, Complete(t, c) PROVE TypeOK'
  <2>1. [frame[t] EXCEPT !.cost = c] \in Frames
    BY <1>11 DEF Complete, Frames
  <2>2. "spend_begin" \in States
    BY DEF States, Waiting
  <2> QED
    BY <1>11, <2>1, <2>2 DEF Complete, Goto, shared
<1>12. ASSUME NEW t \in Threads, RecordSpend(t) PROVE TypeOK'
  <2>1. frame[t].key \in Keys /\ frame[t].cost \in Nat
    BY <1>12, CostFacts DEF RecordSpend, Frames
  <2>2. spent' \in [Keys -> Nat]
    BY <1>12, <2>1 DEF RecordSpend
  <2>3. "idle" \in States
    BY DEF States
  <2> QED
    BY <1>12, <2>2, <2>3 DEF RecordSpend, Finish
<1>13. ASSUME NEW W \in Workers, Crash(W) PROVE TypeOK'
  <2>1. "idle" \in States
    BY DEF States
  <2> QED
    BY <1>13, <2>1 DEF Crash, shared
<1>14. CASE UNCHANGED vars
  BY <1>14 DEF vars, shared
<1>15. ASSUME NEW t \in Threads, Step(t) \/ Rollback(t) PROVE TypeOK'
  BY <1>15, <1>3, <1>4, <1>5, <1>6, <1>7, <1>9, <1>10, <1>11, <1>12
     DEF Step, BusyTimeout, RateReject, FinishUncharged, Rollback
<1> QED
  BY <1>1, <1>2, <1>13, <1>14, <1>15 DEF Next

(* Every variable keeps its type, and a thread has a frame whenever it     *)
(* serves a request.                                                       *)
THEOREM TypeCorrect == Spec => []TypeOK
<1>1. Init => TypeOK
  <2>1. "idle" \in States
    BY DEF States
  <2> QED
    BY <2>1, ClockFacts DEF Init, TypeOK
<1> QED
  BY <1>1, TypeStep, PTL DEF Spec

(* A thread that takes the lock finds it free, one that leaves a           *)
(* transaction gives it back, and no other step crosses that border.       *)
LEMMA LockStep == TypeOK /\ LockDiscipline /\ [Next]_vars => LockDiscipline'
<1> SUFFICES ASSUME TypeOK, LockDiscipline, [Next]_vars PROVE LockDiscipline'
  OBVIOUS
<1> USE ThreadsAssumption DEF ThreadsAssumption, TypeOK, LockDiscipline
<1>1. ASSUME NEW t \in Threads, NEW s, pc' = [pc EXCEPT ![t] = s], lock' = lock,
             pc[t] \in InTxn <=> s \in InTxn
      PROVE  LockDiscipline'
  BY <1>1
<1>2. ASSUME NEW t \in Threads, NEW s, pc' = [pc EXCEPT ![t] = s], lock' = NoThread,
             pc[t] \in InTxn, s \notin InTxn
      PROVE  LockDiscipline'
  BY <1>2
<1>3. ASSUME NEW t \in Threads, Begin(t) PROVE LockDiscipline'
  <2>1. Behind[pc[t]] \in InTxn
    BY <1>3, WaitingTypes DEF Begin
  <2> QED
    BY <1>3, <2>1 DEF Begin, Goto
<1>4. ASSUME NEW t \in Threads, NEW k \in Keys, Arrive(t, k) PROVE LockDiscipline'
  BY <1>1, <1>4 DEF Arrive, Goto, InTxn, InRate, InBudget
<1>5. ASSUME NEW t \in Threads,
             BusyTimeout(t) \/ FinishUncharged(t) \/ \E c \in 0..MaxCost : Complete(t, c)
      PROVE  LockDiscipline'
  BY <1>1, <1>5 DEF BusyTimeout, FinishUncharged, Complete, Finish, Goto,
                    Waiting, InTxn, InRate, InBudget
<1>6. ASSUME NEW t \in Threads, RateRead(t) \/ BudgetRead(t) PROVE LockDiscipline'
  BY <1>1, <1>6 DEF RateRead, BudgetRead, Goto, InTxn, InRate, InBudget
<1>7. ASSUME NEW t \in Threads,
             \/ RateReject(t) \/ RateGrant(t) \/ BudgetReject(t) \/ BudgetGrant(t)
             \/ RecordSpend(t) \/ Rollback(t)
      PROVE  LockDiscipline'
  BY <1>2, <1>7 DEF RateReject, RateGrant, BudgetReject, BudgetGrant, RecordSpend,
                    Rollback, CommitPeriod, Finish, Goto, InTxn, InRate, InBudget
<1>8. ASSUME NEW W \in Workers, Crash(W) PROVE LockDiscipline'
  BY <1>8 DEF Crash, InTxn, InRate, InBudget
<1>9. CASE Tick \/ UNCHANGED vars
  BY <1>9 DEF Tick, vars, shared
<1> QED
  BY <1>3, <1>4, <1>5, <1>6, <1>7, <1>8, <1>9 DEF Next, Step

(* While a thread holds the lock and does not move, the tables and its own *)
(* frame stay as they are: only the holder of the lock writes them.        *)
LEMMA HolderSeesNoChange ==
    ASSUME TypeOK, LockDiscipline, [Next]_vars,
           NEW s \in Threads, pc[s] \in InTxn, pc'[s] = pc[s]
    PROVE  /\ used' = used /\ spent' = spent /\ period' = period
           /\ frame'[s] = frame[s]
<1> USE DEF TypeOK, LockDiscipline, shared
<1>1. lock = s /\ \A t \in Threads : pc[t] \in InTxn => t = s
  OBVIOUS
<1>2. ASSUME NEW t \in Threads, NEW k \in Keys, Arrive(t, k)
      PROVE  UNCHANGED shared /\ frame'[s] = frame[s]
  BY <1>2, <1>1 DEF Arrive, InTxn, InRate, InBudget
<1>3. ASSUME NEW t \in Threads,
             \/ Begin(t) \/ BusyTimeout(t) \/ FinishUncharged(t)
             \/ \E c \in 0..MaxCost : Complete(t, c)
      PROVE  UNCHANGED shared /\ frame'[s] = frame[s]
  BY <1>3, <1>1 DEF Begin, BusyTimeout, FinishUncharged, Complete, Finish,
                    Waiting, InTxn, InRate, InBudget
<1>4. ASSUME NEW t \in Threads,
             \/ RateRead(t) \/ RateReject(t) \/ RateGrant(t) \/ BudgetRead(t)
             \/ BudgetReject(t) \/ BudgetGrant(t) \/ RecordSpend(t) \/ Rollback(t)
      PROVE  FALSE
  <2>1. t = s
    BY <1>4, <1>1 DEF RateRead, RateReject, RateGrant, BudgetRead, BudgetReject,
                      BudgetGrant, RecordSpend, Rollback, InTxn, InRate, InBudget
  <2> QED
    BY <1>4, <2>1 DEF RateRead, RateReject, RateGrant, BudgetRead, BudgetReject,
                      BudgetGrant, RecordSpend, Rollback, Finish, Goto,
                      InTxn, InRate, InBudget
<1>5. ASSUME NEW W \in Workers, Crash(W)
      PROVE  UNCHANGED shared /\ frame'[s] = frame[s]
  BY <1>5 DEF Crash, InTxn, InRate, InBudget
<1>6. CASE Tick \/ UNCHANGED vars
  BY <1>6 DEF Tick, vars
<1> QED
  BY <1>2, <1>3, <1>4, <1>5, <1>6 DEF Next, Step

(* The state that a transaction decides in is entered only by its read.    *)
LEMMA DecidesAfterRead ==
    ASSUME TypeOK, [Next]_vars, NEW s \in Threads, pc'[s] # pc[s]
    PROVE  /\ pc'[s] = "rate_decide" => RateRead(s)
           /\ pc'[s] = "budget_decide" => BudgetRead(s)
           /\ pc'[s] = "rate_begin" => \E k \in Keys : Arrive(s, k)
           /\ pc'[s] = "rate_read" => Begin(s) /\ pc[s] = "rate_begin"
           /\ pc'[s] = "serving" => BudgetGrant(s)
<1> USE DEF TypeOK
<1>1. ASSUME NEW t \in Threads, NEW k \in Keys, Arrive(t, k)
      PROVE  s = t /\ pc'[s] = "rate_begin"
  BY <1>1 DEF Arrive, Goto
<1>2. ASSUME NEW t \in Threads, Begin(t)
      PROVE  /\ s = t /\ pc'[s] = Behind[pc[t]] /\ pc[t] \in Waiting
  BY <1>2 DEF Begin, Goto
<1>3. ASSUME NEW t \in Threads, Finish(t)
      PROVE  pc'[s] = "idle"
  BY <1>3 DEF Finish
<1>4. ASSUME NEW t \in Threads, RateGrant(t) \/ \E c \in 0..MaxCost : Complete(t, c)
      PROVE  pc'[s] \in {"budget_begin", "spend_begin"}
  BY <1>4 DEF RateGrant, Complete, Goto
<1>5. ASSUME NEW t \in Threads, RateRead(t)
      PROVE  s = t /\ pc'[s] = "rate_decide"
  BY <1>5 DEF RateRead, Goto
<1>6. ASSUME NEW t \in Threads, BudgetRead(t)
      PROVE  s = t /\ pc'[s] = "budget_decide"
  BY <1>6 DEF BudgetRead, Goto
<1>7. ASSUME NEW t \in Threads, BudgetGrant(t)
      PROVE  s = t /\ pc'[s] = "serving"
  BY <1>7 DEF BudgetGrant, Goto
<1>8. ASSUME NEW W \in Workers, Crash(W) PROVE pc'[s] = "idle"
  BY <1>8 DEF Crash
<1>9. CASE Tick \/ UNCHANGED vars
  BY <1>9 DEF Tick, vars
<1>10. ASSUME NEW w \in Waiting
       PROVE  /\ Behind[w] \notin {"rate_decide", "budget_decide", "rate_begin", "serving"}
              /\ Behind[w] = "rate_read" => w = "rate_begin"
  BY DEF Waiting, Behind
<1>11. ASSUME NEW t \in Threads, Step(t) \/ Rollback(t)
       PROVE  \/ \E u \in Threads : Finish(u)
              \/ RateGrant(t) \/ (\E c \in 0..MaxCost : Complete(t, c))
              \/ Begin(t) \/ RateRead(t) \/ BudgetRead(t) \/ BudgetGrant(t)
  BY <1>11 DEF Step, Rollback, BusyTimeout, RateReject, BudgetReject,
               FinishUncharged, RecordSpend
<1> QED
  BY <1>1, <1>2, <1>3, <1>4, <1>5, <1>6, <1>7, <1>8, <1>9, <1>10, <1>11 DEF Next

LEMMA FreshReadStep ==
    TypeOK /\ LockDiscipline /\ FreshRead /\ [Next]_vars => FreshRead'
<1> SUFFICES ASSUME TypeOK, LockDiscipline, FreshRead, [Next]_vars, NEW s \in Threads
             PROVE  /\ pc'[s] = "rate_decide" =>
                          frame'[s].current = used'[frame'[s].key][frame'[s].window]
                    /\ pc'[s] = "budget_decide" =>
                          /\ frame'[s].current = spent'[frame'[s].key]
                          /\ frame'[s].since = period'[frame'[s].key]
  BY DEF FreshRead
<1>1. CASE pc'[s] = pc[s]
  BY <1>1, HolderSeesNoChange DEF FreshRead, InTxn, InRate, InBudget
<1>2. CASE pc'[s] # pc[s]
  <2>1. pc[s] # "idle" => frame[s] \in Frames
    BY DEF TypeOK
  <2>2. ASSUME pc'[s] = "rate_decide"
        PROVE  frame'[s].current = used'[frame'[s].key][frame'[s].window]
    <3>1. RateRead(s)
      BY <1>2, <2>2, DecidesAfterRead
    <3> QED
      BY <3>1, <2>1 DEF RateRead, shared, TypeOK, Frames
  <2>3. ASSUME pc'[s] = "budget_decide"
        PROVE  /\ frame'[s].current = spent'[frame'[s].key]
               /\ frame'[s].since = period'[frame'[s].key]
    <3>1. BudgetRead(s)
      BY <1>2, <2>3, DecidesAfterRead
    <3> QED
      BY <3>1, <2>1 DEF BudgetRead, shared, TypeOK, Frames
  <2> QED
    BY <2>2, <2>3
<1> QED
  BY <1>1, <1>2

(* The frame of a thread that stays in the rate limit keeps its window,    *)
(* and the clock waits for it.                                             *)
LEMMA WindowIsRecentStep ==
    TypeOK /\ WindowIsRecent /\ [Next]_vars => WindowIsRecent'
<1> SUFFICES ASSUME TypeOK, WindowIsRecent, [Next]_vars PROVE WindowIsRecent'
  OBVIOUS
<1> USE DEF TypeOK, WindowIsRecent
<1>0. now \in Int
  BY ClockFacts
<1>1. CASE Tick
  BY <1>0, <1>1 DEF Tick
<1>2. ASSUME NEW t \in Threads, NEW k \in Keys, Arrive(t, k) PROVE WindowIsRecent'
  BY <1>0, <1>2 DEF Arrive, Goto, shared
<1>3. ASSUME NEW t \in Threads, Begin(t) PROVE WindowIsRecent'
  <2>1. pc'[t] \in InRate \cup {"rate_begin"} => pc[t] = "rate_begin"
    BY <1>3, WaitingTypes DEF Begin, Goto, Waiting, Behind, InRate
  <2> QED
    BY <1>3, <2>1 DEF Begin, Goto, shared
<1>4. ASSUME NEW t \in Threads, RateRead(t) PROVE WindowIsRecent'
  <2>1. pc[t] \in InRate /\ frame[t] \in Frames
    BY <1>4 DEF RateRead, InRate
  <2>2. frame'[t].window = frame[t].window
    BY <1>4, <2>1 DEF RateRead, Frames
  <2> QED
    BY <1>4, <2>1, <2>2 DEF RateRead, Goto, shared
<1>5. ASSUME NEW t \in Threads, NEW s, pc' = [pc EXCEPT ![t] = s], now' = now,
             s \notin InRate \cup {"rate_begin"},
             \A u \in Threads : u # t => frame'[u] = frame[u]
      PROVE  WindowIsRecent'
  BY <1>5
<1>6. ASSUME NEW t \in Threads,
             \/ BusyTimeout(t) \/ RateReject(t) \/ RateGrant(t) \/ BudgetRead(t)
             \/ BudgetReject(t) \/ BudgetGrant(t) \/ FinishUncharged(t)
             \/ (\E c \in 0..MaxCost : Complete(t, c)) \/ RecordSpend(t) \/ Rollback(t)
      PROVE  WindowIsRecent'
  <2>1. /\ now' = now
        /\ \A u \in Threads : u # t => frame'[u] = frame[u]
        /\ \E s \in {"idle", "budget_begin", "budget_decide", "serving", "spend_begin"} :
              pc' = [pc EXCEPT ![t] = s]
    BY <1>6 DEF BusyTimeout, RateReject, RateGrant, BudgetRead, BudgetReject, BudgetGrant,
                FinishUncharged, Complete, RecordSpend, Rollback, Finish, Goto,
                CommitPeriod, shared
  <2> QED
    BY <2>1, <1>5 DEF InRate
<1>7. ASSUME NEW W \in Workers, Crash(W) PROVE WindowIsRecent'
  BY <1>7 DEF Crash, shared, InRate
<1>8. CASE UNCHANGED vars
  BY <1>8 DEF vars, shared
<1> QED
  BY <1>1, <1>2, <1>3, <1>4, <1>6, <1>7, <1>8 DEF Next, Step

(* Only RateGrant touches the counters and what they have let through.     *)
LEMMA OnlyRateGrantCounts ==
    [Next]_vars => \/ \E t \in Threads : RateGrant(t)
                   \/ UNCHANGED <<used, passed>>
BY DEF Next, Step, Tick, Arrive, Begin, BusyTimeout, RateRead, RateReject, BudgetRead,
       BudgetReject, BudgetGrant, CommitPeriod, FinishUncharged, Complete, RecordSpend,
       Rollback, Crash, vars, shared

(* What a granted slot does: the counter of its window goes up by one and  *)
(* was below the limit, because the count that was read is still the one   *)
(* stored.                                                                 *)
LEMMA GrantCounts ==
    ASSUME TypeOK, FreshRead, WindowIsRecent, NEW t \in Threads, RateGrant(t)
    PROVE  \E k \in Keys, v \in Windows :
              /\ v \in {now - 1, now}
              /\ used[k][v] < RpmLimit[k]
              /\ used' = [used EXCEPT ![k][v] = @ + 1]
              /\ passed' = [passed EXCEPT ![k][now] = @ + 1]
<1> DEFINE k == frame[t].key
           v == frame[t].window
<1>1. frame[t] \in Frames /\ pc[t] = "rate_decide"
  BY DEF RateGrant, TypeOK
<1>2. k \in Keys /\ v \in Windows /\ v \in {now - 1, now}
  BY <1>1 DEF Frames, WindowIsRecent, InRate
<1>3. frame[t].current = used[k][v] /\ used[k][v] \in Nat
  BY <1>1, <1>2 DEF FreshRead, TypeOK
<1>4. used[k][v] < RpmLimit[k]
  BY <1>3 DEF RateGrant
<1>5. (IF frame[t].current = 0 THEN 1 ELSE used[k][v] + 1) = used[k][v] + 1
  BY <1>3
<1>6. used' = [used EXCEPT ![k][v] = used[k][v] + 1]
  BY <1>5 DEF RateGrant
<1>7. passed' = [passed EXCEPT ![k][now] = @ + 1]
  BY DEF RateGrant
<1> HIDE DEF k, v
<1> QED
  BY <1>2, <1>4, <1>6, <1>7

LEMMA WindowLimitStep ==
    TypeOK /\ FreshRead /\ WindowIsRecent /\ WindowLimit /\ [Next]_vars => WindowLimit'
<1> SUFFICES ASSUME TypeOK, FreshRead, WindowIsRecent, WindowLimit, [Next]_vars
             PROVE  WindowLimit'
  OBVIOUS
<1>1. ASSUME NEW t \in Threads, RateGrant(t) PROVE WindowLimit'
  <2>1. PICK k \in Keys, v \in Windows : /\ used[k][v] < RpmLimit[k]
                                         /\ used' = [used EXCEPT ![k][v] = @ + 1]
    BY <1>1, GrantCounts
  <2>2. ASSUME NEW j \in Keys, NEW w \in Windows PROVE used'[j][w] <= RpmLimit[j]
    <3>1. used[j][w] \in Nat /\ RpmLimit[j] \in Nat /\ used[j][w] <= RpmLimit[j]
      BY LimitsAssumption DEF LimitsAssumption, WindowLimit, TypeOK
    <3>2. used'[j][w] = IF j = k /\ w = v THEN used[k][v] + 1 ELSE used[j][w]
      BY <2>1 DEF TypeOK
    <3> QED
      BY <2>1, <3>1, <3>2
  <2> QED
    BY <2>2 DEF WindowLimit
<1>2. CASE UNCHANGED <<used, passed>>
  BY <1>2 DEF WindowLimit
<1> QED
  BY <1>1, <1>2, OnlyRateGrantCounts

LEMMA PassedFromWindowsStep ==
    TypeOK /\ FreshRead /\ WindowIsRecent /\ PassedFromWindows /\ [Next]_vars
        => PassedFromWindows'
<1> SUFFICES ASSUME TypeOK, FreshRead, WindowIsRecent, PassedFromWindows, [Next]_vars
             PROVE  PassedFromWindows'
  OBVIOUS
<1>1. ASSUME NEW t \in Threads, RateGrant(t) PROVE PassedFromWindows'
  <2>1. PICK k \in Keys, v \in Windows :
               /\ v \in {now - 1, now}
               /\ used' = [used EXCEPT ![k][v] = @ + 1]
               /\ passed' = [passed EXCEPT ![k][now] = @ + 1]
    BY <1>1, GrantCounts
  <2> SUFFICES ASSUME NEW j \in Keys, NEW w \in Windows
               PROVE  passed'[j][w] <= used'[j][w] + (IF w = 0 THEN 0 ELSE used'[j][w - 1])
    BY DEF PassedFromWindows
  <2>2. /\ w \in Nat /\ v \in Nat /\ now \in Windows /\ now \in Nat
        /\ w # 0 => w - 1 \in Windows
    BY ClockAssumption DEF TypeOK, ClockAssumption, Windows
  <2>3. /\ \A u \in Windows : used[j][u] \in Nat /\ used'[j][u] \in Nat
        /\ \A u \in Windows : used'[j][u] >= used[j][u]
        /\ j = k => used'[j][v] = used[j][v] + 1
    BY <2>1 DEF TypeOK
  <2>4. /\ passed[j][w] \in Nat
        /\ passed'[j][w] = IF j = k /\ w = now THEN passed[j][w] + 1 ELSE passed[j][w]
    BY <2>1, <2>2 DEF TypeOK
  <2>5. passed[j][w] <= used[j][w] + (IF w = 0 THEN 0 ELSE used[j][w - 1])
    BY DEF PassedFromWindows
  <2>6. CASE j = k /\ w = now
    <3>1. v = w \/ (w # 0 /\ v = w - 1)
      BY <2>1, <2>2, <2>6
    <3> QED
      BY <3>1, <2>2, <2>3, <2>4, <2>5, <2>6
  <2>7. CASE ~(j = k /\ w = now)
    BY <2>2, <2>3, <2>4, <2>5, <2>7
  <2> QED
    BY <2>6, <2>7
<1>2. CASE UNCHANGED <<used, passed>>
  BY <1>2 DEF PassedFromWindows
<1> QED
  BY <1>1, <1>2, OnlyRateGrantCounts

(* All of the inductive invariant holds at the start and is kept.          *)
THEOREM Invariance == Spec => []IInv
<1>1. Init => IInv
  <2>1. "idle" \in States /\ "idle" \notin InTxn
    BY DEF States, InTxn, InRate, InBudget
  <2>2. ASSUME Init PROVE TypeOK /\ LockDiscipline
    BY <2>1, <2>2, ClockFacts, ThreadsAssumption
       DEF Init, TypeOK, LockDiscipline, ThreadsAssumption
  <2>3. ASSUME Init PROVE FreshRead /\ WindowIsRecent
    BY <2>3 DEF Init, FreshRead, WindowIsRecent, InRate
  <2>4. ASSUME Init PROVE WindowLimit
    BY <2>4, LimitsAssumption DEF Init, WindowLimit, LimitsAssumption
  <2>5. ASSUME Init PROVE PassedFromWindows
    <3>1. \A w \in Windows : w # 0 => w - 1 \in Windows
      BY ClockAssumption DEF ClockAssumption, Windows
    <3> QED
      BY <2>5, <3>1 DEF Init, PassedFromWindows
  <2> QED
    BY <2>2, <2>3, <2>4, <2>5 DEF IInv
<1>2. IInv /\ [Next]_vars => IInv'
  BY TypeStep, LockStep, FreshReadStep, WindowIsRecentStep, WindowLimitStep,
     PassedFromWindowsStep DEF IInv
<1> QED
  BY <1>1, <1>2, PTL DEF Spec

(* Exactly the holder of the write lock is inside a transaction, in every  *)
(* interleaving of the threads and through every rejection, error and      *)
(* crash.                                                                  *)
THEOREM LockIsDisciplined == Spec => []LockDiscipline
BY Invariance, PTL DEF IInv

(* What admit_rate_limit and admit_budget have read is current when they   *)
(* decide.                                                                 *)
THEOREM ReadsStayFresh == Spec => []FreshRead
BY Invariance, PTL DEF IInv

(* A window never admits more than rpm_limit requests, for any number of   *)
(* workers and threads.                                                    *)
THEOREM WindowLimitIsKept == Spec => []WindowLimit
BY Invariance, PTL DEF IInv

(* Within one minute of the clock a key gets at most twice its limit.      *)
THEOREM ClockMinuteIsLimited == Spec => []ClockMinuteLimit
<1>1. IInv => ClockMinuteLimit
  <2> SUFFICES ASSUME IInv, NEW k \in Keys, NEW w \in Windows
               PROVE  passed[k][w] <= 2 * RpmLimit[k]
    BY DEF ClockMinuteLimit
  <2>1. w \in Nat /\ (w # 0 => w - 1 \in Windows)
    BY ClockAssumption DEF ClockAssumption, Windows
  <2>2. RpmLimit[k] \in Nat
    BY LimitsAssumption DEF LimitsAssumption
  <2>3. /\ passed[k][w] \in Nat
        /\ \A u \in Windows : used[k][u] \in Nat /\ used[k][u] <= RpmLimit[k]
    BY DEF IInv, TypeOK, WindowLimit
  <2>4. passed[k][w] <= used[k][w] + (IF w = 0 THEN 0 ELSE used[k][w - 1])
    BY DEF IInv, PassedFromWindows
  <2> QED
    BY <2>1, <2>2, <2>3, <2>4
<1> QED
  BY <1>1, Invariance, PTL

(* A request is let through only while the stored spend of its key is      *)
(* below the budget, whatever the other threads charge or reset meanwhile. *)
THEOREM HardStopHolds == Spec => HardStop
<1>1. IInv /\ [Next]_vars
        => [\A t \in Threads : pc[t] = "budget_decide" /\ pc'[t] = "serving"
               => spent'[frame[t].key] < Budget[frame[t].key]]_vars
  <2> SUFFICES ASSUME IInv, [Next]_vars, NEW t \in Threads,
                      pc[t] = "budget_decide", pc'[t] = "serving"
               PROVE  spent'[frame[t].key] < Budget[frame[t].key]
    OBVIOUS
  <2>1. BudgetGrant(t)
    BY DecidesAfterRead DEF IInv
  <2>2. frame[t] \in Frames /\ frame[t].current = spent[frame[t].key]
    BY DEF IInv, TypeOK, FreshRead
  <2>3. frame[t].key \in Keys
    BY <2>2 DEF Frames
  <2>4. spent'[frame[t].key] = SpendChecked(t)
    BY <2>1, <2>2, <2>3 DEF BudgetGrant, CommitPeriod, SpendChecked, IInv, TypeOK
  <2> QED
    BY <2>1, <2>4 DEF BudgetGrant
<1> QED
  BY <1>1, Invariance, PTL DEF Spec, HardStop

----------------------------------------------------------------------------
(* The refinement of module Ledger.  The count of open requests is not     *)
(* kept anywhere in the program: it is read off the program counters, so a *)
(* step of the ledger is a step in which one thread enters or leaves the   *)
(* set of a key, and a crash is one in which the sets only shrink.         *)

OpenRequests(k) == {t \in Threads : pc[t] \in Admitted /\ frame[t].key = k}

(* The stored month is never ahead of the clock.                           *)
PeriodIsPast == \A k \in Keys : period[k] <= MonthOf[now]

(* A budget decision carries a date between the stored month and the       *)
(* clock, although the clock may move on after the date was read.          *)
DecisionIsDated ==
    \A t \in Threads : pc[t] = "budget_decide"
        => frame[t].since <= frame[t].today /\ frame[t].today <= MonthOf[now]

Dated == PeriodIsPast /\ DecisionIsDated

LEMMA MonthFacts ==
    /\ Months \subseteq Nat
    /\ \A w \in Windows : MonthOf[w] \in Months /\ MonthOf[w] \in Nat
    /\ \A w \in Windows : w + 1 \in Windows => MonthOf[w] <= MonthOf[w + 1]
<1>1. \A w \in Windows : MonthOf[w] \in Months /\ MonthOf[w] \in Nat
  BY ClockAssumption DEF ClockAssumption, Months
<1>2. ASSUME NEW w \in Windows, w + 1 \in Windows PROVE MonthOf[w] <= MonthOf[w + 1]
  <2>1. w <= w + 1
    BY ClockFacts
  <2> QED
    BY <1>2, <2>1, ClockAssumption DEF ClockAssumption
<1> QED
  BY <1>1, <1>2 DEF Months

(* Nothing but a budget transaction writes the stored month, and it writes *)
(* the date it has read.                                                   *)
LEMMA DatedStep == IInv /\ Dated /\ [Next]_vars => Dated'
<1> SUFFICES ASSUME IInv, Dated, [Next]_vars PROVE Dated'
  OBVIOUS
<1>1. TypeOK /\ LockDiscipline /\ FreshRead
  BY DEF IInv
<1>2. now \in Windows /\ now' \in Windows /\ MonthOf[now] \in Nat
  BY <1>1, TypeStep, MonthFacts DEF TypeOK
<1>3. MonthOf[now'] \in Nat /\ MonthOf[now] <= MonthOf[now']
  <2>1. now' = now \/ now' = now + 1
    BY DEF Next, vars, shared, Tick, Arrive, Step, Begin, BusyTimeout, RateRead,
           RateReject, RateGrant, BudgetRead, BudgetReject, BudgetGrant, CommitPeriod,
           FinishUncharged, Complete, RecordSpend, Rollback, Crash
  <2> QED
    BY <1>2, <2>1, MonthFacts
<1>4. PeriodIsPast'
  <2>1. ASSUME NEW t \in Threads, pc[t] = "budget_decide", CommitPeriod(t)
        PROVE  \A k \in Keys : period'[k] <= MonthOf[now']
    <3>1. frame[t].key \in Keys /\ frame[t].today \in Months
      BY <1>1, <2>1 DEF TypeOK, Frames
    <3>2. period' = period \/ period' = [period EXCEPT ![frame[t].key] = frame[t].today]
      BY <2>1 DEF CommitPeriod
    <3>3. frame[t].today <= MonthOf[now] /\ now' = now
      BY <2>1 DEF Dated, DecisionIsDated, CommitPeriod
    <3> QED
      BY <1>1, <3>1, <3>2, <3>3 DEF TypeOK, Dated, PeriodIsPast
  <2>2. ASSUME UNCHANGED period PROVE PeriodIsPast'
    <3> SUFFICES ASSUME NEW k \in Keys PROVE period[k] <= MonthOf[now']
      BY <2>2 DEF PeriodIsPast
    <3>1. period[k] \in Nat /\ period[k] <= MonthOf[now]
      BY <1>1, MonthFacts DEF TypeOK, Dated, PeriodIsPast
    <3> QED
      BY <1>2, <1>3, <3>1
  <2> QED
    BY <2>1, <2>2
       DEF Next, vars, shared, Tick, Arrive, Step, Begin, BusyTimeout, RateRead,
           RateReject, RateGrant, BudgetRead, BudgetReject, BudgetGrant,
           FinishUncharged, Complete, RecordSpend, Rollback, Crash, PeriodIsPast
<1>5. DecisionIsDated'
  <2> SUFFICES ASSUME NEW s \in Threads, pc'[s] = "budget_decide"
               PROVE  /\ frame'[s].since <= frame'[s].today
                      /\ frame'[s].today <= MonthOf[now']
    BY DEF DecisionIsDated
  <2>1. CASE pc[s] = "budget_decide"
    <3>1. frame'[s] = frame[s]
      BY <1>1, <2>1, HolderSeesNoChange DEF InTxn, InBudget
    <3>2. /\ frame[s].since <= frame[s].today /\ frame[s].today <= MonthOf[now]
          /\ frame[s].today \in Nat
      BY <1>1, <2>1, MonthFacts DEF Dated, DecisionIsDated, TypeOK, Frames
    <3> QED
      BY <1>2, <1>3, <3>1, <3>2
  <2>2. CASE pc[s] # "budget_decide"
    <3>1. BudgetRead(s)
      BY <1>1, <2>2, DecidesAfterRead
    <3>2. frame[s] \in Frames /\ frame[s].key \in Keys
      BY <1>1, <3>1 DEF BudgetRead, TypeOK, Frames
    <3>3. /\ frame'[s].since = period[frame[s].key]
          /\ frame'[s].today = MonthOf[now] /\ now' = now
      BY <1>1, <3>1, <3>2 DEF BudgetRead, shared, TypeOK, Frames
    <3> QED
      BY <1>2, <3>2, <3>3 DEF Dated, PeriodIsPast
  <2> QED
    BY <2>1, <2>2
<1> QED
  BY <1>4, <1>5 DEF Dated

(* The count of a key is a natural number, at most one per thread, and     *)
(* room is left as long as some thread has no open request of the key.     *)
LEMMA OpenIsBounded ==
    ASSUME NEW k \in Keys
    PROVE  /\ Open[k] = Cardinality(OpenRequests(k))
           /\ IsFiniteSet(OpenRequests(k))
           /\ Cardinality(Threads) \in Nat
           /\ Open[k] \in 0..Cardinality(Threads)
           /\ \A t \in Threads : t \notin OpenRequests(k) => Open[k] < Cardinality(Threads)
<1>1. Open[k] = Cardinality(OpenRequests(k))
  BY DEF Open, OpenRequests
<1>2. IsFiniteSet(Threads) /\ OpenRequests(k) \in SUBSET Threads
  BY ThreadsAssumption DEF ThreadsAssumption, OpenRequests
<1>3. /\ IsFiniteSet(OpenRequests(k))
      /\ Cardinality(OpenRequests(k)) <= Cardinality(Threads)
      /\ Cardinality(OpenRequests(k)) = Cardinality(Threads) => Threads = OpenRequests(k)
  BY <1>2, FS_Subset
<1>4. Cardinality(OpenRequests(k)) \in Nat /\ Cardinality(Threads) \in Nat
  BY <1>2, <1>3, FS_CardinalityType
<1> QED
  BY <1>1, <1>3, <1>4

(* A step that adds no open request is no step of the ledger, or it is one *)
(* in which requests are abandoned.                                        *)
LEMMA Shrinks ==
    ASSUME UNCHANGED shared,
           \A k \in Keys : OpenRequests(k)' \subseteq OpenRequests(k)
    PROVE  [L!Next]_(L!vars)
<1>1. ASSUME NEW k \in Keys
      PROVE  Open'[k] \in 0..Cardinality(Threads) /\ Open'[k] <= Open[k]
  <2>1. IsFiniteSet(OpenRequests(k)) /\ Open[k] = Cardinality(OpenRequests(k))
    BY OpenIsBounded
  <2>2. OpenRequests(k)' \in SUBSET OpenRequests(k)
    OBVIOUS
  <2>3. /\ IsFiniteSet(OpenRequests(k)')
        /\ Cardinality(OpenRequests(k)') <= Cardinality(OpenRequests(k))
    BY <2>1, <2>2, FS_Subset
  <2>4. Open'[k] = Cardinality(OpenRequests(k)')
    BY DEF Open, OpenRequests
  <2>5. Open[k] \in 0..Cardinality(Threads) /\ Cardinality(Threads) \in Nat
    BY OpenIsBounded
  <2>6. Cardinality(OpenRequests(k)') \in Nat
    BY <2>3, FS_CardinalityType
  <2> QED
    BY <2>1, <2>3, <2>4, <2>5, <2>6
<1>2. Open' \in [Keys -> 0..Cardinality(Threads)]
  BY <1>1 DEF Open
<1>3. CASE Open' = Open
  BY <1>3 DEF L!vars, shared
<1>4. CASE Open' # Open
  BY <1>1, <1>2, <1>4 DEF L!Next, L!Abandon, shared
<1> QED
  BY <1>3, <1>4

(* Only the table moves when the set of every key stays as it is.          *)
LEMMA OpenStays ==
    ASSUME \A k \in Keys : OpenRequests(k)' = OpenRequests(k)
    PROVE  Open' = Open
BY DEF Open, OpenRequests

(* One thread enters the set of one key.                                   *)
LEMMA OpenGrows ==
    ASSUME NEW k \in Keys, NEW t \in Threads, t \notin OpenRequests(k),
           OpenRequests(k)' = OpenRequests(k) \cup {t},
           \A j \in Keys \ {k} : OpenRequests(j)' = OpenRequests(j)
    PROVE  Open' = [Open EXCEPT ![k] = @ + 1]
<1>1. Cardinality(OpenRequests(k)') = Cardinality(OpenRequests(k)) + 1
  BY OpenIsBounded, FS_AddElement
<1>2. Open'[k] = Open[k] + 1
  BY <1>1 DEF Open, OpenRequests
<1>3. \A j \in Keys \ {k} : Open'[j] = Open[j]
  BY DEF Open, OpenRequests
<1> QED
  BY <1>2, <1>3 DEF Open

(* One thread leaves the set of its key.                                   *)
LEMMA OpenFalls ==
    ASSUME NEW k \in Keys, NEW t \in Threads, t \in OpenRequests(k),
           OpenRequests(k)' = OpenRequests(k) \ {t},
           \A j \in Keys \ {k} : OpenRequests(j)' = OpenRequests(j)
    PROVE  Open[k] > 0 /\ Open' = [Open EXCEPT ![k] = @ - 1]
<1>1. /\ Cardinality(OpenRequests(k)') = Cardinality(OpenRequests(k)) - 1
      /\ IsFiniteSet(OpenRequests(k)')
  BY OpenIsBounded, FS_RemoveElement
<1>2. Open'[k] = Open[k] - 1 /\ Open'[k] \in Nat /\ Open[k] \in Nat
  BY <1>1, OpenIsBounded, FS_CardinalityType DEF Open, OpenRequests
<1>3. \A j \in Keys \ {k} : Open'[j] = Open[j]
  BY DEF Open, OpenRequests
<1>4. Open' = [Open EXCEPT ![k] = @ - 1]
  BY <1>2, <1>3 DEF Open
<1>5. Open[k] > 0
  BY <1>2
<1> QED
  BY <1>4, <1>5

(* Both modules count the same windows and months.                         *)
LEMMA LedgerClock == L!Windows = Windows /\ L!Months = Months
BY DEF L!Windows, L!Months, Windows, Months

(* Every step of a thread is a step of the ledger or leaves it alone: the  *)
(* transactions take effect when they commit, and a request is open from   *)
(* the commit of its budget check to the commit of its charge.             *)
LEMMA StepImplementsLedger == IInv /\ Dated /\ [Next]_vars => [L!Next]_(L!vars)
<1> SUFFICES ASSUME IInv, Dated, [Next]_vars PROVE [L!Next]_(L!vars)
  OBVIOUS
<1> USE DEF OpenRequests
<1>0. TypeOK /\ FreshRead /\ WindowIsRecent /\ LockDiscipline
  BY DEF IInv
<1>1. CASE Tick
  <2>1. Open' = Open
    BY <1>1, OpenStays DEF Tick
  <2> QED
    BY <1>1, <2>1 DEF Tick, L!Next, L!Tick
<1>2. ASSUME NEW t \in Threads, Finish(t), UNCHANGED shared PROVE [L!Next]_(L!vars)
  <2>1. \A k \in Keys : OpenRequests(k)' \subseteq OpenRequests(k)
    BY <1>0, <1>2 DEF Finish, TypeOK, Admitted
  <2> QED
    BY <1>2, <2>1, Shrinks
<1>3. ASSUME NEW t \in Threads,
             \/ \E k \in Keys : Arrive(t, k)
             \/ RateRead(t) \/ BudgetRead(t)
      PROVE  [L!Next]_(L!vars)
  <2>1. \A k \in Keys : OpenRequests(k)' \subseteq OpenRequests(k)
    BY <1>0, <1>3 DEF Arrive, RateRead, BudgetRead, Goto, TypeOK, Admitted
  <2> QED
    BY <1>3, <2>1, Shrinks DEF Arrive, RateRead, BudgetRead
<1>4. ASSUME NEW t \in Threads, Begin(t) PROVE [L!Next]_(L!vars)
  <2>1. Behind[pc[t]] \in Admitted => pc[t] \in Admitted
    BY <1>4 DEF Begin, Waiting, Behind, Admitted
  <2>2. \A k \in Keys : OpenRequests(k)' \subseteq OpenRequests(k)
    BY <1>0, <1>4, <2>1 DEF Begin, Goto, TypeOK
  <2> QED
    BY <1>4, <2>2, Shrinks DEF Begin
<1>5. ASSUME NEW t \in Threads, NEW c \in 0..MaxCost, Complete(t, c)
      PROVE  [L!Next]_(L!vars)
  <2>1. frame[t] \in Frames /\ pc[t] \in Admitted
    BY <1>0, <1>5 DEF Complete, TypeOK, Admitted
  <2>2. frame'[t].key = frame[t].key /\ \A s \in Threads \ {t} : frame'[s] = frame[s]
    BY <1>0, <1>5, <2>1 DEF Complete, TypeOK, Frames
  <2>3. \A k \in Keys : OpenRequests(k)' \subseteq OpenRequests(k)
    BY <1>0, <1>5, <2>1, <2>2 DEF Complete, Goto, TypeOK
  <2> QED
    BY <1>5, <2>3, Shrinks DEF Complete
<1>6. ASSUME NEW t \in Threads, RateGrant(t) PROVE [L!Next]_(L!vars)
  <2>1. \E k \in Keys, v \in Windows :
           /\ v \in {now - 1, now} /\ used[k][v] < RpmLimit[k]
           /\ used' = [used EXCEPT ![k][v] = @ + 1]
    BY <1>0, <1>6, GrantCounts
  <2>2. \A k \in Keys : OpenRequests(k)' = OpenRequests(k)
    BY <1>0, <1>6 DEF RateGrant, Goto, TypeOK, Admitted
  <2>3. Open' = Open
    BY <2>2, OpenStays
  <2> QED
    BY <1>6, <2>1, <2>3, LedgerClock DEF RateGrant, L!Next, L!TakeSlot, L!HasRoom
<1>7. ASSUME NEW t \in Threads, pc[t] = "budget_decide", CommitPeriod(t)
      PROVE  LET k == frame[t].key
                 m == frame[t].today
                 fresh == IF m = period[k] THEN spent[k] ELSE 0
             IN  /\ k \in Keys /\ m \in L!Dates(k)
                 /\ fresh = SpendChecked(t)
                 /\ spent' = [spent EXCEPT ![k] = fresh]
                 /\ period' = [period EXCEPT ![k] = m]
                 /\ Open[k] < Cardinality(Threads)
                 /\ t \notin OpenRequests(k)
                 /\ UNCHANGED <<now, used>>
  <2>1. /\ frame[t].key \in Keys /\ frame[t].today \in Months
        /\ frame[t].current = spent[frame[t].key]
        /\ frame[t].since = period[frame[t].key]
    BY <1>0, <1>7 DEF TypeOK, FreshRead, Frames
  <2>2. frame[t].today \in L!Dates(frame[t].key)
    BY <1>7, <2>1, LedgerClock DEF L!Dates, Dated, DecisionIsDated
  <2>3. t \notin OpenRequests(frame[t].key)
    BY <1>7 DEF Admitted
  <2>4. Open[frame[t].key] < Cardinality(Threads)
    BY <2>1, <2>3, OpenIsBounded
  <2> QED
    BY <1>0, <1>7, <2>1, <2>2, <2>3, <2>4
       DEF CommitPeriod, NeedsReset, SpendChecked, TypeOK
<1>8. ASSUME NEW t \in Threads, BudgetReject(t) PROVE [L!Next]_(L!vars)
  <2>1. \A k \in Keys : OpenRequests(k)' = OpenRequests(k)
    BY <1>0, <1>8 DEF BudgetReject, Finish, TypeOK, Admitted
  <2>2. Open' = Open
    BY <2>1, OpenStays
  <2>3. L!CheckBudget(frame[t].key, frame[t].today)
    BY <1>0, <1>7, <1>8, <2>2 DEF BudgetReject, L!CheckBudget, L!Affords, Open
  <2> QED
    BY <1>7, <1>8, <2>3 DEF BudgetReject, L!Next, L!Dates
<1>9. ASSUME NEW t \in Threads, BudgetGrant(t) PROVE [L!Next]_(L!vars)
  <2>1. PICK k \in Keys : k = frame[t].key /\ t \notin OpenRequests(k)
    BY <1>7, <1>9 DEF BudgetGrant
  <2>2. /\ OpenRequests(k)' = OpenRequests(k) \cup {t}
        /\ \A j \in Keys \ {k} : OpenRequests(j)' = OpenRequests(j)
    BY <1>0, <1>9, <2>1 DEF BudgetGrant, Goto, TypeOK, Admitted
  <2>3. Open' = [Open EXCEPT ![k] = @ + 1]
    <3> HIDE DEF OpenRequests
    <3> QED
      BY <2>1, <2>2, OpenGrows
  <2>4. L!CheckBudget(k, frame[t].today)
    BY <1>0, <1>7, <1>9, <2>1, <2>3 DEF BudgetGrant, L!CheckBudget, L!Affords
  <2> QED
    BY <1>7, <1>9, <2>1, <2>4 DEF BudgetGrant, L!Next, L!Dates
<1>10. ASSUME NEW t \in Threads, RecordSpend(t) PROVE [L!Next]_(L!vars)
  <2>1. /\ frame[t].key \in Keys /\ frame[t].cost \in 0..MaxCost
        /\ pc[t] \in Admitted
    BY <1>0, <1>10 DEF RecordSpend, TypeOK, Frames, Admitted
  <2>2. PICK k \in Keys : k = frame[t].key /\ t \in OpenRequests(k)
    BY <2>1
  <2>3. /\ OpenRequests(k)' = OpenRequests(k) \ {t}
        /\ \A j \in Keys \ {k} : OpenRequests(j)' = OpenRequests(j)
    BY <1>0, <1>10, <2>2 DEF RecordSpend, Finish, TypeOK, Admitted
  <2>4. Open[k] > 0 /\ Open' = [Open EXCEPT ![k] = @ - 1]
    <3> HIDE DEF OpenRequests
    <3> QED
      BY <2>2, <2>3, OpenFalls
  <2>5. L!Settle(k, frame[t].cost)
    BY <1>10, <2>2, <2>4 DEF RecordSpend, L!Settle, L!Charged
  <2> QED
    BY <2>1, <2>5 DEF L!Next
<1>11. ASSUME NEW W \in Workers, Crash(W) PROVE [L!Next]_(L!vars)
  <2>1. \A k \in Keys : OpenRequests(k)' \subseteq OpenRequests(k)
    BY <1>11 DEF Crash, Admitted
  <2> QED
    BY <1>11, <2>1, Shrinks DEF Crash
<1>12. CASE UNCHANGED vars
  BY <1>12, Shrinks DEF vars, shared
<1>13. ASSUME NEW t \in Threads, Step(t) \/ Rollback(t) PROVE [L!Next]_(L!vars)
  BY <1>13, <1>2, <1>3, <1>4, <1>5, <1>6, <1>8, <1>9, <1>10
     DEF Step, BusyTimeout, RateReject, FinishUncharged, Rollback
<1> QED
  BY <1>1, <1>3, <1>11, <1>12, <1>13 DEF Next

(* The transactions of the gateway's threads keep every promise of module  *)
(* Ledger: seen from outside each of them is one step, whatever the        *)
(* interleaving, the errors and the crashes, for any number of workers.    *)
THEOREM AdmissionImplementsLedger == Spec => ImplementsLedger
<1>1. Init => Dated
  BY ClockFacts, MonthFacts DEF Init, Dated, PeriodIsPast, DecisionIsDated
<1>2. Init => L!Init
  <2> SUFFICES ASSUME Init PROVE Open = [k \in Keys |-> 0]
    BY LedgerClock DEF Init, L!Init
  <2>1. \A k \in Keys : OpenRequests(k) = {}
    BY DEF Init, OpenRequests, Admitted
  <2> QED
    BY <2>1, FS_EmptySet DEF Open, OpenRequests
<1>3. Spec => []Dated
  BY <1>1, DatedStep, Invariance, PTL DEF Spec
<1> QED
  BY <1>2, <1>3, StepImplementsLedger, Invariance, PTL DEF Spec, ImplementsLedger, L!Spec

----------------------------------------------------------------------------
(* What module LedgerProofs proves of the ledger therefore holds of the    *)
(* threads.                                                                *)

LP == INSTANCE LedgerProofs WITH open <- Open, Concurrency <- Cardinality(Threads)

(* The assumptions of the ledger hold of its instance.                     *)
LEMMA LedgerAssumptions ==
    /\ Cardinality(Threads) \in Nat \ {0}
    /\ MaxNow \in Nat
    /\ MonthOf \in [LP!Windows -> Nat]
    /\ \A v, w \in LP!Windows : v <= w => MonthOf[v] <= MonthOf[w]
<1>1. LP!Windows = Windows
  BY DEF LP!Windows, Windows
<1>2. Cardinality(Threads) \in Nat \ {0}
  BY ThreadsAssumption, FS_CardinalityType, FS_EmptySet DEF ThreadsAssumption
<1> QED
  BY <1>1, <1>2, ClockAssumption DEF ClockAssumption

(* The two instances are the same specification.                           *)
LEMMA SameLedger == L!Spec => LP!Spec
<1>1. L!Init => LP!Init
  BY DEF L!Init, LP!Init, L!Windows, LP!Windows
<1>2. [L!Next]_(L!vars) => [LP!Next]_(LP!vars)
  BY DEF L!Next, LP!Next, L!vars, LP!vars, L!Windows, LP!Windows, L!Months, LP!Months,
         L!Tick, LP!Tick, L!TakeSlot, LP!TakeSlot, L!HasRoom, LP!HasRoom,
         L!Dates, LP!Dates, L!CheckBudget, LP!CheckBudget, L!Affords, LP!Affords,
         L!Settle, LP!Settle, L!Charged, LP!Charged, L!Abandon, LP!Abandon
<1> QED
  BY <1>1, <1>2, PTL DEF L!Spec, LP!Spec

(* How far the threads can overrun the hard stop of a budget: by one       *)
(* MaxCost for every thread that is not in the middle of a request of the  *)
(* key, and never by more than all the threads together can spend.         *)
THEOREM ThreadsOverrunIsBounded == Spec => []OverrunBound
<1>1. Spec => LP!Spec
  BY AdmissionImplementsLedger, SameLedger DEF ImplementsLedger
<1>2. LP!Spec => []LP!OverrunBound
  BY LedgerAssumptions, LimitsAssumption, CostAssumption,
     LP!BudgetOverrunIsBounded, Zenon
     DEF LimitsAssumption, CostAssumption, LP!ConcurrencyAssumption
<1>3. LP!OverrunBound => OverrunBound
  BY DEF LP!OverrunBound, L!OverrunBound, OverrunBound
<1> QED
  BY <1>1, <1>2, <1>3, PTL

(* Whatever the threads do, the spend of a key goes down only when a later *)
(* month begins.                                                           *)
THEOREM ThreadsKeepTheMonth == Spec => SpendFallsOnlyWithMonth
<1>1. Spec => LP!Spec
  BY AdmissionImplementsLedger, SameLedger DEF ImplementsLedger
<1>2. LP!Spec => LP!SpendFallsOnlyWithMonth
  BY LedgerAssumptions, LimitsAssumption, CostAssumption,
     LP!SpendIsMonotoneInAMonth, Zenon
     DEF LimitsAssumption, CostAssumption, LP!ConcurrencyAssumption
<1>3. LP!SpendFallsOnlyWithMonth => SpendFallsOnlyWithMonth
  BY PTL DEF LP!SpendFallsOnlyWithMonth, L!SpendFallsOnlyWithMonth, LP!vars, L!vars,
             SpendFallsOnlyWithMonth
<1> QED
  BY <1>1, <1>2, <1>3, PTL

=============================================================================
