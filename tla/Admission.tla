----------------------------- MODULE Admission ------------------------------
(***************************************************************************)
(* Admission and accounting of app/core/auth.py, as the threads of the     *)
(* gunicorn workers run it.  Each worker is a process with several         *)
(* threads; every thread has its own SQLite connection, so the only thing  *)
(* that orders two requests is the database's write lock, taken by         *)
(* BEGIN IMMEDIATE.  One request is: the clock is read, a rate-limit       *)
(* transaction, a budget transaction, the completion, and the transaction  *)
(* that records its cost.  Between BEGIN and COMMIT a thread reads first   *)
(* and writes after, in separate steps; the writes become visible at       *)
(* COMMIT.                                                                 *)
(***************************************************************************)
EXTENDS VirtualKeys, FiniteSets

CONSTANTS
    Workers,    \* gunicorn worker processes, each one the set of its threads
    NoThread,   \* the write lock is free
    NoFrame     \* a thread that has no request

Threads == UNION Workers

ASSUME ThreadsAssumption == /\ IsFiniteSet(Threads)
                            /\ Threads # {}
                            /\ NoThread \notin Threads

VARIABLES
    now,     \* the current window: time.time() // 60
    lock,    \* the thread inside BEGIN IMMEDIATE ... COMMIT, or NoThread
    used,    \* used[k][w]: rate_windows.count (no row counts as 0)
    spent,   \* spent[k]: virtual_keys.spent_usd
    period,  \* period[k]: the month of virtual_keys.period_start
    pc,      \* pc[t]: where thread t is
    frame,   \* frame[t]: the local variables of t's request
    passed   \* history: passed[k][w], slots given to k while the clock showed w

shared == <<now, used, spent, period>>
vars == <<now, lock, used, spent, period, pc, frame, passed>>

(* BEGIN IMMEDIATE of the three transactions: waiting for the lock, the    *)
(* state behind it.                                                        *)
Waiting == {"rate_begin", "budget_begin", "spend_begin"}
Behind == [rate_begin |-> "rate_read", budget_begin |-> "budget_read",
           spend_begin |-> "spend_write"]
InRate == {"rate_read", "rate_decide"}
InBudget == {"budget_read", "budget_decide"}
InTxn == InRate \cup InBudget \cup {"spend_write"}
Admitted == {"serving", "spend_begin", "spend_write"}
States == {"idle"} \cup Waiting \cup InTxn \cup Admitted

(* key_hash; window_start; the column the open transaction has read; the   *)
(* month of today and of the period_start read with it; the cost computed. *)
Frames == [key: Keys, window: Windows, current: Nat,
           today: Months, since: Months, cost: 0..MaxCost]

TypeOK ==
    /\ now \in Windows
    /\ lock \in Threads \cup {NoThread}
    /\ used \in [Keys -> [Windows -> Nat]]
    /\ spent \in [Keys -> Nat]
    /\ period \in [Keys -> Months]
    /\ pc \in [Threads -> States]
    /\ frame \in [Threads -> Frames \cup {NoFrame}]
    /\ \A t \in Threads : pc[t] # "idle" => frame[t] \in Frames
    /\ passed \in [Keys -> [Windows -> Nat]]

Init ==
    /\ now = 0
    /\ lock = NoThread
    /\ used = [k \in Keys |-> [w \in Windows |-> 0]]
    /\ spent = [k \in Keys |-> 0]
    /\ period = [k \in Keys |-> MonthOf[0]]
    /\ pc = [t \in Threads |-> "idle"]
    /\ frame = [t \in Threads |-> NoFrame]
    /\ passed = [k \in Keys |-> [w \in Windows |-> 0]]

\* Faulty variant: no busy_timeout, so the clock runs on while a request waits.
WaitsForEver(t) == TRUE

(* A request that has read the clock holds or waits for the rate-limit     *)
(* transaction at most busy_timeout, ten seconds, so no second window ends *)
(* before it has its slot.                                                 *)
InTime(t) == pc[t] \in InRate \cup {"rate_begin"} => frame[t].window = now

Tick ==
    /\ now < MaxNow
    /\ \A t \in Threads : InTime(t)
    /\ now' = now + 1
    /\ UNCHANGED <<lock, used, spent, period, pc, frame, passed>>

(* t ends its request: an answer, a rejection or an exception.             *)
Finish(t) ==
    /\ pc' = [pc EXCEPT ![t] = "idle"]
    /\ frame' = [frame EXCEPT ![t] = NoFrame]

Goto(t, s) == pc' = [pc EXCEPT ![t] = s]

(* The request of key k has been authenticated; admit_rate_limit computes  *)
(* window_start before it asks for the lock.                               *)
Arrive(t, k) ==
    /\ pc[t] = "idle"
    /\ Goto(t, "rate_begin")
    /\ frame' = [frame EXCEPT ![t] =
          [key |-> k, window |-> now, current |-> 0, today |-> MonthOf[now],
           since |-> MonthOf[now], cost |-> 0]]
    /\ UNCHANGED <<lock, shared, passed>>

\* Faulty variant: a deferred BEGIN, which lets readers in side by side.
DeferredLock(t) == TRUE

LockIsFree(t) == lock = NoThread

(* BEGIN IMMEDIATE succeeds.                                               *)
Begin(t) ==
    /\ pc[t] \in Waiting
    /\ LockIsFree(t)
    /\ lock' = t
    /\ Goto(t, Behind[pc[t]])
    /\ UNCHANGED <<shared, frame, passed>>

\* Faulty variant: no busy_timeout, a thread waits as long as it takes.
BusyTimeoutNever(t) == FALSE /\ UNCHANGED vars

(* BEGIN IMMEDIATE gives up ("database is locked").  It stands before the  *)
(* try block, so the exception leaves the handler: the slot or the cost    *)
(* that was at stake stays as it is.                                       *)
BusyTimeout(t) ==
    /\ pc[t] \in Waiting
    /\ lock # NoThread
    /\ Finish(t)
    /\ UNCHANGED <<lock, shared, passed>>

----------------------------------------------------------------------------
(* admit_rate_limit inside its transaction.                                *)

RateRead(t) ==
    /\ pc[t] = "rate_read"
    /\ frame' = [frame EXCEPT ![t].current = used[frame[t].key][frame[t].window]]
    /\ Goto(t, "rate_decide")
    /\ UNCHANGED <<lock, shared, passed>>

(* COMMIT or ROLLBACK                                                      *)
Unlock == lock' = NoThread

\* Faulty variant: the limit itself still lets a request through.
HasRoomAtLimit(t) == frame[t].current <= RpmLimit[frame[t].key]

HasRoom(t) == frame[t].current < RpmLimit[frame[t].key]

\* Faulty variant: the COMMIT before the raise is missing.
RateRejectKeepsLock(t) ==
    /\ pc[t] = "rate_decide"
    /\ ~HasRoom(t)
    /\ Finish(t)
    /\ UNCHANGED <<lock, shared, passed>>

RateReject(t) ==
    /\ pc[t] = "rate_decide"
    /\ ~HasRoom(t)
    /\ Unlock
    /\ Finish(t)
    /\ UNCHANGED <<shared, passed>>

(* UPDATE count + 1, or the INSERT of the first row, then COMMIT.          *)
RateGrant(t) ==
    LET k == frame[t].key  w == frame[t].window IN
    /\ pc[t] = "rate_decide"
    /\ HasRoom(t)
    /\ used' = [used EXCEPT ![k][w] = IF frame[t].current = 0 THEN 1 ELSE @ + 1]
    /\ passed' = [passed EXCEPT ![k][now] = @ + 1]
    /\ Unlock
    /\ Goto(t, "budget_begin")
    /\ UNCHANGED <<now, spent, period, frame>>

----------------------------------------------------------------------------
(* admit_budget inside its transaction.                                    *)

\* Faulty variant: today is the date of the request's arrival.
DateOfArrival(t) == frame[t].today

Today(t) == MonthOf[now]

(* The row is read and then, still under the lock, today's date.           *)
BudgetRead(t) ==
    LET k == frame[t].key IN
    /\ pc[t] = "budget_read"
    /\ frame' = [frame EXCEPT ![t].current = spent[k],
                              ![t].since = period[k],
                              ![t].today = Today(t)]
    /\ Goto(t, "budget_decide")
    /\ UNCHANGED <<lock, shared, passed>>

(* _maybe_reset_period: another month than the stored one.                 *)
NeedsReset(t) == frame[t].today # frame[t].since

SpendChecked(t) == IF NeedsReset(t) THEN 0 ELSE frame[t].current

(* The reset that both outcomes of the check commit.                       *)
CommitPeriod(t) ==
    LET k == frame[t].key IN
    /\ spent' = IF NeedsReset(t) THEN [spent EXCEPT ![k] = 0] ELSE spent
    /\ period' = IF NeedsReset(t) THEN [period EXCEPT ![k] = frame[t].today] ELSE period
    /\ Unlock
    /\ UNCHANGED <<now, used, passed>>

\* Faulty variant: a spend equal to the budget still passes.
AffordsAtLimit(t) == SpendChecked(t) <= Budget[frame[t].key]

Affords(t) == SpendChecked(t) < Budget[frame[t].key]

BudgetReject(t) ==
    /\ pc[t] = "budget_decide"
    /\ ~Affords(t)
    /\ CommitPeriod(t)
    /\ Finish(t)

BudgetGrant(t) ==
    /\ pc[t] = "budget_decide"
    /\ Affords(t)
    /\ CommitPeriod(t)
    /\ Goto(t, "serving")
    /\ UNCHANGED frame

----------------------------------------------------------------------------
(* The admitted request, and record_actual_spend.                          *)

(* Nothing to pay: a cache hit, an upstream that failed, a client that     *)
(* went away, an exception on the way.                                     *)
FinishUncharged(t) ==
    /\ pc[t] = "serving"
    /\ Finish(t)
    /\ UNCHANGED <<lock, shared, passed>>

(* The completion has arrived and costs c; record_actual_spend is called.  *)
Complete(t, c) ==
    /\ pc[t] = "serving"
    /\ frame' = [frame EXCEPT ![t].cost = c]
    /\ Goto(t, "spend_begin")
    /\ UNCHANGED <<lock, shared, passed>>

\* Faulty variant: the cost is subtracted.
Refunded(t) == spent[frame[t].key] - frame[t].cost

Charged(t) == spent[frame[t].key] + frame[t].cost

(* UPDATE spent_usd = spent_usd + cost, COMMIT.                            *)
RecordSpend(t) ==
    /\ pc[t] = "spend_write"
    /\ spent' = [spent EXCEPT ![frame[t].key] = Charged(t)]
    /\ Unlock
    /\ Finish(t)
    /\ UNCHANGED <<now, used, period, passed>>

----------------------------------------------------------------------------
(* A storage error inside a transaction: ROLLBACK, and the exception ends  *)
(* the request.                                                            *)
Rollback(t) ==
    /\ pc[t] \in InTxn
    /\ Unlock
    /\ Finish(t)
    /\ UNCHANGED <<shared, passed>>

(* A worker process dies and is started again: its requests are gone, and  *)
(* SQLite drops the transaction that one of its threads had open.          *)
Crash(W) ==
    /\ \E t \in W : pc[t] # "idle"
    /\ lock' = IF lock \in W THEN NoThread ELSE lock
    /\ pc' = [t \in Threads |-> IF t \in W THEN "idle" ELSE pc[t]]
    /\ frame' = [t \in Threads |-> IF t \in W THEN NoFrame ELSE frame[t]]
    /\ UNCHANGED <<shared, passed>>

(* What a thread does by itself, storage errors apart.                     *)
Step(t) ==
    \/ Begin(t)
    \/ BusyTimeout(t)
    \/ RateRead(t)
    \/ RateReject(t)
    \/ RateGrant(t)
    \/ BudgetRead(t)
    \/ BudgetReject(t)
    \/ BudgetGrant(t)
    \/ FinishUncharged(t)
    \/ \E c \in 0..MaxCost : Complete(t, c)
    \/ RecordSpend(t)

Next ==
    \/ Tick
    \/ \E t \in Threads, k \in Keys : Arrive(t, k)
    \/ \E t \in Threads : Step(t)
    \/ \E t \in Threads : Rollback(t)
    \/ \E W \in Workers : Crash(W)

Spec == Init /\ [][Next]_vars

(* The operating system runs every thread.  That a completion ends is an   *)
(* assumption: nothing in the code bounds it against a server that drips   *)
(* (module OpenRouter, Terminates).  No request has to arrive and nothing  *)
(* has to fail.                                                            *)
FairSpec == Spec /\ \A t \in Threads : WF_vars(Step(t))

----------------------------------------------------------------------------
(* The write lock and the program counters agree: a thread is between      *)
(* BEGIN IMMEDIATE and COMMIT exactly when it holds the lock.  Every exit  *)
(* of the three functions, rejections and errors included, gives the lock  *)
(* back (the explicit COMMIT before each raise, auth.py 119 and 156, and   *)
(* the ROLLBACK in the except branch).                                     *)
LockDiscipline == \A t \in Threads : lock = t <=> pc[t] \in InTxn

(* What a transaction has read is still what the tables hold when it       *)
(* decides: nothing another thread does can change the row between the     *)
(* SELECT and the COMMIT (auth.py 113-135 and 152-163).                    *)
FreshRead ==
    \A t \in Threads :
        LET f == frame[t] IN
        /\ pc[t] = "rate_decide" => f.current = used[f.key][f.window]
        /\ pc[t] = "budget_decide" => /\ f.current = spent[f.key]
                                      /\ f.since = period[f.key]

(* No more than rpm_limit requests are charged to one window (auth.py 118; *)
(* load_test.py 6-7).                                                      *)
WindowLimit == \A k \in Keys, w \in Windows : used[k][w] <= RpmLimit[k]

(* A request between the clock and its slot is at most one window late.    *)
WindowIsRecent ==
    \A t \in Threads : pc[t] \in InRate \cup {"rate_begin"}
        => frame[t].window \in {now - 1, now}

(* At the moment a request is let through, the spend that is stored for    *)
(* its key is below the budget: no other thread's charge or month reset    *)
(* can slip in between the check and its commit (auth.py 145-163).         *)
HardStop ==
    [][\A t \in Threads : pc[t] = "budget_decide" /\ pc'[t] = "serving"
          => spent'[frame[t].key] < Budget[frame[t].key]]_vars

(* Everything a key is given in one minute of the clock comes out of the   *)
(* counters of that minute and of the minute before it: the window is      *)
(* computed before the lock is awaited (auth.py 109-111), so a request can *)
(* be charged to a minute that is over, but not to an older one.           *)
PassedFromWindows ==
    \A k \in Keys, w \in Windows :
        passed[k][w] <= used[k][w] + (IF w = 0 THEN 0 ELSE used[k][w - 1])

(* Nobody gets more than twice the limit within one minute of the clock.   *)
ClockMinuteLimit ==
    \A k \in Keys, w \in Windows : passed[k][w] <= 2 * RpmLimit[k]

(* The promise of the docstring of admit_rate_limit, "atomically           *)
(* check-and-increment the current-minute counter" (auth.py 103), taken at *)
(* its word: no more than the limit passes in one minute of the clock.     *)
CurrentMinuteLimit ==
    \A k \in Keys, w \in Windows : passed[k][w] <= RpmLimit[k]

(* The overshoot the README describes: a key goes over its budget by the   *)
(* one request that crosses the line, so by less than one MaxCost.         *)
OneRequestOvershoot == \A k \in Keys : spent[k] < Budget[k] + MaxCost

(* A request that has begun ends, whatever the other threads do: nobody    *)
(* waits forever for the write lock, because BEGIN IMMEDIATE gives up.     *)
RequestEnds == \A t \in Threads : pc[t] # "idle" ~> pc[t] = "idle"

(* The accounting is that of module Ledger, in which every transaction is  *)
(* one step: a request is open from its admission to its charge.           *)
Open == [k \in Keys |->
            Cardinality({t \in Threads : pc[t] \in Admitted /\ frame[t].key = k})]

L == INSTANCE Ledger WITH open <- Open, Concurrency <- Cardinality(Threads)

ImplementsLedger == L!Spec

(* How far the hard stop of admit_budget can be overrun.  The check is     *)
(* made on the spend recorded so far and the cost arrives later, so every  *)
(* thread may still add a cost: the spend stays below the budget plus one  *)
(* MaxCost per thread, less those still to be charged (auth.py 145-179).   *)
OverrunBound == L!OverrunBound

(* The stored spend of a key goes down only when a later month begins:     *)
(* _maybe_reset_period never runs backwards and never twice for one month, *)
(* whatever the threads read and when (auth.py 75-83).                     *)
SpendFallsOnlyWithMonth == L!SpendFallsOnlyWithMonth
=============================================================================
