------------------------------- MODULE Ledger -------------------------------
(***************************************************************************)
(* What the two accounting tables promise, with every transaction a single *)
(* step: rate_windows holds one counter per key and minute, virtual_keys   *)
(* the spend of the current month.  A request takes a slot of its minute,  *)
(* passes the budget check, is open while the gateway serves it, and then  *)
(* either settles its cost or is abandoned.  No thread, lock or            *)
(* transaction appears here; module Admission has them and implements      *)
(* this one.                                                               *)
(***************************************************************************)
EXTENDS VirtualKeys

CONSTANT Concurrency   \* requests the gateway can have in progress at once

(* Met by the threads of Admission and by the requests of Gateway.        *)
ConcurrencyAssumption == Concurrency \in Nat \ {0}

VARIABLES
    now,     \* the current window
    used,    \* used[k][w]: rate_windows.count
    spent,   \* spent[k]: virtual_keys.spent_usd
    period,  \* period[k]: the month of virtual_keys.period_start
    open     \* open[k]: admitted requests of k that are not yet settled

vars == <<now, used, spent, period, open>>

TypeOK ==
    /\ now \in Windows
    /\ used \in [Keys -> [Windows -> Nat]]
    /\ spent \in [Keys -> Nat]
    /\ period \in [Keys -> Months]
    /\ open \in [Keys -> 0..Concurrency]

Init ==
    /\ now = 0
    /\ used = [k \in Keys |-> [w \in Windows |-> 0]]
    /\ spent = [k \in Keys |-> 0]
    /\ period = [k \in Keys |-> MonthOf[0]]
    /\ open = [k \in Keys |-> 0]

Tick ==
    /\ now < MaxNow
    /\ now' = now + 1
    /\ UNCHANGED <<used, spent, period, open>>

HasRoom(k, w) == used[k][w] < RpmLimit[k]

(* A slot is charged to the current window or to the one that has just     *)
(* ended, never beyond the limit.                                          *)
TakeSlot(k, w) ==
    /\ w \in {now - 1, now}
    /\ HasRoom(k, w)
    /\ used' = [used EXCEPT ![k][w] = @ + 1]
    /\ UNCHANGED <<now, spent, period, open>>

(* The dates a request may carry: not before the stored month.             *)
Dates(k) == {m \in Months : period[k] <= m /\ m <= MonthOf[now]}

Affords(k, s) == s < Budget[k]

(* The budget check of one request that dates itself in month m: a later   *)
(* month than the stored one starts again from zero, and the request is    *)
(* admitted only while the spend is below the budget.                      *)
CheckBudget(k, m) ==
    LET fresh == IF m = period[k] THEN spent[k] ELSE 0 IN
    /\ m \in Dates(k)
    /\ open[k] < Concurrency
    /\ spent' = [spent EXCEPT ![k] = fresh]
    /\ period' = [period EXCEPT ![k] = m]
    /\ open' = [open EXCEPT ![k] = IF Affords(k, fresh) THEN @ + 1 ELSE @]
    /\ UNCHANGED <<now, used>>

Charged(k, c) == spent[k] + c

(* The cost of an open request is added to whatever the spend is by then.  *)
Settle(k, c) ==
    /\ open[k] > 0
    /\ spent' = [spent EXCEPT ![k] = Charged(k, c)]
    /\ open' = [open EXCEPT ![k] = @ - 1]
    /\ UNCHANGED <<now, used, period>>

(* Requests end without a charge: a cache hit, a failed upstream, a lost   *)
(* client, a storage error; a worker that dies abandons all of its own.    *)
Abandon ==
    /\ open' \in [Keys -> 0..Concurrency]
    /\ open' # open
    /\ \A k \in Keys : open'[k] <= open[k]
    /\ UNCHANGED <<now, used, spent, period>>

Next ==
    \/ Tick
    \/ \E k \in Keys, w \in Windows : TakeSlot(k, w)
    \/ \E k \in Keys, m \in Months : CheckBudget(k, m)
    \/ \E k \in Keys, c \in 0..MaxCost : Settle(k, c)
    \/ Abandon

Spec == Init /\ [][Next]_vars

----------------------------------------------------------------------------
(* No minute of a key is ever charged more slots than its rpm_limit: the   *)
(* promise of admit_rate_limit (auth.py 103).                              *)
WithinRpm == \A k \in Keys, w \in Windows : used[k][w] <= RpmLimit[k]

(* How far the hard stop of admit_budget can be overrun.  The check is     *)
(* made on the spend recorded so far and the cost arrives later, so every  *)
(* request that is open may still add its cost: the monthly spend stays    *)
(* below the budget plus one MaxCost per request that the gateway can run  *)
(* at once, less those still to be charged.                                *)
OverrunBound ==
    \A k \in Keys : spent[k] < Budget[k] + (Concurrency - open[k]) * MaxCost

(* The stored spend of a key goes down only when a later month begins:     *)
(* _maybe_reset_period never runs backwards and never twice for one month. *)
SpendFallsOnlyWithMonth ==
    [][\A k \in Keys : spent'[k] < spent[k] => period'[k] > period[k]]_vars
=============================================================================
