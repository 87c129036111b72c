---------------------------- MODULE VirtualKeys ----------------------------
(***************************************************************************)
(* What the admission modules share: the virtual keys with their limits    *)
(* (table virtual_keys), and the clock.  Time is counted in one-minute     *)
(* windows, the unit of admit_rate_limit; the calendar month of a window   *)
(* is what _maybe_reset_period compares.                                   *)
(***************************************************************************)
EXTENDS Integers

CONSTANTS
    Keys,      \* the virtual keys (column key_hash)
    RpmLimit,  \* RpmLimit[k]: column rpm_limit
    Budget,    \* Budget[k]: column monthly_budget_usd, in the smallest cost unit
    MaxCost,   \* no single completion costs more than this
    MaxNow,    \* the clock stops here: a bound for TLC
    MonthOf    \* MonthOf[w]: the calendar month that window w lies in

Windows == 0..MaxNow
Months == {MonthOf[w] : w \in Windows}

ASSUME LimitsAssumption == /\ RpmLimit \in [Keys -> Nat]
                           /\ Budget \in [Keys -> Nat]

ASSUME CostAssumption == MaxCost \in Nat \ {0}

ASSUME ClockAssumption ==
    /\ MaxNow \in Nat
    /\ MonthOf \in [Windows -> Nat]
    /\ \A v, w \in Windows : v <= w => MonthOf[v] <= MonthOf[w]

=============================================================================
