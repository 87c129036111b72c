---------------------------- MODULE MCAdmission -----------------------------
(* Small instances of module Admission: three threads in two workers, or   *)
(* two in a worker each, one key with small limits, and a month that       *)
(* changes with the last window of the clock.                              *)
EXTENDS Admission

CONSTANTS t1, t2, t3

MCWorkers == {{t1, t2}, {t3}}
MCWorkersPair == {{t1}, {t2}}
MCMonthOf == [w \in 0..MaxNow |-> IF w < MaxNow THEN 0 ELSE 1]
MCRpmLimit == [k \in Keys |-> 2]
MCRpmOne == [k \in Keys |-> 1]
MCBudget == [k \in Keys |-> 1]
=============================================================================
