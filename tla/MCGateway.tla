----------------------------- MODULE MCGateway ------------------------------
(* Module Gateway with two keys of different tenants.  The bodies are      *)
(* chosen so that requests meet in the cache, at the limits, in the log    *)
(* and at every rejection.                                                 *)
EXTENDS Gateway, TLC

CONSTANTS r1, r2, k1, k2, nobody, smart, gone, p

(* Either worker dies, or both of them with their container.               *)
MCWorkers == {{r1}, {r2}, {r1, r2}}
Symmetry == Permutations({r1, r2})
MCTenantOf == [k \in Keys |-> k]
MCAllowed == [k \in Keys |-> IF k = k1 THEN {smart, gone} ELSE {smart}]
MCRpmLimit == [k \in Keys |-> IF k = k1 THEN 2 ELSE 1]
MCBudget == [k \in Keys |-> 1]
MCMonthOf == [w \in 0..MaxNow |-> w]

Body(k, m, t, s) == [valid |-> TRUE, key |-> k, model |-> m, prompt |-> t, stream |-> s]

MCBodies == {
    Body(k1, smart, p, FALSE),
    Body(k1, smart, p, TRUE),
    Body(k2, smart, p, FALSE),
    Body(k2, smart, p, TRUE),
    Body(k1, gone, p, FALSE),
    Body(k2, gone, p, FALSE),
    Body(nobody, smart, p, FALSE),
    Body(k1, smart, NoText, FALSE),
    Body(k1, smart, NoText, TRUE),
    [Body(k1, smart, p, FALSE) EXCEPT !.valid = FALSE]}
=============================================================================
