------------------------------ MODULE MCHealth ------------------------------
(* Module Health with one provider and two processes, one of them with two *)
(* threads that refresh the same cache.                                    *)
EXTENDS Health

CONSTANTS t1, t2, t3

MCWorkers == {{t1, t2}, {t3}}
MCAdmins == {t2}
=============================================================================
