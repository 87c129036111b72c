------------------------------ MODULE Startup -------------------------------
(***************************************************************************)
(* The start of the gateway, app/main.py 12-14: every gunicorn worker      *)
(* process imports the app, creates the schema and seeds the virtual keys, *)
(* all of them at the same time and without a transaction around the SELECT *)
(* and the INSERT of a key.  The database survives workers and containers. *)
(*                                                                         *)
(* External: gunicorn starts the workers, puts a new one in the place of   *)
(* one that dies, and stops altogether when one fails to boot.             *)
(***************************************************************************)
EXTENDS Integers, Sequences

CONSTANTS
    Workers,    \* worker processes
    Keys,       \* hashes of virtual keys
    Seeds,      \* data/seed_keys.json, a sequence of keys
    NoRow,      \* not in the table virtual_keys
    MaxSpend,   \* bound: the model charges a key no further
    MaxDay,     \* bound: the model ends on this day
    MaxFaults   \* bound: boots that fail, workers and containers that die

ASSUME StartupAssumption ==
    /\ Seeds \in Seq(Keys)
    /\ MaxSpend \in Nat /\ MaxDay \in Nat /\ MaxFaults \in Nat

(* Columns spent_usd and period_start.                                     *)
Rows == [spent : 0..MaxSpend, period : 0..MaxDay]

ASSUME NoRowAssumption == NoRow \notin Rows

VARIABLES
    schema,   \* the tables exist
    rows,     \* rows[k]: the row of key k
    day,      \* datetime.date.today()
    up,       \* the container runs
    pc,       \* pc[w]: where worker w is
    at,       \* at[w]: the seed it has come to
    today,    \* today[w]: the day on which it began to seed
    faults,   \* how many faults there were
    races     \* history: races[k], starts that failed on key k, up to 2

vars == <<schema, rows, day, up, pc, at, today, faults, races>>

Booting == {"init", "check", "insert"}
Places == Booting \cup {"down", "serving"}

TypeOK ==
    /\ schema \in BOOLEAN
    /\ rows \in [Keys -> Rows \cup {NoRow}]
    /\ day \in 0..MaxDay
    /\ up \in BOOLEAN
    /\ pc \in [Workers -> Places]
    /\ at \in [Workers -> 1..Len(Seeds) + 1]
    /\ today \in [Workers -> 0..MaxDay]
    /\ faults \in 0..MaxFaults
    /\ races \in [Keys -> 0..2]

Init ==
    /\ schema = FALSE
    /\ rows = [k \in Keys |-> NoRow]
    /\ day = 0
    /\ up = FALSE
    /\ pc = [w \in Workers |-> "down"]
    /\ at = [w \in Workers |-> 1]
    /\ today = [w \in Workers |-> 0]
    /\ faults = 0
    /\ races = [k \in Keys |-> 0]

Goto(w, s) == pc' = [pc EXCEPT ![w] = s]

table == <<schema, rows, day>>
outside == <<up, faults, races>>

(* The operator starts the container.                                      *)
Start ==
    /\ ~up
    /\ up' = TRUE
    /\ pc' = [w \in Workers |-> "init"]
    /\ UNCHANGED <<table, at, today, faults, races>>

(* init_db, which leaves tables that exist alone, and the date.            *)
InitDb(w) ==
    /\ pc[w] = "init"
    /\ schema' = TRUE
    /\ at' = [at EXCEPT ![w] = 1]
    /\ today' = [today EXCEPT ![w] = day]
    /\ Goto(w, "check")
    /\ UNCHANGED <<rows, day, outside>>

seed(w) == Seeds[at[w]]

\* Faulty variant: the key is not looked for.
NeverSeeded(w) == FALSE

Seeded(w) == rows[seed(w)] # NoRow

\* Faulty variant: return instead of continue at a key that exists.
FirstSeedOnly(w) == IF Seeded(w) THEN Len(Seeds) + 1 ELSE at[w]

NextSeed(w) == IF Seeded(w) THEN at[w] + 1 ELSE at[w]

(* SELECT: a key that exists is passed over.                               *)
Check(w) ==
    /\ pc[w] = "check"
    /\ at[w] <= Len(Seeds)
    /\ at' = [at EXCEPT ![w] = NextSeed(w)]
    /\ Goto(w, IF Seeded(w) THEN "check" ELSE "insert")
    /\ UNCHANGED <<table, today, outside>>

(* All keys are seen to; the worker accepts requests.                      *)
Serve(w) ==
    /\ pc[w] = "check"
    /\ at[w] > Len(Seeds)
    /\ Goto(w, "serving")
    /\ UNCHANGED <<table, at, today, outside>>

\* Faulty variant: INSERT OR REPLACE.
CanReplace(w) == TRUE

CanInsert(w) == rows[seed(w)] = NoRow

\* Faulty variant: period_start is left out.
NewRowUndated(w) == [spent |-> 0, period |-> NoRow]

NewRow(w) == [spent |-> 0, period |-> today[w]]

Insert(w) ==
    /\ pc[w] = "insert"
    /\ CanInsert(w)
    /\ rows' = [rows EXCEPT ![seed(w)] = NewRow(w)]
    /\ at' = [at EXCEPT ![w] = @ + 1]
    /\ Goto(w, "check")
    /\ UNCHANGED <<schema, day, today, outside>>

(* gunicorn gives up, and with it the container ends.  It is one step: in  *)
(* truth the other workers may still finish the statement they are at.     *)
Halt ==
    /\ up' = FALSE
    /\ pc' = [w \in Workers |-> "down"]
    /\ UNCHANGED <<table, at, today>>

(* Another worker was faster: IntegrityError, and the boot fails.          *)
Collide(w) ==
    /\ pc[w] = "insert"
    /\ rows[seed(w)] # NoRow
    /\ races' = [races EXCEPT ![seed(w)] = IF @ = 2 THEN @ ELSE @ + 1]
    /\ Halt
    /\ UNCHANGED faults

Fault == faults < MaxFaults /\ faults' = faults + 1 /\ UNCHANGED races

(* Any other exception while a worker boots.                               *)
BootFails(w) == pc[w] \in Booting /\ Fault /\ Halt

(* The container is stopped or dies.                                       *)
Stop == up /\ Fault /\ Halt

(* A worker dies, booting or serving, and gunicorn starts another one.     *)
Respawn(w) ==
    /\ pc[w] # "down"
    /\ Fault
    /\ Goto(w, "init")
    /\ UNCHANGED <<table, up, at, today>>

(* Requests are served: record_actual_spend.  The rest of the accounting   *)
(* is module Ledger's.                                                     *)
Charge(w, k, c) ==
    /\ pc[w] = "serving"
    /\ rows[k] # NoRow
    /\ rows[k].spent + c <= MaxSpend
    /\ rows' = [rows EXCEPT ![k].spent = @ + c]
    /\ UNCHANGED <<schema, day, pc, at, today, outside>>

NewDay ==
    /\ day < MaxDay
    /\ day' = day + 1
    /\ UNCHANGED <<schema, rows, pc, at, today, outside>>

Boot(w) == InitDb(w) \/ Check(w) \/ Serve(w) \/ Insert(w) \/ Collide(w)

Next ==
    \/ Start
    \/ \E w \in Workers : Boot(w) \/ BootFails(w) \/ Respawn(w)
    \/ \E w \in Workers, k \in Keys, c \in 1..MaxSpend : Charge(w, k, c)
    \/ Stop
    \/ NewDay

Spec == Init /\ [][Next]_vars

(* A container that is down is started again, and workers get on with      *)
(* their boot.                                                             *)
FairSpec == Spec /\ WF_vars(Start) /\ \A w \in Workers : WF_vars(Boot(w))

----------------------------------------------------------------------------
(* A worker that accepts requests knows every seeded key, also after       *)
(* starts that ended half way: nobody is told invalid_key by one worker    *)
(* and served by another (main.py 12-14, seed.py 14-18).                   *)
ServesAllKeys ==
    \A w \in Workers : pc[w] = "serving" =>
        schema /\ \A i \in DOMAIN Seeds : rows[Seeds[i]] # NoRow

(* Workers that are started while others serve, or race with them, leave   *)
(* the spend and the period of a key as they are (seed.py 16-18).          *)
SeedingKeepsRows ==
    [][\A k \in Keys : rows[k] # NoRow =>
          /\ rows'[k] # NoRow
          /\ rows'[k].period = rows[k].period
          /\ rows'[k].spent >= rows[k].spent]_vars

(* The SELECT and the INSERT of a key are no transaction (seed.py 16-25),  *)
(* so a first start with several workers may fail; but it fails at most    *)
(* once for each key, because the row that got in the way is there for the *)
(* next start to see.                                                      *)
RaceOnce == \A k \in Keys : races[k] <= 1

(* So the gateway comes up in the end and stays up, if faults cease and a  *)
(* container that has ended is started again.                              *)
ComesUp == <>[](\A w \in Workers : pc[w] = "serving")
=============================================================================
