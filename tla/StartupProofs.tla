--------------------------- MODULE StartupProofs ----------------------------
(***************************************************************************)
(* What concurrent starts leave behind, for any workers, any seed file and *)
(* any faults.  The inductive invariant says of each worker that the seeds *)
(* it has passed are in the table, and of each key that has ended a start  *)
(* that its row is there and that no worker is about to insert it.         *)
(***************************************************************************)
EXTENDS Startup, TLAPS

USE DEF seed, Seeded, NextSeed, CanInsert, NewRow, Goto

N == Len(Seeds)

(* A worker that is about to insert is at a seed.                          *)
AtSeed == \A w \in Workers : pc[w] = "insert" => at[w] <= N

(* Seeds that have been passed are in the table.                           *)
Passed ==
    \A w \in Workers :
        /\ pc[w] \in {"check", "insert", "serving"} =>
              schema /\ \A i \in 1..at[w] - 1 : rows[Seeds[i]] # NoRow
        /\ pc[w] = "serving" => at[w] > N

(* A key that has ended a start is in the table and ends no other.         *)
RacedIsSeeded ==
    \A k \in Keys : races[k] # 0 =>
        /\ races[k] = 1
        /\ rows[k] # NoRow
        /\ \A w \in Workers : pc[w] = "insert" => Seeds[at[w]] # k

IInv == TypeOK /\ AtSeed /\ Passed /\ RacedIsSeeded

LEMMA SeedType == N \in Nat /\ \A i \in 1..N : Seeds[i] \in Keys
BY StartupAssumption DEF N

LEMMA Bounds == MaxSpend \in Nat /\ MaxDay \in Nat /\ MaxFaults \in Nat
BY StartupAssumption

LEMMA FaultType ==
    ASSUME TypeOK, Fault PROVE faults' \in 0..MaxFaults /\ races' = races
BY Bounds DEF TypeOK, Fault

(* Every variable keeps its type; this needs AtSeed.                       *)
LEMMA Types == Spec => [](TypeOK /\ AtSeed)
<1>1. Init => TypeOK /\ AtSeed
  <2> SUFFICES ASSUME Init PROVE TypeOK /\ AtSeed
    OBVIOUS
  <2>1. at \in [Workers -> 1..Len(Seeds) + 1]
    BY SeedType DEF Init, N
  <2>2. rows \in [Keys -> Rows \cup {NoRow}] /\ races \in [Keys -> 0..2]
    BY DEF Init
  <2>5. schema \in BOOLEAN /\ up \in BOOLEAN
    BY DEF Init
  <2>3. /\ day \in 0..MaxDay /\ today \in [Workers -> 0..MaxDay] /\ faults \in 0..MaxFaults
        /\ pc \in [Workers -> Places]
    BY Bounds DEF Init, Places
  <2>4. AtSeed
    BY DEF Init, AtSeed
  <2> QED
    BY <2>1, <2>2, <2>3, <2>4, <2>5 DEF TypeOK
<1>2. TypeOK /\ AtSeed /\ [Next]_vars => TypeOK' /\ AtSeed'
  <2> SUFFICES ASSUME TypeOK, AtSeed, [Next]_vars PROVE TypeOK' /\ AtSeed'
    OBVIOUS
  <2> USE DEF TypeOK, AtSeed, N
  <2>1. CASE Start
    BY <2>1 DEF Start, table, Places, Booting
  <2>2. ASSUME NEW w \in Workers, InitDb(w) PROVE TypeOK' /\ AtSeed'
    BY <2>2, SeedType DEF InitDb, outside, Places, Booting
  <2>3. ASSUME NEW w \in Workers, Check(w) PROVE TypeOK' /\ AtSeed'
    <3>1. NextSeed(w) \in 1..N + 1 /\ at[w] <= N
      BY <2>3, SeedType DEF Check
    <3>2. /\ at' = [at EXCEPT ![w] = NextSeed(w)]
          /\ pc' = [pc EXCEPT ![w] = IF Seeded(w) THEN "check" ELSE "insert"]
          /\ ~Seeded(w) => NextSeed(w) = at[w]
          /\ UNCHANGED <<schema, rows, day, today, up, faults, races>>
      BY <2>3 DEF Check, outside, table
    <3> HIDE DEF NextSeed, Seeded
    <3> QED
      BY <3>1, <3>2 DEF Places, Booting
  <2>4. ASSUME NEW w \in Workers, Serve(w) PROVE TypeOK' /\ AtSeed'
    BY <2>4 DEF Serve, table, outside, Places, Booting
  <2>5. ASSUME NEW w \in Workers, Insert(w) PROVE TypeOK' /\ AtSeed'
    <3>1. at[w] + 1 \in 1..N + 1 /\ Seeds[at[w]] \in Keys
      BY <2>5, SeedType DEF Insert
    <3>2. [spent |-> 0, period |-> today[w]] \in Rows
      BY Bounds DEF Rows
    <3>3. rows' \in [Keys -> Rows \cup {NoRow}]
      BY <2>5, <3>1, <3>2 DEF Insert
    <3>4. /\ at' = [at EXCEPT ![w] = @ + 1]
          /\ pc' = [pc EXCEPT ![w] = "check"]
          /\ UNCHANGED <<schema, day, today, up, faults, races>>
      BY <2>5 DEF Insert, outside
    <3> QED
      BY <3>1, <3>3, <3>4 DEF Places, Booting
  <2>6. ASSUME NEW w \in Workers, Collide(w) PROVE TypeOK' /\ AtSeed'
    <3>1. races' \in [Keys -> 0..2]
      <4>1. \A n \in 0..2 : (IF n = 2 THEN n ELSE n + 1) \in 0..2
        OBVIOUS
      <4> QED
        BY <2>6, <4>1 DEF Collide
    <3> QED
      BY <2>6, <3>1 DEF Collide, Halt, table, Places, Booting
  <2>7. ASSUME NEW w \in Workers, BootFails(w) PROVE TypeOK' /\ AtSeed'
    BY <2>7, FaultType DEF BootFails, Halt, table, Places, Booting
  <2>8. ASSUME NEW w \in Workers, Respawn(w) PROVE TypeOK' /\ AtSeed'
    BY <2>8, FaultType DEF Respawn, table, Places, Booting
  <2>9. CASE Stop
    BY <2>9, FaultType DEF Stop, Halt, table, Places, Booting
  <2>10. ASSUME NEW w \in Workers, NEW k \in Keys, NEW c \in 1..MaxSpend, Charge(w, k, c)
         PROVE  TypeOK' /\ AtSeed'
    <3>1. rows[k] \in Rows /\ rows[k].spent + c <= MaxSpend
      BY <2>10, NoRowAssumption DEF Charge
    <3>5. rows[k].spent + c \in 0..MaxSpend
      BY <3>1, Bounds DEF Rows
    <3>2. [rows[k] EXCEPT !.spent = rows[k].spent + c] \in Rows
      BY <3>1, <3>5 DEF Rows
    <3>3. rows' = [rows EXCEPT ![k] = [rows[k] EXCEPT !.spent = rows[k].spent + c]]
      BY <2>10 DEF Charge
    <3>4. rows' \in [Keys -> Rows \cup {NoRow}]
      BY <3>2, <3>3
    <3> QED
      BY <2>10, <3>4 DEF Charge, outside
  <2>11. CASE NewDay
    BY <2>11, Bounds DEF NewDay, outside
  <2>12. CASE UNCHANGED vars
    BY <2>12 DEF vars
  <2> QED
    BY <2>1, <2>2, <2>3, <2>4, <2>5, <2>6, <2>7, <2>8, <2>9, <2>10, <2>11, <2>12
    DEF Next, Boot
<1> QED
  BY <1>1, <1>2, PTL DEF Spec

(* Every variable keeps its type; above all, no row is without its spend   *)
(* or its period.                                                          *)
THEOREM TypeCorrect == Spec => []TypeOK
BY Types, PTL

----------------------------------------------------------------------------
(* What a charge and an insertion write is a row.                          *)
LEMMA WritesRow ==
    ASSUME TypeOK, NEW w \in Workers
    PROVE  /\ NewRow(w) # NoRow
           /\ \A k \in Keys : rows[k] # NoRow =>
                 \A n \in 0..MaxSpend : [rows[k] EXCEPT !.spent = n] # NoRow
<1>1. [spent |-> 0, period |-> today[w]] \in Rows
  BY Bounds DEF TypeOK, Rows
<1>2. ASSUME NEW k \in Keys, rows[k] # NoRow, NEW n \in 0..MaxSpend
      PROVE  [rows[k] EXCEPT !.spent = n] \in Rows
  <2>1. rows[k] \in Rows
    BY <1>2 DEF TypeOK
  <2> QED
    BY <2>1 DEF Rows
<1> QED
  BY <1>1, <1>2, NoRowAssumption

(* A row, once there, is changed by charges only: its period stays and its *)
(* spend does not fall.                                                    *)
LEMMA RowsStay ==
    ASSUME TypeOK, AtSeed, [Next]_vars, NEW k \in Keys, rows[k] # NoRow
    PROVE  /\ rows'[k] # NoRow
           /\ rows'[k].period = rows[k].period
           /\ rows'[k].spent >= rows[k].spent
<1>1. rows[k] \in Rows /\ rows[k].spent \in Nat
  BY DEF TypeOK, Rows
<1>2. CASE rows' = rows
  BY <1>1, <1>2
<1>3. ASSUME NEW w \in Workers, Insert(w) PROVE rows'[k] = rows[k]
  BY <1>3 DEF Insert, TypeOK
<1>4. ASSUME NEW w \in Workers, NEW j \in Keys, NEW c \in 1..MaxSpend, Charge(w, j, c)
      PROVE  /\ rows'[k] # NoRow
             /\ rows'[k].period = rows[k].period
             /\ rows'[k].spent >= rows[k].spent
  <2>1. CASE j # k
    BY <1>1, <1>4, <2>1 DEF Charge, TypeOK
  <2>2. CASE j = k
    <3>1. rows'[k] = [rows[k] EXCEPT !.spent = rows[k].spent + c]
      BY <1>4, <2>2 DEF Charge, TypeOK
    <3>2. rows[k].spent + c \in 0..MaxSpend /\ rows[k].spent + c >= rows[k].spent
      BY <1>1, <1>4, <2>2, Bounds DEF Charge
    <3>3. /\ [rows[k] EXCEPT !.spent = rows[k].spent + c].spent = rows[k].spent + c
          /\ [rows[k] EXCEPT !.spent = rows[k].spent + c].period = rows[k].period
      BY <1>1 DEF Rows
    <3> QED
      BY <3>1, <3>2, <3>3, WritesRow
  <2> QED
    BY <2>1, <2>2
<1>5. [Next]_vars => \/ rows' = rows
                     \/ \E w \in Workers : Insert(w)
                     \/ \E w \in Workers, j \in Keys, c \in 1..MaxSpend : Charge(w, j, c)
  BY DEF Next, Boot, Start, InitDb, Check, Serve, Collide, Halt, BootFails, Stop, Respawn,
         NewDay, vars, table
<1> QED
  BY <1>1, <1>2, <1>3, <1>4, <1>5

(* Seeding never touches the spend and the period of a key.                *)
THEOREM SeedingIsHarmless == Spec => SeedingKeepsRows
<1>1. TypeOK /\ AtSeed /\ [Next]_vars =>
        [\A k \in Keys : rows[k] # NoRow =>
            /\ rows'[k] # NoRow
            /\ rows'[k].period = rows[k].period
            /\ rows'[k].spent >= rows[k].spent]_vars
  BY RowsStay
<1> QED
  BY <1>1, Types, PTL DEF Spec, SeedingKeepsRows

----------------------------------------------------------------------------
(* The steps at which all workers go down, or begin anew.                  *)
LEMMA AllDown ==
    ASSUME TypeOK, RacedIsSeeded, NEW s \in {"down", "init"},
           pc' = [w \in Workers |-> s], UNCHANGED <<rows, races>>
    PROVE  Passed' /\ RacedIsSeeded'
BY DEF Passed, RacedIsSeeded

LEMMA CheckInv ==
    ASSUME IInv, NEW w \in Workers, Check(w) PROVE Passed' /\ RacedIsSeeded'
<1> USE DEF IInv
<1>1. /\ pc[w] = "check" /\ at[w] \in 1..N
      /\ at' = [at EXCEPT ![w] = NextSeed(w)]
      /\ pc' = [pc EXCEPT ![w] = IF Seeded(w) THEN "check" ELSE "insert"]
      /\ UNCHANGED <<schema, rows, races>>
  BY DEF Check, table, outside, TypeOK, N
<1>2. /\ pc'[w] = IF Seeded(w) THEN "check" ELSE "insert"
      /\ at'[w] = NextSeed(w)
      /\ \A v \in Workers : v # w => pc'[v] = pc[v] /\ at'[v] = at[v]
  BY <1>1 DEF TypeOK
<1>3. schema /\ \A i \in 1..at[w] - 1 : rows[Seeds[i]] # NoRow
  BY <1>1 DEF Passed
<1>4. \A i \in 1..at'[w] - 1 : rows[Seeds[i]] # NoRow
  BY <1>1, <1>2, <1>3, SeedType
<1>5. Passed'
  BY <1>1, <1>2, <1>3, <1>4 DEF Passed
<1>6. ASSUME NEW k \in Keys, races[k] # 0, pc'[w] = "insert" PROVE Seeds[at'[w]] # k
  BY <1>1, <1>2, <1>6 DEF RacedIsSeeded
<1>7. RacedIsSeeded'
  BY <1>1, <1>2, <1>6 DEF RacedIsSeeded
<1> QED
  BY <1>5, <1>7

LEMMA InsertInv ==
    ASSUME IInv, NEW w \in Workers, Insert(w) PROVE Passed' /\ RacedIsSeeded'
<1> USE DEF IInv
<1>1. /\ pc[w] = "insert" /\ at[w] \in 1..N
      /\ rows' = [rows EXCEPT ![Seeds[at[w]]] = NewRow(w)]
      /\ at' = [at EXCEPT ![w] = at[w] + 1]
      /\ pc' = [pc EXCEPT ![w] = "check"]
      /\ UNCHANGED <<schema, races>>
  BY DEF Insert, outside, TypeOK, AtSeed, N
<1> HIDE DEF NewRow
<1>2. /\ pc'[w] = "check" /\ at'[w] = at[w] + 1
      /\ \A v \in Workers : v # w => pc'[v] = pc[v] /\ at'[v] = at[v]
  BY <1>1 DEF TypeOK
<1>3. ASSUME NEW k \in Keys, rows[k] # NoRow PROVE rows'[k] # NoRow
  BY <1>1, <1>3, WritesRow DEF TypeOK
<1>4. rows'[Seeds[at[w]]] # NoRow
  BY <1>1, WritesRow, SeedType DEF TypeOK
<1>5. ASSUME NEW v \in Workers, pc'[v] \in {"check", "insert", "serving"}
      PROVE  schema' /\ \A i \in 1..at'[v] - 1 : rows'[Seeds[i]] # NoRow
  <2>1. schema /\ \A i \in 1..at[v] - 1 : rows[Seeds[i]] # NoRow
    BY <1>1, <1>2, <1>5 DEF Passed
  <2>2. \A i \in 1..at[v] - 1 : Seeds[i] \in Keys
    BY SeedType DEF TypeOK, N
  <2>3. \A i \in 1..at[v] - 1 : rows'[Seeds[i]] # NoRow
    BY <2>1, <2>2, <1>3
  <2>4. CASE v = w
    BY <1>1, <1>2, <1>4, <2>1, <2>3, <2>4
  <2>5. CASE v # w
    BY <1>1, <1>2, <2>1, <2>3, <2>5
  <2> QED
    BY <2>4, <2>5
<1>6. Passed'
  BY <1>2, <1>5 DEF Passed
<1>7. RacedIsSeeded'
  BY <1>1, <1>2, <1>3 DEF RacedIsSeeded
<1> QED
  BY <1>6, <1>7

LEMMA CollideInv ==
    ASSUME IInv, NEW w \in Workers, Collide(w) PROVE Passed' /\ RacedIsSeeded'
<1> USE DEF IInv
<1>1. /\ pc[w] = "insert" /\ Seeds[at[w]] \in Keys
      /\ rows[Seeds[at[w]]] # NoRow
      /\ races' = [races EXCEPT ![Seeds[at[w]]] =
                      IF races[Seeds[at[w]]] = 2 THEN races[Seeds[at[w]]]
                                                 ELSE races[Seeds[at[w]]] + 1]
      /\ pc' = [v \in Workers |-> "down"]
      /\ UNCHANGED <<rows, at>>
  BY SeedType DEF Collide, Halt, table, TypeOK, AtSeed, N
<1>2. races[Seeds[at[w]]] = 0
  BY <1>1 DEF RacedIsSeeded
<1>3. races' = [races EXCEPT ![Seeds[at[w]]] = 1]
  BY <1>1, <1>2
<1>4. \A v \in Workers : pc'[v] = "down"
  BY <1>1
<1>5. Passed'
  BY <1>4 DEF Passed
<1>6. RacedIsSeeded'
  BY <1>1, <1>3, <1>4 DEF RacedIsSeeded, TypeOK
<1> QED
  BY <1>5, <1>6

(* Steps of one worker to a place from which it inserts nothing.           *)
LEMMA MoveInv ==
    ASSUME IInv, NEW w \in Workers, NEW s \in {"init", "check", "serving"},
           pc' = [pc EXCEPT ![w] = s],
           \A v \in Workers \ {w} : at'[v] = at[v],
           schema => schema',
           s = "check" => schema' /\ at'[w] = 1,
           s = "serving" => pc[w] = "check" /\ at' = at /\ at[w] > N,
           UNCHANGED <<rows, races>>
    PROVE  Passed' /\ RacedIsSeeded'
<1> USE DEF IInv
<1>1. pc'[w] = s /\ \A v \in Workers : v # w => pc'[v] = pc[v]
  BY DEF TypeOK
<1>2. Passed'
  BY <1>1 DEF Passed
<1>3. RacedIsSeeded'
  BY <1>1 DEF RacedIsSeeded
<1> QED
  BY <1>2, <1>3

(* The invariant that carries both results below.                          *)
THEOREM Invariance == Spec => []IInv
<1> DEFINE Rest == Passed /\ RacedIsSeeded
<1>1. Init => Rest
  BY DEF Init, Passed, RacedIsSeeded
<1>2. IInv /\ [Next]_vars => Rest'
  <2> SUFFICES ASSUME IInv, [Next]_vars PROVE Rest'
    OBVIOUS
  <2>0. TypeOK /\ AtSeed /\ Passed /\ RacedIsSeeded
    BY DEF IInv
  <2>1. CASE Start
    BY <2>0, <2>1, AllDown DEF Start, table
  <2>2. ASSUME NEW w \in Workers, InitDb(w) PROVE Rest'
    <3>1. /\ pc' = [pc EXCEPT ![w] = "check"] /\ schema'
          /\ at' = [at EXCEPT ![w] = 1] /\ UNCHANGED <<rows, races>>
      BY <2>2 DEF InitDb, outside
    <3>2. at'[w] = 1 /\ \A v \in Workers \ {w} : at'[v] = at[v]
      BY <2>0, <3>1 DEF TypeOK
    <3> QED
      BY <3>1, <3>2, MoveInv
  <2>3. ASSUME NEW w \in Workers, Check(w) PROVE Rest'
    BY <2>3, CheckInv
  <2>4. ASSUME NEW w \in Workers, Serve(w) PROVE Rest'
    BY <2>4, MoveInv DEF Serve, table, outside, N
  <2>5. ASSUME NEW w \in Workers, Insert(w) PROVE Rest'
    BY <2>5, InsertInv
  <2>6. ASSUME NEW w \in Workers, Collide(w) PROVE Rest'
    BY <2>6, CollideInv
  <2>7. CASE Stop \/ \E w \in Workers : BootFails(w)
    BY <2>0, <2>7, AllDown DEF Stop, BootFails, Halt, Fault, table
  <2>8. ASSUME NEW w \in Workers, Respawn(w) PROVE Rest'
    BY <2>8, MoveInv DEF Respawn, Fault, table
  <2>9. ASSUME NEW w \in Workers, NEW k \in Keys, NEW c \in 1..MaxSpend, Charge(w, k, c)
        PROVE  Rest'
    <3>1. UNCHANGED <<schema, pc, at, races>>
      BY <2>9 DEF Charge, outside
    <3>2. \A j \in Keys : rows[j] # NoRow => rows'[j] # NoRow
      BY <2>0, RowsStay
    <3>3. Passed'
      <4> SUFFICES ASSUME NEW v \in Workers, pc[v] \in {"check", "insert", "serving"},
                          NEW i \in 1..at[v] - 1
                   PROVE  rows'[Seeds[i]] # NoRow
        BY <2>0, <3>1 DEF Passed
      <4>1. Seeds[i] \in Keys
        BY <2>0, SeedType DEF TypeOK, N
      <4> QED
        BY <2>0, <3>2, <4>1 DEF Passed
    <3>4. RacedIsSeeded'
      BY <2>0, <3>1, <3>2 DEF RacedIsSeeded
    <3> QED
      BY <3>3, <3>4
  <2>10. CASE NewDay \/ UNCHANGED vars
    BY <2>0, <2>10 DEF NewDay, outside, vars, Passed, RacedIsSeeded
  <2> QED
    BY <2>1, <2>2, <2>3, <2>4, <2>5, <2>6, <2>7, <2>8, <2>9, <2>10 DEF Next, Boot
<1>3. IInv <=> TypeOK /\ AtSeed /\ Rest
  BY DEF IInv
<1> HIDE DEF Rest
<1> QED
  BY <1>1, <1>2, <1>3, Types, PTL DEF Spec

(* No worker accepts requests before every seeded key is there.            *)
THEOREM ServingIsComplete == Spec => []ServesAllKeys
<1>1. IInv => ServesAllKeys
  <2> SUFFICES ASSUME IInv, NEW w \in Workers, pc[w] = "serving"
               PROVE  schema /\ \A i \in DOMAIN Seeds : rows[Seeds[i]] # NoRow
    BY DEF ServesAllKeys
  <2>1. at[w] > N /\ at[w] \in Nat /\ schema /\ \A i \in 1..at[w] - 1 : rows[Seeds[i]] # NoRow
    BY DEF IInv, Passed, TypeOK
  <2>2. DOMAIN Seeds = 1..N
    BY StartupAssumption DEF N
  <2> QED
    BY <2>1, <2>2, SeedType
<1> QED
  BY <1>1, Invariance, PTL

(* However many workers race and however often they are started, a key     *)
(* ends at most one start.                                                 *)
THEOREM RacesAreBounded == Spec => []RaceOnce
<1>1. IInv => RaceOnce
  BY DEF IInv, TypeOK, RacedIsSeeded, RaceOnce
<1> QED
  BY <1>1, Invariance, PTL
=============================================================================
