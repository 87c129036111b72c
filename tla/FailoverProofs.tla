-------------------------- MODULE FailoverProofs ----------------------------
(***************************************************************************)
(* Retries and failover for any number of candidates, attempts and pieces. *)
(* The inductive invariant counts the calls made to the current candidate, *)
(* says that the earlier ones are used up and the later ones untouched,    *)
(* and ties what the caller has seen to the attempt that is running.       *)
(***************************************************************************)
EXTENDS OpenRouter, TLAPS

(* The guards of the actions are expanded wherever the action is.          *)
USE DEF NextAttempt, HasNext, IsFallback, LastAttempt, IsFinal, Committed

Active == phase \in {"ready", "waiting"}

Counted ==
    /\ phase = "ready" => tries[idx] = attempt - 1
    /\ phase # "ready" => tries[idx] = attempt
    /\ \A c \in 1..N : c < idx => UsedUp(c)
    /\ \A c \in 1..N : c > idx => tries[c] = 0
    /\ \A c \in 1..N : tries[c] <= MaxAttempts

Seen ==
    /\ resolved # 0 => resolved = idx /\ fallback_used = (idx > 1)
    /\ phase = "ready" => resolved = 0 /\ pieces = 0
    /\ phase = "waiting" => (resolved # 0 <=> started) /\ (pieces > 0 => started)
    /\ mode = "complete" => pieces = 0
    /\ mode = "complete" /\ Active => resolved = 0
    /\ phase = "failed" /\ pieces = 0 => idx = N /\ UsedUp(N)
    /\ started => pieces > 0 \/ phase = "ready"

Refusals ==
    /\ \A c \in refused : c <= idx
    /\ mode = "complete" /\ Active => idx \notin refused

IInv == TypeOK /\ Counted /\ Seen /\ Refusals

(* What a failed attempt does, case by case: the same candidate again, the *)
(* next one, the end of the plan, or the end of a stream that has started. *)
FailedAttempt(retryable) ==
    /\ phase = "waiting"
    /\ refused' = IF retryable THEN refused ELSE refused \cup {idx}
    /\ UNCHANGED <<mode, started, resolved, fallback_used, pieces, tries>>
    /\ \/ /\ phase' = "ready" /\ idx' = idx /\ attempt' = attempt + 1
          /\ attempt < MaxAttempts
          /\ mode = "complete" => retryable
          /\ mode = "stream" => ~started
       \/ /\ phase' = "ready" /\ idx' = idx + 1 /\ attempt' = 1 /\ idx < N
          /\ attempt = MaxAttempts \/ (mode = "complete" /\ ~retryable)
          /\ mode = "stream" => ~started
       \/ /\ phase' = "failed" /\ idx' = idx /\ attempt' = attempt /\ idx = N
          /\ attempt = MaxAttempts \/ (mode = "complete" /\ ~retryable)
       \/ /\ phase' = "failed" /\ idx' = idx /\ attempt' = attempt
          /\ started /\ mode = "stream"

(* Both functions fail in one of these ways.                               *)
LEMMA FailureCases ==
    ASSUME TypeOK, NEW retryable \in BOOLEAN,
           CompleteFails(retryable) \/ StreamFails(retryable)
    PROVE  FailedAttempt(retryable)
<1> USE FailoverAssumption DEF FailoverAssumption, TypeOK, FailedAttempt
<1>1. CASE CompleteFails(retryable)
  BY <1>1 DEF CompleteFails, FailsWith, NextCandidate, Retry, progress
<1>2. CASE StreamFails(retryable)
  BY <1>2 DEF StreamFails, FailsWith, NextCandidate, Retry, progress
<1> QED
  BY <1>1, <1>2

LEMMA TypeStep == TypeOK /\ [Next]_vars => TypeOK'
<1> SUFFICES ASSUME TypeOK, [Next]_vars PROVE TypeOK'
  OBVIOUS
<1> USE FailoverAssumption DEF FailoverAssumption
<1>1. CASE Call
  <2>1. LET n == tries[idx]
        IN  idx \in 1..N /\ (IF n > MaxAttempts THEN n ELSE n + 1) \in 0..MaxAttempts + 1
    BY DEF TypeOK
  <2>2. tries' \in [1..N -> 0..MaxAttempts + 1]
    BY <1>1, <2>1 DEF Call, TypeOK
  <2> QED
    BY <1>1, <2>2 DEF Call, TypeOK, progress
<1>2. CASE CompleteReturns \/ StreamChunk \/ StreamDone
  <2>1. idx \in 0..N /\ (idx > 1) \in BOOLEAN
    BY DEF TypeOK
  <2>2. phase' \in {"waiting", "answered"}
    BY <1>2 DEF CompleteReturns, StreamChunk, StreamDone, TypeOK
  <2>3. pieces' \in 0..MaxPieces /\ started' \in BOOLEAN
    <3>1. CASE StreamChunk
      <4>1. pieces \in Nat /\ pieces < MaxPieces /\ pieces' = pieces + 1 /\ started' = TRUE
        BY <3>1 DEF StreamChunk, TypeOK
      <4> QED
        BY <4>1
    <3>2. CASE CompleteReturns \/ StreamDone
      BY <3>2 DEF CompleteReturns, StreamDone, TypeOK
    <3> QED
      BY <1>2, <3>1, <3>2
  <2>4. resolved' \in 0..N /\ fallback_used' \in BOOLEAN
    BY <1>2, <2>1 DEF CompleteReturns, StreamChunk, StreamDone, Named
  <2> QED
    BY <1>2, <2>2, <2>3, <2>4 DEF CompleteReturns, StreamChunk, StreamDone, TypeOK, Ended
<1>3. ASSUME NEW retryable \in BOOLEAN, CompleteFails(retryable) \/ StreamFails(retryable)
      PROVE  TypeOK'
  <2>0. FailedAttempt(retryable)
    BY <1>3, FailureCases
  <2>1. idx' \in 1..N /\ attempt' \in 1..MaxAttempts
    BY <2>0 DEF FailedAttempt, TypeOK
  <2>2. phase' \in {"ready", "failed"} /\ refused' \in SUBSET (1..N)
    BY <2>0 DEF FailedAttempt, TypeOK
  <2>3. UNCHANGED <<mode, started, resolved, fallback_used, pieces, tries>>
    BY <2>0 DEF FailedAttempt
  <2> QED
    BY <2>1, <2>2, <2>3 DEF TypeOK, Ended
<1>4. CASE Escape \/ Close
  BY <1>4 DEF Escape, Close, TypeOK, Ended, progress
<1>5. CASE UNCHANGED vars
  BY <1>5 DEF vars, TypeOK
<1> QED
  BY <1>1, <1>2, <1>3, <1>4, <1>5 DEF Next, Step

LEMMA InvariantStep == IInv /\ [Next]_vars => IInv'
<1> SUFFICES ASSUME IInv, [Next]_vars PROVE IInv'
  OBVIOUS
<1>0. TypeOK /\ TypeOK'
  BY TypeStep DEF IInv
<1> USE FailoverAssumption DEF FailoverAssumption
<1>1. CASE Call
  <2>1. Counted'
    BY <1>0, <1>1 DEF Call, IInv, TypeOK, Counted, UsedUp
  <2>2. Seen'
    BY <1>0, <1>1 DEF Call, IInv, TypeOK, Seen, Active, progress
  <2>3. Refusals'
    BY <1>0, <1>1 DEF Call, IInv, TypeOK, Refusals, Active
  <2> QED
    BY <1>0, <2>1, <2>2, <2>3 DEF IInv
<1>2. CASE CompleteReturns \/ StreamChunk \/ StreamDone
  <2> USE DEF CompleteReturns, StreamChunk, StreamDone
  <2>1. Counted'
    BY <1>0, <1>2 DEF IInv, TypeOK, Counted, UsedUp
  <2>2. Seen'
    BY <1>0, <1>2 DEF Named, IInv, TypeOK, Seen, Active
  <2>3. Refusals'
    BY <1>0, <1>2 DEF IInv, TypeOK, Refusals, Active
  <2> QED
    BY <1>0, <2>1, <2>2, <2>3 DEF IInv
<1>3. ASSUME NEW retryable \in BOOLEAN, CompleteFails(retryable) \/ StreamFails(retryable)
      PROVE  IInv'
  <2>0. FailedAttempt(retryable)
    BY <1>0, <1>3, FailureCases
  <2>1. Counted'
    <3>1. /\ tries' = tries /\ mode' = mode /\ phase = "waiting" /\ phase' # "waiting"
          /\ idx \in 1..N /\ idx' \in 1..N /\ refused \subseteq refused'
          /\ tries[idx] = attempt
      BY <1>0, <2>0 DEF FailedAttempt, TypeOK, IInv, Counted
    <3>2. \A c \in 1..N : UsedUp(c) => UsedUp(c)'
      BY <3>1 DEF UsedUp
    <3>3. /\ phase' = "ready" => tries'[idx'] = attempt' - 1
          /\ phase' # "ready" => tries'[idx'] = attempt'
      <4>1. attempt \in Nat /\ idx \in Nat
        BY <1>0 DEF TypeOK
      <4>2. idx + 1 \in 1..N => tries[idx + 1] = 0
        BY <4>1 DEF IInv, Counted
      <4>3. \/ phase' = "ready" /\ idx' = idx /\ attempt' = attempt + 1
            \/ phase' = "ready" /\ idx' = idx + 1 /\ attempt' = 1
            \/ phase' = "failed" /\ idx' = idx /\ attempt' = attempt
        BY <1>0, <2>0 DEF FailedAttempt
      <4> QED
        BY <3>1, <4>1, <4>2, <4>3
    <3>4. idx' # idx => idx' = idx + 1 /\ \A c \in 1..N : c = idx => UsedUp(c)'
      <4>1. SUFFICES ASSUME idx' # idx
                   PROVE  idx' = idx + 1 /\ \A c \in 1..N : c = idx => UsedUp(c)'
        OBVIOUS
      <4>2. /\ idx' = idx + 1
            /\ attempt = MaxAttempts \/ (mode = "complete" /\ ~retryable)
        BY <1>0, <2>0, <4>1 DEF FailedAttempt
      <4>3. ~retryable => idx \in refused'
        BY <1>0, <2>0 DEF FailedAttempt
      <4>4. tries'[idx] = MaxAttempts \/ (mode' = "complete" /\ idx \in refused')
        BY <3>1, <4>2, <4>3
      <4> QED
        BY <4>2, <4>4 DEF UsedUp
    <3>5. idx' = idx \/ idx' = idx + 1
      BY <3>4
    <3>6. \A c \in 1..N : c < idx' => UsedUp(c)'
      <4> SUFFICES ASSUME NEW c \in 1..N, c < idx' PROVE UsedUp(c)'
        OBVIOUS
      <4>1. CASE c < idx
        BY <3>2, <4>1 DEF IInv, Counted
      <4>2. CASE ~(c < idx)
        <5>1. c = idx /\ idx' # idx
          BY <3>1, <3>5, <4>2
        <5> QED
          BY <5>1, <3>4
      <4> QED
        BY <4>1, <4>2
    <3> QED
      BY <3>1, <3>3, <3>5, <3>6 DEF IInv, Counted
  <2>2. Seen'
    <3>1. /\ phase = "waiting" /\ mode' = mode /\ started' = started /\ tries' = tries
          /\ resolved' = resolved /\ fallback_used' = fallback_used /\ pieces' = pieces
          /\ tries[idx] = attempt /\ idx \in 1..N /\ mode \in {"complete", "stream"}
      BY <1>0, <2>0 DEF FailedAttempt, IInv, TypeOK, Counted
    <3>2. /\ resolved # 0 => resolved = idx /\ fallback_used = (idx > 1)
          /\ resolved # 0 <=> started
          /\ (pieces > 0 => started) /\ (started => pieces > 0)
          /\ mode = "complete" => pieces = 0 /\ resolved = 0
      BY <3>1 DEF IInv, Seen, Active
    <3>3. CASE phase' = "ready"
      <4>1. ~started
        BY <1>0, <2>0, <3>1, <3>2, <3>3 DEF FailedAttempt
      <4>2. resolved = 0 /\ pieces = 0
        BY <1>0, <3>1, <3>2, <4>1 DEF TypeOK
      <4> QED
        BY <3>1, <3>3, <4>1, <4>2 DEF Seen, Active
    <3>4. CASE phase' # "ready"
      <4>1. phase' = "failed" /\ idx' = idx
        BY <1>0, <2>0, <3>4 DEF FailedAttempt
      <4>2. pieces = 0 => idx = N /\ UsedUp(N)'
        <5> SUFFICES ASSUME pieces = 0 PROVE idx = N /\ UsedUp(N)'
          OBVIOUS
        <5>1. ~started
          BY <3>2
        <5>2. /\ idx = N
              /\ attempt = MaxAttempts \/ (mode = "complete" /\ ~retryable)
          BY <1>0, <2>0, <3>4, <5>1 DEF FailedAttempt
        <5>3. ~retryable => idx \in refused'
          BY <1>0, <2>0 DEF FailedAttempt
        <5> QED
          BY <3>1, <5>2, <5>3 DEF UsedUp
      <4> QED
        BY <3>1, <3>2, <4>1, <4>2 DEF Seen, Active
    <3> QED
      BY <3>3, <3>4
  <2>3. Refusals'
    <3>1. /\ refused' = IF retryable THEN refused ELSE refused \cup {idx}
          /\ phase = "waiting" /\ mode' = mode /\ idx \in Nat /\ refused \subseteq Nat
      BY <1>0, <2>0 DEF FailedAttempt, TypeOK
    <3>2. /\ idx' = idx \/ idx' = idx + 1
          /\ mode = "complete" /\ idx' = idx => retryable \/ phase' = "failed"
      <4>1. \/ idx' = idx /\ (mode = "complete" => retryable)
            \/ idx' = idx + 1 /\ idx + 1 # idx
            \/ phase' = "failed" /\ idx' = idx
        BY <1>0, <2>0 DEF FailedAttempt, TypeOK
      <4> QED
        BY <4>1
    <3>3. /\ \A c \in refused : c <= idx
          /\ mode = "complete" => idx \notin refused
      BY <3>1 DEF IInv, Refusals, Active
    <3>4. \A c \in refused' : c <= idx
      BY <3>1, <3>3
    <3>5. mode' = "complete" /\ Active' => idx' \notin refused'
      BY <3>1, <3>2, <3>3, <3>4 DEF Active
    <3> QED
      BY <3>1, <3>2, <3>4, <3>5 DEF Refusals
  <2> QED
    BY <1>0, <2>1, <2>2, <2>3 DEF IInv
<1>4. CASE Escape \/ Close
  <2>1. Counted'
    BY <1>0, <1>4 DEF Escape, Close, IInv, TypeOK, Counted, UsedUp
  <2>2. Seen' /\ Refusals'
    BY <1>0, <1>4 DEF Escape, Close, IInv, Seen, Refusals, Active, progress
  <2> QED
    BY <1>0, <2>1, <2>2 DEF IInv
<1>5. CASE UNCHANGED vars
  BY <1>5 DEF vars, IInv, TypeOK, Counted, Seen, Refusals, UsedUp, Active
<1> QED
  BY <1>1, <1>2, <1>3, <1>4, <1>5 DEF Next, Step

(* The inductive invariant holds in every behaviour.                       *)
THEOREM Invariance == Spec => []IInv
<1> USE FailoverAssumption DEF FailoverAssumption, Init
<1>1. Init => IInv
  <2>1. Init => TypeOK
    <3>1. 1 \in 1..N /\ 1 \in 1..MaxAttempts /\ 0 \in 0..N /\ 0 \in 0..MaxPieces
      OBVIOUS
    <3>2. Init => tries \in [1..N -> 0..MaxAttempts + 1] /\ refused \in SUBSET (1..N)
      OBVIOUS
    <3> QED
      BY <3>1, <3>2 DEF TypeOK
  <2>2. Init => Counted
    BY DEF Counted
  <2>3. Init => Seen /\ Refusals
    BY DEF Seen, Refusals
  <2> QED
    BY <2>1, <2>2, <2>3 DEF IInv
<1> HIDE DEF Init
<1> QED
  BY <1>1, InvariantStep, PTL DEF Spec

(* Candidates are tried in the order of the plan, each at most MaxAttempts *)
(* times, and none is skipped.                                             *)
THEOREM TriedInOrder == Spec => []InOrder
<1>1. IInv => InOrder
  <2> SUFFICES ASSUME IInv, NEW c \in 1..N
               PROVE  /\ tries[c] <= MaxAttempts
                      /\ c < idx => UsedUp(c)
                      /\ c > idx => tries[c] = 0
    BY DEF InOrder
  <2> QED
    BY DEF IInv, Counted
<1> QED
  BY <1>1, Invariance, PTL

(* Giving up before anything was sent means that every candidate has had   *)
(* all of its attempts or has refused for good.                            *)
THEOREM FailureIsLastResort == Spec => []FailureMeansExhausted
<1>1. IInv => FailureMeansExhausted
  <2> SUFFICES ASSUME IInv, phase = "failed", pieces = 0, NEW c \in 1..N
               PROVE  UsedUp(c)
    BY DEF FailureMeansExhausted
  <2>1. idx = N /\ UsedUp(N)
    BY DEF IInv, Seen
  <2>2. c < N \/ c = N
    BY FailoverAssumption DEF FailoverAssumption
  <2> QED
    BY <2>1, <2>2 DEF IInv, Counted
<1> QED
  BY <1>1, Invariance, PTL

(* The fallback flag of an answer is set exactly when the primary model    *)
(* was used up and another one answered.                                   *)
THEOREM FallbackFlagIsHonest == Spec => []FallbackIsHonest
<1>1. IInv => FallbackIsHonest
  <2> SUFFICES ASSUME IInv, resolved # 0
               PROVE  fallback_used <=> UsedUp(1) /\ resolved # 1
    BY DEF FallbackIsHonest
  <2>1. resolved = idx /\ fallback_used = (idx > 1) /\ idx \in 1..N
    BY DEF IInv, Seen, TypeOK
  <2>2. 1 \in 1..N
    BY FailoverAssumption DEF FailoverAssumption
  <2>3. idx > 1 => UsedUp(1)
    BY <2>1, <2>2 DEF IInv, Counted
  <2>4. CASE idx = 1
    <3>1. ~(idx > 1) /\ resolved = 1
      BY <2>1, <2>4
    <3> QED
      BY <2>1, <3>1
  <2>5. CASE idx # 1
    <3>1. idx > 1 /\ resolved # 1
      BY <2>1, <2>5
    <3> QED
      BY <2>1, <2>3, <3>1
  <2> QED
    BY <2>4, <2>5
<1> QED
  BY <1>1, Invariance, PTL

(* A blocking call leaves a candidate alone once it has refused for good.  *)
THEOREM RefusalIsFinal == Spec => NoCallAfterRefusal
<1>1. IInv /\ [Next]_vars
        => [\A c \in 1..N : mode = "complete" /\ c \in refused => tries'[c] = tries[c]]_vars
  <2> SUFFICES ASSUME IInv, [Next]_vars, NEW c \in 1..N, mode = "complete", c \in refused
               PROVE  tries'[c] = tries[c]
    OBVIOUS
  <2>1. CASE Call
    <3>1. idx \notin refused
      BY <2>1 DEF Call, IInv, Refusals, Active
    <3> QED
      BY <2>1, <3>1 DEF Call, IInv, TypeOK
  <2>2. CASE UNCHANGED tries
    BY <2>2
  <2> QED
    BY <2>1, <2>2 DEF Next, Step, CompleteReturns, CompleteFails, StreamChunk, StreamDone,
                      StreamFails, FailsWith, Escape, Close, vars
<1> QED
  BY <1>1, Invariance, PTL DEF Spec, NoCallAfterRefusal

(* Failover implements Delivery: whatever is retried underneath, the       *)
(* caller gets the text of a single attempt and one end.                   *)
THEOREM FailoverImplementsDelivery == Spec => ImplementsDelivery
<1> USE DEF End, Ended, Settled
<1>1. Init => D!Init
  BY DEF Init, D!Init
<1>2. IInv /\ [Next]_vars => [D!Next]_D!vars
  <2> SUFFICES ASSUME IInv, [Next]_vars PROVE [D!Next]_D!vars
    OBVIOUS
  <2>0. /\ idx \in 1..N /\ attempt \in 1..MaxAttempts
        /\ phase \in {"ready", "waiting"} \cup Ended
        /\ phase = "waiting" => resolved \in {0, idx}
        /\ phase = "ready" => resolved = 0
    BY DEF IInv, TypeOK, Seen
  <2>1. CASE Call
    BY <2>1 DEF Call, progress, D!vars
  <2>2. CASE CompleteReturns \/ StreamDone
    <3>1. D!Answer(idx, attempt)
      BY <2>0, <2>2 DEF CompleteReturns, StreamDone, Named, D!Answer, D!From
    <3> QED
      BY <2>0, <3>1 DEF D!Next
  <2>3. CASE StreamChunk
    <3>1. D!Piece(idx, attempt)
      BY <2>0, <2>3 DEF StreamChunk, Named, D!Piece, D!From
    <3> QED
      BY <2>0, <3>1 DEF D!Next
  <2>4. ASSUME NEW retryable \in BOOLEAN, CompleteFails(retryable) \/ StreamFails(retryable)
        PROVE  [D!Next]_D!vars
    <3>1. FailedAttempt(retryable)
      BY <2>4, FailureCases DEF IInv
    <3>2. /\ phase = "waiting" /\ phase' \in {"ready", "failed"}
          /\ UNCHANGED <<resolved, pieces>>
          /\ phase' = "failed" => attempt' = attempt
      BY <3>1 DEF FailedAttempt
    <3>3. CASE phase' = "ready"
      <4>1. mode = "stream" => ~started
        BY <3>1, <3>3 DEF FailedAttempt
      <4>2. resolved = 0
        BY <3>2, <4>1 DEF IInv, TypeOK, Seen, Active
      <4> QED
        BY <3>2, <3>3, <4>2 DEF D!vars
    <3>4. CASE phase' = "failed"
      <4>1. D!Stop
        BY <3>2, <3>4 DEF D!Stop
      <4> QED
        BY <4>1 DEF D!Next
    <3> QED
      BY <3>2, <3>3, <3>4
  <2>5. CASE Escape \/ Close
    <3>1. D!Stop
      BY <2>5 DEF Escape, Close, progress, D!Stop
    <3> QED
      BY <3>1 DEF D!Next
  <2>6. CASE UNCHANGED vars
    BY <2>6 DEF vars, D!vars
  <2> QED
    BY <2>1, <2>2, <2>3, <2>4, <2>5, <2>6 DEF Next, Step
<1> QED
  BY <1>1, <1>2, Invariance, PTL DEF Spec, D!Spec, ImplementsDelivery

----------------------------------------------------------------------------
(* Module OpenRouter: the HTTP adapter behaves as module Failover assumes  *)
(* of a provider, so what is proved of the failover holds with it; and how *)
(* long the adapter waits, for every timeout.                              *)

(* Every step of the adapter is one of the failover, or none.              *)
LEMMA StepSimulation == [AdapterNext]_<<vars, exchange>> => [Next]_vars
<1> SUFFICES ASSUME [AdapterNext]_<<vars, exchange>> PROVE [Next]_vars
    OBVIOUS
<1>1. ASSUME NEW b \in BOOLEAN, Fails(b) PROVE Next
    BY <1>1 DEF Fails, Next, Step
<1>2. ASSUME Begin PROVE Next
    BY <1>2 DEF Begin, Next, Step
<1>3. ASSUME NoKey \/ NoResponse \/ LateLine PROVE Next
    BY <1>1, <1>3 DEF NoKey, NoResponse, LateLine
<1>4. ASSUME NEW s \in Statuses, Refuses(s) PROVE Next
    <2>1. Retryable(s) \in BOOLEAN
        BY DEF Retryable
    <2> QED
        BY <1>1, <1>4, <2>1 DEF Refuses
<1>5. ASSUME Body \/ Break \/ Piece \/ DoneLine \/ EndOfLines PROVE Next
    BY <1>5 DEF Body, Break, Piece, DoneLine, EndOfLines, Next, Step
<1>6. ASSUME ClientCloses PROVE Next
    BY <1>6 DEF ClientCloses, Next
<1>7. ASSUME Post \/ Wait \/ Drip \/ Head \/ \E isError \in BOOLEAN : Skip(isError)
      PROVE  UNCHANGED vars
    BY <1>7 DEF Post, Wait, Drip, Head, Skip
<1> QED
    BY <1>2, <1>3, <1>4, <1>5, <1>6, <1>7 DEF AdapterNext, AdapterStep

(* Module OpenRouter implements module Failover: with the real adapter a   *)
(* plan is worked off as module Failover says.                             *)
THEOREM AdapterImplementsFailover == AdapterSpec => Spec
<1>1. AdapterInit => Init
    BY DEF AdapterInit
<1> QED
    BY <1>1, StepSimulation, PTL DEF AdapterSpec, Spec

----------------------------------------------------------------------------
Flags ==
    /\ sent \in BOOLEAN /\ dripping \in BOOLEAN /\ cut \in BOOLEAN
    /\ status \in {0, 200} \cup Statuses
    /\ status # 0 => sent /\ mode = "stream"

Clocks ==
    /\ quiet \in 0..Timeout
    /\ elapsed \in 0..Timeout + 1
    /\ waited \in 0..2 * Timeout + 1

(* As long as lines are accepted, the wait for them is within the time     *)
(* elapsed.  After that, and where no clock is looked at, it is longer     *)
(* than what is quiet now only by dripping.                                *)
WaitBound ==
    /\ status # 200 => elapsed = 0
    /\ status = 200 /\ elapsed <= Timeout => waited <= elapsed
    /\ status = 200 /\ elapsed > Timeout => dripping \/ waited <= Timeout + quiet
    /\ status # 200 => dripping \/ waited <= quiet

ExchangeInv == Flags /\ Clocks /\ WaitBound

(* An exchange that has not begun.                                         *)
LEMMA FreshExchange ==
    ASSUME sent = FALSE, status = 0, quiet = 0, elapsed = 0, dripping = FALSE, waited = 0,
           cut \in BOOLEAN
    PROVE  ExchangeInv
<1>1. Flags
    BY DEF Flags
<1>2. Clocks /\ WaitBound
    BY TimeoutAssumption DEF TimeoutAssumption, Clocks, WaitBound
<1> QED
    BY <1>1, <1>2 DEF ExchangeInv

LEMMA ClearExchange ==
    ASSUME Clear, cut' \in BOOLEAN PROVE ExchangeInv'
<1>1. Flags'
    BY DEF Flags, Clear
<1>2. Clocks' /\ WaitBound'
    BY TimeoutAssumption DEF TimeoutAssumption, Clocks, WaitBound, Clear
<1> QED
    BY <1>1, <1>2 DEF ExchangeInv

LEMMA NextExchange == ExchangeInv /\ [AdapterNext]_<<vars, exchange>> => ExchangeInv'
<1> SUFFICES ASSUME ExchangeInv, [AdapterNext]_<<vars, exchange>> PROVE ExchangeInv'
    OBVIOUS
<1> USE TimeoutAssumption DEF TimeoutAssumption, ExchangeInv
<1>1. ASSUME Clear, cut' \in {cut, TRUE, FALSE} PROVE ExchangeInv'
    BY <1>1, ClearExchange DEF Flags
<1>2. ASSUME Begin \/ EndOfLines PROVE ExchangeInv'
    BY <1>1, <1>2 DEF Begin, EndOfLines
<1>3. ASSUME Hangup PROVE ExchangeInv'
    BY <1>1, <1>3 DEF Hangup
<1>4. ASSUME NoKey \/ NoResponse \/ LateLine \/ Body \/ DoneLine \/ Break \/ ClientCloses
      PROVE  Hangup
    BY <1>4 DEF NoKey, NoResponse, LateLine, Body, DoneLine, Break, ClientCloses, Fails
<1>5. ASSUME NEW s \in Statuses, Refuses(s) PROVE Hangup
    BY <1>5 DEF Refuses, Fails
<1>6. ASSUME Post PROVE ExchangeInv'
    <2>1. Flags'
        BY <1>6 DEF Post, Flags, vars
    <2>2. UNCHANGED <<status, quiet, elapsed, dripping, waited>>
        BY <1>6 DEF Post
    <2>3. Clocks' /\ WaitBound'
        BY <2>2 DEF Clocks, WaitBound
    <2> QED
        BY <2>1, <2>3
<1>7. ASSUME Drip PROVE ExchangeInv'
    <2>1. Flags'
        BY <1>7 DEF Drip, Flags, vars
    <2>2. quiet' = 0 /\ dripping' /\ UNCHANGED <<status, elapsed, waited>>
        BY <1>7 DEF Drip
    <2>3. Clocks' /\ WaitBound'
        BY <2>2 DEF Clocks, WaitBound
    <2> QED
        BY <2>1, <2>3
<1>8. ASSUME Wait PROVE ExchangeInv'
    <2>1. Flags'
        BY <1>8 DEF Wait, Flags, vars
    <2>2. /\ phase = "waiting" /\ UNCHANGED <<status, dripping>>
          /\ quiet' = quiet + 1 /\ quiet' \in 0..Timeout
          /\ waited' \in 0..2 * Timeout + 1 /\ waited' <= waited + 1
        BY <1>8 DEF Wait, Clocks
    <2>3. elapsed' = IF status = 200 /\ elapsed <= Timeout THEN elapsed + 1 ELSE elapsed
        BY <1>8, <2>2 DEF Wait, Reads
    <2>4. Clocks' /\ WaitBound'
        BY <2>2, <2>3 DEF Clocks, WaitBound
    <2> QED
        BY <2>1, <2>4
<1>9. ASSUME Head PROVE ExchangeInv'
    <2>1. Flags'
        BY <1>9 DEF Head, Awaits, Flags, vars
    <2>2. quiet' = 0 /\ waited' = 0 /\ elapsed' = 0
        BY <1>9 DEF Head, Awaits, WaitBound
    <2>3. Clocks' /\ WaitBound'
        BY <2>2 DEF Clocks, WaitBound
    <2> QED
        BY <2>1, <2>3
(* A line in time, whoever takes time after it.                            *)
<1>10. ASSUME LineInTime, elapsed' \in elapsed..Timeout + 1, UNCHANGED <<status, waited>>
       PROVE  Clocks' /\ WaitBound'
    <2>1. elapsed <= Timeout /\ status = 200 /\ quiet' = 0
        BY <1>10 DEF LineInTime, Reads, Late, Clocks
    <2> QED
        BY <1>10, <2>1 DEF Clocks, WaitBound
<1>11. ASSUME Piece PROVE ExchangeInv'
    <2>1. Flags'
        BY <1>11 DEF Piece, LineInTime, StreamChunk, Flags
    <2>2. Clocks' /\ WaitBound'
        BY <1>10, <1>11 DEF Piece
    <2> QED
        BY <2>1, <2>2
<1>12. ASSUME NEW isError \in BOOLEAN, Skip(isError) PROVE ExchangeInv'
    <2>1. Flags'
        BY <1>12 DEF Skip, LineInTime, Flags, vars
    <2>2. elapsed' \in elapsed..Timeout + 1
        BY <1>12 DEF Skip, Clocks
    <2>3. Clocks' /\ WaitBound'
        BY <1>10, <1>12, <2>2 DEF Skip
    <2> QED
        BY <2>1, <2>3
<1>13. ASSUME UNCHANGED <<vars, exchange>> PROVE ExchangeInv'
    BY <1>13 DEF vars, exchange, Flags, Clocks, WaitBound
<1> QED
    BY <1>2, <1>3, <1>4, <1>5, <1>6, <1>7, <1>8, <1>9, <1>11, <1>12, <1>13
       DEF AdapterNext, AdapterStep

(* The inductive invariant of the exchange.                                *)
THEOREM ExchangeInvariance == AdapterSpec => []ExchangeInv
<1>1. AdapterInit => ExchangeInv
    BY FreshExchange DEF AdapterInit
<1> QED
    BY <1>1, NextExchange, PTL DEF AdapterSpec

(* For every timeout, a wait for the response, for a refusal's body or for *)
(* the lines of a stream outlasts two timeouts only while the server keeps *)
(* the socket busy with what completes nothing (openrouter.py 62-67,       *)
(* 91-110).                                                                *)
THEOREM WaitsAreBounded == AdapterSpec => []WaitIsBounded
<1>1. ExchangeInv => WaitIsBounded
    BY TimeoutAssumption DEF TimeoutAssumption, ExchangeInv, Clocks, WaitBound, WaitIsBounded
<1> QED
    BY <1>1, ExchangeInvariance, PTL

(* Type correctness of the composition.                                    *)
THEOREM AdapterTypeCorrect == AdapterSpec => []AdapterTypeOK
<1>1. TypeOK /\ ExchangeInv => AdapterTypeOK
    BY DEF ExchangeInv, Flags, Clocks, AdapterTypeOK
<1>2. Spec => []TypeOK
    BY Invariance, PTL DEF IInv
<1> QED
    BY <1>1, <1>2, AdapterImplementsFailover, ExchangeInvariance, PTL

(* Over the HTTP adapter the failover keeps every promise of router.py     *)
(* 67-146: order, exhaustion, the fallback flag, refusals, and the text of *)
(* one attempt with one end.                                               *)
THEOREM AdapterKeepsPromises ==
    AdapterSpec =>
        /\ [](InOrder /\ FailureMeansExhausted /\ FallbackIsHonest)
        /\ NoCallAfterRefusal
        /\ ImplementsDelivery
<1>1. Spec => [](InOrder /\ FailureMeansExhausted /\ FallbackIsHonest)
    BY TriedInOrder, FailureIsLastResort, FallbackFlagIsHonest, PTL
<1> QED
    BY <1>1, AdapterImplementsFailover, RefusalIsFinal, FailoverImplementsDelivery
=============================================================================
