------------------------------ MODULE Failover ------------------------------
(***************************************************************************)
(* Retries and failover of app/core/router.py: one call of                 *)
(* run_with_failover (mode "complete") or of the generator                 *)
(* run_stream_with_failover (mode "stream") over the candidates of a       *)
(* resolution plan.  The provider answers as it likes: it returns, fails   *)
(* with a ProviderError that is retryable or not, raises something else,   *)
(* or streams some pieces first.                                           *)
(***************************************************************************)
EXTENDS Integers, FiniteSets

CONSTANTS
    N,            \* len(candidates)
    MaxAttempts,  \* retries.max_attempts
    MaxPieces     \* bound: the pieces that a stream is followed for

ASSUME FailoverAssumption ==
    N \in Nat \ {0} /\ MaxAttempts \in Nat \ {0} /\ MaxPieces \in Nat

VARIABLES
    mode,      \* which of the two functions runs
    phase,     \* "ready" to call, "waiting" for the provider, or how it ended
    idx,       \* the candidate being tried
    attempt,   \* the number of the attempt on it
    started,   \* this attempt has emitted a piece
    resolved,  \* the candidate named in the latest event or outcome, or 0
    fallback_used,  \* the flag sent with it
    pieces,    \* pieces emitted to the caller so far
    tries,     \* history: calls made to c, counted to one more than it may have
    refused    \* history: candidates that failed with a non-retryable error

vars == <<mode, phase, idx, attempt, started, resolved, fallback_used, pieces,
          tries, refused>>

Ended == {"answered", "failed", "escaped", "closed"}

TypeOK ==
    /\ mode \in {"complete", "stream"}
    /\ phase \in {"ready", "waiting"} \cup Ended
    /\ idx \in 1..N
    /\ attempt \in 1..MaxAttempts
    /\ started \in BOOLEAN
    /\ resolved \in 0..N
    /\ fallback_used \in BOOLEAN
    /\ pieces \in 0..MaxPieces
    /\ tries \in [1..N -> 0..MaxAttempts + 1]
    /\ refused \in SUBSET (1..N)

Init ==
    /\ mode \in {"complete", "stream"}
    /\ phase = "ready"
    /\ idx = 1
    /\ attempt = 1
    /\ started = FALSE
    /\ resolved = 0
    /\ fallback_used = FALSE
    /\ pieces = 0
    /\ tries = [c \in 1..N |-> 0]
    /\ refused = {}

progress == <<resolved, fallback_used, pieces>>

(* provider.complete or provider.stream is called.                         *)
Call ==
    /\ phase = "ready"
    /\ phase' = "waiting"
    /\ started' = FALSE
    /\ tries' = [tries EXCEPT ![idx] = IF @ > MaxAttempts THEN @ ELSE @ + 1]
    /\ UNCHANGED <<mode, idx, attempt, progress, refused>>

\* Faulty variant: the attempts are not counted.
SameAttempt == attempt

NextAttempt == attempt + 1

(* After the backoff, the same candidate again.                            *)
Retry ==
    /\ phase' = "ready"
    /\ attempt' = NextAttempt
    /\ UNCHANGED idx

\* Faulty variant: the last model of the chain is left out.
HasNextButOne == idx < N - 1

HasNext == idx < N

(* This candidate is exhausted: the next one, or the last error is raised  *)
(* (in the generator: emitted as the error event).                         *)
NextCandidate ==
    IF HasNext
      THEN phase' = "ready" /\ idx' = idx + 1 /\ attempt' = 1
      ELSE phase' = "failed" /\ UNCHANGED <<idx, attempt>>

\* Faulty variant: a retry of the primary counts as a fallback.
IsRetry == attempt > 1

IsFallback == idx > 1

(* Every outcome and event carries the model and whether it is a fallback. *)
Named ==
    /\ resolved' = idx
    /\ fallback_used' = IsFallback

\* Faulty variants: an off-by-one in the last attempt, either way.
LastAttemptLate == attempt > MaxAttempts
LastAttemptEarly == attempt = MaxAttempts - 1

LastAttempt == attempt = MaxAttempts

\* Faulty variant: retryable is not looked at.
NothingIsFinal(retryable) == FALSE

IsFinal(retryable) == ~retryable

FailsWith(retryable) ==
    /\ refused' = IF retryable THEN refused ELSE refused \cup {idx}
    /\ UNCHANGED <<mode, started, progress, tries>>

----------------------------------------------------------------------------
(* run_with_failover                                                       *)

CompleteReturns ==
    /\ mode = "complete" /\ phase = "waiting"
    /\ phase' = "answered"
    /\ Named
    /\ UNCHANGED <<mode, idx, attempt, started, pieces, tries, refused>>

(* A refusal or the last attempt ends with this candidate.                 *)
CompleteFails(retryable) ==
    /\ mode = "complete" /\ phase = "waiting"
    /\ FailsWith(retryable)
    /\ IF IsFinal(retryable) \/ LastAttempt THEN NextCandidate ELSE Retry

----------------------------------------------------------------------------
(* run_stream_with_failover                                                *)

StreamChunk ==
    /\ mode = "stream" /\ phase = "waiting"
    /\ pieces < MaxPieces
    /\ pieces' = pieces + 1
    /\ started' = TRUE
    /\ Named
    /\ UNCHANGED <<mode, phase, idx, attempt, tries, refused>>

(* The provider has nothing more; it may have had nothing at all.          *)
StreamDone ==
    /\ mode = "stream" /\ phase = "waiting"
    /\ phase' = "answered"
    /\ Named
    /\ UNCHANGED <<mode, idx, attempt, started, pieces, tries, refused>>

\* Faulty variant: a stream that has started is tried again.
NeverCommitted == FALSE

Committed == started

(* Once a piece is out, a failure ends the stream; before that it leads to *)
(* another attempt whether it is retryable or not.                         *)
StreamFails(retryable) ==
    /\ mode = "stream" /\ phase = "waiting"
    /\ FailsWith(retryable)
    /\ IF Committed THEN phase' = "failed" /\ UNCHANGED <<idx, attempt>>
       ELSE IF LastAttempt THEN NextCandidate ELSE Retry

----------------------------------------------------------------------------
(* An exception that is no ProviderError (a body that is not JSON, a       *)
(* connection lost while the stream is read) leaves both functions.        *)
Escape ==
    /\ phase = "waiting"
    /\ phase' = "escaped"
    /\ UNCHANGED <<mode, idx, attempt, started, progress, tries, refused>>

(* The client is gone: the generator is closed at the piece it has just    *)
(* emitted.                                                                *)
Close ==
    /\ phase = "waiting" /\ started
    /\ phase' = "closed"
    /\ UNCHANGED <<mode, idx, attempt, started, progress, tries, refused>>

Step ==
    \/ Call
    \/ CompleteReturns
    \/ \E retryable \in BOOLEAN : CompleteFails(retryable)
    \/ StreamChunk
    \/ StreamDone
    \/ \E retryable \in BOOLEAN : StreamFails(retryable)

Next == Step \/ Escape \/ Close

Spec == Init /\ [][Next]_vars

----------------------------------------------------------------------------
(* A candidate is used up when it has had all of its attempts, or, outside *)
(* of streams, when it has refused for good (router.py 94, 140).           *)
UsedUp(c) == tries[c] = MaxAttempts \/ (mode = "complete" /\ c \in refused)

(* The candidates are tried in the order of the plan, each of them as      *)
(* often as it may be and no more, before the next one is called           *)
(* (router.py 78-98, 118-143).                                             *)
InOrder ==
    \A c \in 1..N : /\ tries[c] <= MaxAttempts
                    /\ c < idx => UsedUp(c)
                    /\ c > idx => tries[c] = 0

(* Giving up, with nothing sent to the client, means that every candidate  *)
(* is used up: no fallback is left untried when 502 is returned.           *)
FailureMeansExhausted ==
    phase = "failed" /\ pieces = 0 => \A c \in 1..N : UsedUp(c)

(* x-prism-fallback tells the truth: an answer is marked as a fallback     *)
(* exactly when the primary model was called and used up before.           *)
FallbackIsHonest ==
    resolved # 0 => (fallback_used <=> UsedUp(1) /\ resolved # 1)

(* A blocking call never repeats a request that a candidate refused for    *)
(* good (README 126-128: retries for retryable errors only).               *)
NoCallAfterRefusal ==
    [][\A c \in 1..N : mode = "complete" /\ c \in refused => tries'[c] = tries[c]]_vars

(* The same promise, for streams as well.                                  *)
NoCallAfterRefusalInStreams ==
    [][\A c \in 1..N : c \in refused => tries'[c] = tries[c]]_vars

(* The caller sees module Delivery: once the first piece is out, all text  *)
(* comes from the same attempt of the same candidate (router.py 104-110).  *)
End == CASE phase \in {"ready", "waiting"} -> "open"
         [] phase \in {"answered", "failed"} -> phase
         [] phase \in {"escaped", "closed"} -> "left"

(* The attempt that the text comes from; a retry after it would show here. *)
Settled == IF resolved = 0 THEN 0 ELSE attempt

D == INSTANCE Delivery WITH source <- resolved, attempt <- Settled, end <- End

ImplementsDelivery == D!Spec
=============================================================================
