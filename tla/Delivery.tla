------------------------------ MODULE Delivery ------------------------------
(***************************************************************************)
(* What one upstream call promises to the handler that makes it: the text  *)
(* comes from one attempt on one candidate only, and the call ends once,   *)
(* either with the answer of that attempt, with a failure, or because one  *)
(* of the two sides went away.  What was tried before is not visible here. *)
(***************************************************************************)
EXTENDS Integers

CONSTANTS
    N,            \* number of candidates in the resolution plan, at least one
    MaxAttempts,  \* attempts that each of them may have, at least one
    MaxPieces     \* bound: the pieces that a stream is followed for

VARIABLES
    source,   \* the candidate whose text the caller has, 0 for none yet
    attempt,  \* the attempt on it that the text comes from, 0 for none yet
    pieces,   \* how many pieces the caller has been given
    end       \* "open", or how the call ended

vars == <<source, attempt, pieces, end>>

TypeOK ==
    /\ source \in 0..N
    /\ attempt \in 0..MaxAttempts
    /\ pieces \in 0..MaxPieces
    /\ end \in {"open", "answered", "failed", "left"}

Init == source = 0 /\ attempt = 0 /\ pieces = 0 /\ end = "open"

(* The first piece, or an answer without one, settles candidate and        *)
(* attempt; all that follows is from the same.                             *)
From(c, a) ==
    /\ end = "open"
    /\ <<source, attempt>> \in {<<0, 0>>, <<c, a>>}
    /\ source' = c /\ attempt' = a

Piece(c, a) ==
    /\ From(c, a)
    /\ pieces < MaxPieces
    /\ pieces' = pieces + 1
    /\ UNCHANGED end

Answer(c, a) ==
    /\ From(c, a)
    /\ end' = "answered"
    /\ UNCHANGED pieces

Stop ==
    /\ end = "open"
    /\ end' \in {"failed", "left"}
    /\ UNCHANGED <<source, attempt, pieces>>

Next == (\E c \in 1..N, a \in 1..MaxAttempts : Piece(c, a) \/ Answer(c, a)) \/ Stop

Spec == Init /\ [][Next]_vars
=============================================================================
