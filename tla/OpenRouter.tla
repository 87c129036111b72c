----------------------------- MODULE OpenRouter -----------------------------
(***************************************************************************)
(* Retries and failover over the real adapter, app/providers/openrouter.py:*)
(* module Failover, with the provider that answers as it likes replaced by *)
(* an HTTP exchange.  Every step of the adapter that ends a call, or hands *)
(* on a piece, is the step of the router that it causes.                   *)
(*                                                                         *)
(* External: the server behind the URL and the requests library, as the    *)
(* adapter uses them.  The timeout given to requests is one for every      *)
(* operation on the socket: it starts again with every byte.  The adapter  *)
(* does not see bytes, only a whole response, a whole body or whole lines. *)
(***************************************************************************)
EXTENDS Failover

CONSTANT Timeout   \* timeouts.provider_request_timeout_seconds, in ticks

ASSUME TimeoutAssumption == Timeout \in Nat \ {0}

VARIABLES
    sent,      \* the adapter is inside requests.post, or past it
    status,    \* of a stream whose headers are here; 0 before, and in complete()
    quiet,     \* ticks since requests' timeout was last started
    elapsed,   \* time.time() - start, from the headers on, up to Timeout + 1
    dripping,  \* requests' timeout was started again, with nothing for the adapter
    cut,       \* history: upstream broke this stream off, or reported an error in it
    waited     \* history: ticks waited for the response, the body of a refusal
               \* or the lines of a stream, up to 2 * Timeout + 1

exchange == <<sent, status, quiet, elapsed, dripping, cut, waited>>

Statuses == {401, 429, 500}

AdapterTypeOK ==
    /\ TypeOK
    /\ sent \in BOOLEAN /\ dripping \in BOOLEAN /\ cut \in BOOLEAN
    /\ status \in {0, 200} \cup Statuses
    /\ quiet \in 0..Timeout
    /\ elapsed \in 0..Timeout + 1
    /\ waited \in 0..2 * Timeout + 1
    /\ status # 0 => sent /\ mode = "stream"

AdapterInit ==
    /\ Init
    /\ sent = FALSE /\ status = 0 /\ quiet = 0
    /\ elapsed = 0 /\ dripping = FALSE /\ waited = 0
    /\ cut = FALSE

(* Nothing of an exchange is left when the call is over.                   *)
Clear ==
    /\ sent' = FALSE /\ status' = 0 /\ quiet' = 0
    /\ elapsed' = 0 /\ dripping' = FALSE /\ waited' = 0

Hangup == Clear /\ UNCHANGED cut

Fails(retryable) == (CompleteFails(retryable) \/ StreamFails(retryable)) /\ Hangup

(* The router calls the adapter.                                           *)
Begin == Call /\ Clear /\ cut' = FALSE

(* The headers of the request are put together: without a configured key   *)
(* that raises, and else the request goes out.                             *)
NoKey == phase = "waiting" /\ ~sent /\ Fails(FALSE)

Post ==
    /\ phase = "waiting" /\ ~sent
    /\ sent' = TRUE
    /\ UNCHANGED <<vars, status, quiet, elapsed, dripping, cut, waited>>

----------------------------------------------------------------------------
(* Below the adapter, in requests.                                         *)

(* The response is not here: in complete() all of it, in stream() its      *)
(* headers.                                                                *)
Awaits == phase = "waiting" /\ sent /\ status = 0

(* for line in resp.iter_lines()                                           *)
Reads == phase = "waiting" /\ status = 200

(* One tick in which nothing happens on the socket.                        *)
Wait ==
    /\ phase = "waiting" /\ sent /\ quiet < Timeout
    /\ quiet' = quiet + 1
    /\ waited' = IF waited > 2 * Timeout THEN waited ELSE waited + 1
    /\ elapsed' = IF Reads /\ elapsed <= Timeout THEN elapsed + 1 ELSE elapsed
    /\ UNCHANGED <<vars, sent, status, dripping, cut>>

(* The connection is made or tried at the next address, or some bytes come *)
(* that complete neither the response nor a line, or do not fill the block *)
(* that iter_lines reads.                                                  *)
Drip ==
    /\ phase = "waiting" /\ sent
    /\ quiet' = 0
    /\ dripping' = TRUE
    /\ UNCHANGED <<vars, sent, status, elapsed, cut, waited>>

----------------------------------------------------------------------------
(* requests.post                                                           *)

(* Timeout, or any other RequestException.                                 *)
NoResponse == Awaits /\ Fails(TRUE)

(* The headers of a stream; if they are no refusal, start is taken.        *)
Head ==
    /\ Awaits /\ mode = "stream"
    /\ status' \in {200} \cup Statuses
    /\ quiet' = 0 /\ dripping' = FALSE /\ waited' = 0
    /\ UNCHANGED <<vars, sent, elapsed, cut>>

Retryable(s) == s = 429 \/ s >= 500

(* A status of 400 or more.  The message quotes the body, which in a       *)
(* stream is only read now.                                                *)
Refuses(s) ==
    /\ phase = "waiting" /\ sent
    /\ status = IF mode = "stream" THEN s ELSE 0
    /\ Fails(Retryable(s))

(* The whole body is here, with an answer in it, or with something that    *)
(* raises KeyError or a JSON error.                                        *)
Body == Awaits /\ mode = "complete" /\ (CompleteReturns \/ Escape) /\ Hangup

----------------------------------------------------------------------------
(* What iter_lines hands on.                                               *)

\* Faulty variant: the clock is looked at for lines with data only.
NeverLate == FALSE

Late == elapsed > Timeout

LateLine == Reads /\ Late /\ Fails(TRUE)

LineInTime == Reads /\ ~Late /\ quiet' = 0 /\ dripping' = FALSE

(* A delta with content.  The consumer takes its time before it resumes    *)
(* the generator.                                                          *)
Piece ==
    /\ LineInTime
    /\ StreamChunk
    /\ elapsed' \in elapsed..Timeout + 1
    /\ UNCHANGED <<sent, status, cut, waited>>

(* An empty line, a comment, a delta without content, or an error object,  *)
(* whose missing "choices" is swallowed like any other garbage.            *)
Skip(isError) ==
    /\ LineInTime
    /\ cut' = (cut \/ isError)
    /\ UNCHANGED <<vars, sent, status, elapsed, waited>>

(* "[DONE]"                                                                *)
DoneLine == Reads /\ ~Late /\ StreamDone /\ Hangup

(* The server closes the stream without "[DONE]": the loop is at its end,  *)
(* and so is the generator.                                                *)
EndOfLines == Reads /\ StreamDone /\ Clear /\ cut' = TRUE

(* The connection breaks, or requests gives up waiting, while the body of  *)
(* a refusal or the lines are read, or a line is no text.  What is raised  *)
(* there is no ProviderError.                                              *)
Break == phase = "waiting" /\ status # 0 /\ Escape /\ Hangup

ClientCloses == Close /\ Hangup

----------------------------------------------------------------------------
AdapterStep ==
    \/ Begin
    \/ NoKey
    \/ Post
    \/ Wait
    \/ NoResponse
    \/ Head
    \/ \E s \in Statuses : Refuses(s)
    \/ Body
    \/ LateLine
    \/ Piece
    \/ DoneLine
    \/ EndOfLines
    \/ Break

AdapterNext ==
    \/ AdapterStep
    \/ Drip
    \/ \E isError \in BOOLEAN : Skip(isError)
    \/ ClientCloses

AdapterSpec == AdapterInit /\ [][AdapterNext]_<<vars, exchange>>

(* The thread of the request goes on, time passes, and requests raises its *)
(* timeout when it is due.                                                 *)
FairAdapterSpec ==
    /\ AdapterSpec
    /\ WF_<<vars, exchange>>(Begin)
    /\ WF_<<vars, exchange>>(Post)
    /\ WF_<<vars, exchange>>(Wait)
    /\ WF_<<vars, exchange>>(NoResponse /\ quiet = Timeout)
    /\ WF_<<vars, exchange>>(Break /\ quiet = Timeout)

----------------------------------------------------------------------------
(* No timeout of the code is about a whole call, but between requests' own *)
(* and the check at openrouter.py 109 only dripping makes a wait for the   *)
(* response, for a refusal's body or for all lines of a stream longer than *)
(* two timeouts: a line is accepted up to the first one, and the wait for  *)
(* the next line ends with the second, the consumer's time not counted.    *)
WaitIsBounded == waited > 2 * Timeout => dripping

(* Retries and failover end, with an answer, a failure or an exception,    *)
(* unless a server drips for ever: nothing in openrouter.py or router.py   *)
(* ends such a call, although every other one is ended by some timeout.    *)
Terminates == <>(phase \in Ended) \/ []<><<Drip>>_<<vars, exchange>>

(* README 129-131: once a stream has emitted its first token, a failure of *)
(* the provider is surfaced as an error event; it does not pass for the    *)
(* end of the answer.                                                      *)
MidStreamFailureSurfaces == phase = "answered" /\ pieces > 0 => ~cut
=============================================================================
