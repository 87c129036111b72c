------------------------------ MODULE Gateway -------------------------------
(***************************************************************************)
(* The handler of POST /v1/chat/completions, app/routers/chat.py, over the *)
(* four tables it touches: the accounting of module Ledger, whose          *)
(* transactions are single steps here, the response cache, and the request *)
(* log.  Several requests are served at once; one step is one database     *)
(* operation, one upstream outcome or one event of a stream.  Any database *)
(* operation may fail, a client may leave a stream, and a worker process   *)
(* may die with all of its requests.                                       *)
(***************************************************************************)
EXTENDS VirtualKeys, FiniteSets, Sequences, SequencesExt

CONSTANTS
    Workers,    \* worker processes, each one the set of requests it serves
    TenantOf,   \* TenantOf[k]: column tenant
    Allowed,    \* Allowed[k]: column allowed_models
    Known,      \* the names that resolve to candidates
    Bodies,     \* the requests that clients send
    Prompts,    \* user texts, equal when the cache takes them for similar
    NoText,     \* the prompt without a word of user text
    NoEntry,    \* no cache entry
    NoBody      \* a request that has not been sent

Requests == UNION Workers

ASSUME RequestsAssumption == IsFiniteSet(Requests) /\ Requests # {}

(* A body without Authorization header, model or messages is not valid; a  *)
(* key outside of Keys is not recognized.                                  *)
ASSUME BodiesAssumption ==
    \A b \in Bodies : /\ b.valid \in BOOLEAN
                      /\ b.stream \in BOOLEAN
                      /\ b.prompt \in Prompts \cup {NoText}

VARIABLES
    now, used, spent, period,   \* as in module Ledger
    entries,   \* cache_entries that are not expired, with the request they are from
    req        \* req[r]: the locals of request r and what it leaves behind

ledger == <<now, used, spent, period>>
vars == <<ledger, entries, req>>

Over == {"idle", "over"}
(* Between the budget check and the charge, or the exit without one.       *)
Admitted == {"resolve", "lookup", "log_hit", "upstream", "log_error", "charge",
             "replay", "stream", "done_sent", "error_sent"}
(* The steps that are a database operation.                                *)
Storing == {"authenticate", "rate", "budget", "log_reject", "lookup", "log_hit",
            "log_error", "charge", "store", "log_ok"}
Places == Over \cup Admitted \cup Storing

Statuses == {"none", "answered", "refused", "upstream_error", "server_error", "gone"}

(* What the handler does next; the request's body; the cached entry found; *)
(* the cost computed; its rows in request_logs.  History: how the client   *)
(* saw it end, whether it took a slot, and what it added to the spend.     *)
NewRequest == [pc |-> "idle", body |-> NoBody, hit |-> NoEntry, cost |-> 0, rows |-> <<>>,
               reply |-> "none", slot |-> FALSE, charged |-> 0]

key(r) == req[r].body.key
tenant(r) == TenantOf[key(r)]

Open == [k \in Keys |->
            Cardinality({r \in Requests : req[r].pc \in Admitted /\ key(r) = k})]

L == INSTANCE Ledger WITH open <- Open, Concurrency <- Cardinality(Requests)

TypeOK ==
    /\ L!TypeOK
    /\ \A r \in Requests :
          /\ req[r].pc \in Places
          /\ req[r].pc # "idle" => req[r].body \in Bodies
          /\ req[r].cost \in 0..MaxCost /\ req[r].charged \in 0..MaxCost
          /\ req[r].hit # NoEntry => req[r].hit.from \in Requests
          /\ req[r].reply \in Statuses
          /\ req[r].slot \in BOOLEAN
    /\ \A e \in entries : e.tenant = tenant(e.from) /\ e.prompt \in Prompts

Init ==
    /\ now = 0
    /\ used = [k \in Keys |-> [w \in Windows |-> 0]]
    /\ spent = [k \in Keys |-> 0]
    /\ period = [k \in Keys |-> MonthOf[0]]
    /\ entries = {}
    /\ req = [r \in Requests |-> NewRequest]

At(r, s) == req[r].pc = s
Goto(r, s) == req' = [req EXCEPT ![r].pc = s]

(* The request is over; the client has seen it end with the given status.  *)
Reply(r, status) == req' = [req EXCEPT ![r].pc = "over", ![r].reply = status]

Row(status, c, cacheHit) == [status |-> status, cost |-> c, hit |-> cacheHit]

(* log_request, and the response that follows it.                          *)
LogAndReply(r, row, status) ==
    /\ req' = [req EXCEPT ![r].pc = "over", ![r].reply = status,
                          ![r].rows = Append(@, row)]
    /\ UNCHANGED <<ledger, entries>>

(* A step that only moves on.                                              *)
Move(r, from, to) == At(r, from) /\ Goto(r, to) /\ UNCHANGED <<ledger, entries>>

----------------------------------------------------------------------------
(* Admission, chat.py 45-79                                                *)

Receive(r, b) ==
    /\ At(r, "idle")
    /\ req' = [req EXCEPT ![r].body = b,
                          ![r].pc = IF b.valid THEN "authenticate" ELSE "over",
                          ![r].reply = IF b.valid THEN "none" ELSE "refused"]
    /\ UNCHANGED <<ledger, entries>>

\* Faulty variant: check_model_allowed is not called.
RecognizesKey(r) == key(r) \in Keys

(* authenticate, then check_model_allowed.                                 *)
Recognizes(r) == key(r) \in Keys /\ req[r].body.model \in Allowed[key(r)]

Authenticate(r) ==
    Move(r, "authenticate", IF Recognizes(r) THEN "rate" ELSE "log_reject")

\* Faulty variant: the counter goes up without a look at the limit.
CountSlot(r) ==
    /\ used' = [used EXCEPT ![key(r)][now] = @ + 1]
    /\ UNCHANGED <<now, spent, period>>

(* The current window, or the one it was when the clock was read.          *)
TakeSlot(r) ==
    \E w \in {now - 1, now} \cap Windows :
        /\ used[key(r)][w] < RpmLimit[key(r)]
        /\ used' = [used EXCEPT ![key(r)][w] = @ + 1]
        /\ UNCHANGED <<now, spent, period>>

(* admit_rate_limit                                                        *)
RateGrant(r) ==
    /\ At(r, "rate")
    /\ req' = [req EXCEPT ![r].pc = "budget", ![r].slot = TRUE]
    /\ UNCHANGED entries
    /\ TakeSlot(r)

RateReject(r) ==
    /\ Move(r, "rate", "log_reject")
    /\ \E w \in {now - 1, now} \cap Windows : used[key(r)][w] >= RpmLimit[key(r)]

(* The spend after _maybe_reset_period.                                    *)
SpendChecked(k) == IF period[k] = MonthOf[now] THEN spent[k] ELSE 0

(* admit_budget                                                            *)
BudgetCheck(r) ==
    LET k == key(r) IN
    /\ At(r, "budget")
    /\ spent' = [spent EXCEPT ![k] = SpendChecked(k)]
    /\ period' = [period EXCEPT ![k] = MonthOf[now]]
    /\ Goto(r, IF SpendChecked(k) < Budget[k] THEN "resolve" ELSE "log_reject")
    /\ UNCHANGED <<now, used, entries>>

LogReject(r) ==
    /\ At(r, "log_reject")
    /\ LogAndReply(r, Row("rejected", 0, FALSE), "refused")

----------------------------------------------------------------------------
(* Resolution and cache, chat.py 84-117                                    *)

(* A name that is on the allowlist but resolves to nothing ends here, with *)
(* its slot taken and without a row in the log.                            *)
Resolve(r) ==
    /\ At(r, "resolve")
    /\ IF req[r].body.model \in Known THEN Goto(r, "lookup") ELSE Reply(r, "refused")
    /\ UNCHANGED <<ledger, entries>>

(* Where the handler goes with the result of the lookup.                   *)
AfterLookup(r, cached) ==
    CASE cached /\ req[r].body.stream   -> "replay"
      [] cached /\ ~req[r].body.stream  -> "log_hit"
      [] ~cached /\ req[r].body.stream  -> "stream"
      [] ~cached /\ ~req[r].body.stream -> "upstream"

\* Faulty variant: the lookup is not scoped to the tenant.
SimilarOfAnyTenant(r) == {e \in entries : e.prompt = req[r].body.prompt}

(* The live entries of the tenant that are similar enough.                 *)
Similar(r) == {e \in entries : e.tenant = tenant(r) /\ e.prompt = req[r].body.prompt}

(* cache_lookup: the model that was asked for plays no part in it.         *)
Lookup(r) ==
    /\ At(r, "lookup")
    /\ \/ \E e \in Similar(r) :
             req' = [req EXCEPT ![r].hit = e, ![r].pc = AfterLookup(r, TRUE)]
       \/ Similar(r) = {} /\ Goto(r, AfterLookup(r, FALSE))
    /\ UNCHANGED <<ledger, entries>>

\* Faulty variant: a hit is logged with the cost of the original answer.
HitCostOfOriginal(r) == req[req[r].hit.from].cost

(* A hit costs nothing.                                                    *)
HitCost(r) == 0

LogHit(r) ==
    /\ At(r, "log_hit")
    /\ LogAndReply(r, Row("ok", HitCost(r), TRUE), "answered")

(* The last event of a replayed stream is out; the row comes after it.     *)
ReplayEnds(r) == Move(r, "replay", "log_hit")

----------------------------------------------------------------------------
(* The upstream call, chat.py 119-126 and 186-212; its inside is module    *)
(* Failover.                                                               *)

Priced(r, c, to) ==
    /\ req' = [req EXCEPT ![r].cost = c, ![r].pc = to]
    /\ UNCHANGED <<ledger, entries>>

UpstreamReturns(r, c) == At(r, "upstream") /\ Priced(r, c, "charge")

UpstreamFails(r) == Move(r, "upstream", "log_error")

(* "[DONE]", or the error event and "[DONE]", has been handed to the       *)
(* server; the handler goes on when the generator is resumed.              *)
StreamEnds(r) == \E s \in {"done_sent", "error_sent"} : Move(r, "stream", s)

\* Faulty variant: the stream path forgets record_actual_spend.
ResumeUncharged(r, c) == At(r, "done_sent") /\ Priced(r, c, "store")

ResumeAfterDone(r, c) == At(r, "done_sent") /\ Priced(r, c, "charge")

ResumeAfterError(r) == Move(r, "error_sent", "log_error")

\* Faulty variant: the return after the error row is missing.
LogErrorWithoutReturn(r) ==
    /\ At(r, "log_error")
    /\ req' = [req EXCEPT ![r].rows = Append(@, Row("error", 0, FALSE)), ![r].pc = "charge"]
    /\ UNCHANGED <<ledger, entries>>

LogError(r) ==
    /\ At(r, "log_error")
    /\ LogAndReply(r, Row("error", 0, FALSE), "upstream_error")

----------------------------------------------------------------------------
(* What follows a completion, chat.py 129-136 and 214-219                  *)

(* record_actual_spend                                                     *)
Charge(r) ==
    /\ At(r, "charge")
    /\ spent' = [spent EXCEPT ![key(r)] = @ + req[r].cost]
    /\ req' = [req EXCEPT ![r].charged = req[r].cost, ![r].pc = "store"]
    /\ UNCHANGED <<now, used, period, entries>>

\* Faulty variant: a prompt without text is stored, too.
AnyText(r) == TRUE

HasText(r) == req[r].body.prompt # NoText

(* cache_store: a prompt without text is not stored.                       *)
Store(r) ==
    /\ At(r, "store")
    /\ LET e == [tenant |-> tenant(r), prompt |-> req[r].body.prompt, from |-> r]
       IN  entries' = IF HasText(r) THEN entries \cup {e} ELSE entries
    /\ Goto(r, "log_ok")
    /\ UNCHANGED ledger

LogOk(r) ==
    /\ At(r, "log_ok")
    /\ LogAndReply(r, Row("ok", req[r].cost, FALSE), "answered")

----------------------------------------------------------------------------
(* Faults                                                                  *)

(* Where an exception that nobody catches leaves the handler: in a         *)
(* database operation ("database is locked", a full disk), which writes    *)
(* nothing, in a provider that raises something other than a ProviderError,*)
(* or over messages of an unexpected shape.                                *)
Raises(r) ==
    /\ req[r].pc \in Storing \cup {"resolve", "upstream", "stream"}
    /\ Reply(r, "server_error")
    /\ UNCHANGED <<ledger, entries>>

(* The client of a stream leaves: the generator is closed where it stands, *)
(* and what would have followed the event it was sending does not happen.  *)
ClientLeaves(r) ==
    /\ req[r].pc \in {"replay", "stream", "done_sent", "error_sent"}
    /\ Reply(r, "gone")
    /\ UNCHANGED <<ledger, entries>>

(* A worker process dies with every request it was serving.                *)
Crash(W) ==
    LET lost == {r \in W : req[r].pc \notin Over} IN
    /\ lost # {}
    /\ req' = [r \in Requests |->
                  IF r \in lost THEN [req[r] EXCEPT !.pc = "over", !.reply = "gone"]
                                ELSE req[r]]
    /\ UNCHANGED <<ledger, entries>>

(* ttl_seconds pass: lookup no longer sees the entry.                      *)
Expire(e) ==
    /\ entries' = entries \ {e}
    /\ UNCHANGED <<ledger, req>>

Tick ==
    /\ now < MaxNow
    /\ now' = now + 1
    /\ UNCHANGED <<used, spent, period, entries, req>>

----------------------------------------------------------------------------
Step(r) ==
    \/ Authenticate(r)
    \/ RateGrant(r)
    \/ RateReject(r)
    \/ BudgetCheck(r)
    \/ LogReject(r)
    \/ Resolve(r)
    \/ Lookup(r)
    \/ LogHit(r)
    \/ ReplayEnds(r)
    \/ \E c \in 0..MaxCost : UpstreamReturns(r, c)
    \/ UpstreamFails(r)
    \/ StreamEnds(r)
    \/ \E c \in 0..MaxCost : ResumeAfterDone(r, c)
    \/ ResumeAfterError(r)
    \/ LogError(r)
    \/ Charge(r)
    \/ Store(r)
    \/ LogOk(r)

Next ==
    \/ Tick
    \/ \E r \in Requests, b \in Bodies : Receive(r, b)
    \/ \E r \in Requests : Step(r) \/ Raises(r) \/ ClientLeaves(r)
    \/ \E W \in Workers : Crash(W)
    \/ \E e \in entries : Expire(e)

Spec == Init /\ [][Next]_vars

----------------------------------------------------------------------------
(* The refusals that leave no row: an invalid body, and an allowed name    *)
(* that does not resolve (chat.py 57-61, 94).                              *)
RefusedUnlogged(r) ==
    /\ req[r].reply = "refused"
    /\ req[r].body.valid => req[r].body.model \notin Known

(* No request leaves more than one row in request_logs, and one that the   *)
(* handler brings to its end leaves one, on every path of chat.py, those   *)
(* two refusals apart: a row is missing only where a step failed.          *)
OneRow ==
    \A r \in Requests :
        /\ Len(req[r].rows) <= 1
        /\ At(r, "over") /\ req[r].rows = <<>>
              => req[r].reply \in {"server_error", "gone"} \/ RefusedUnlogged(r)

(* The usage report never shows a cost that the key's budget was not       *)
(* charged: record_actual_spend comes before log_request.                  *)
LoggedCostIsCharged ==
    \A r \in Requests : \A i \in DOMAIN req[r].rows :
        req[r].rows[i].cost = req[r].charged

(* Nothing has failed on the way of any request.                           *)
NoFaults == \A r \in Requests : req[r].reply \notin {"server_error", "gone"}

LoggedCost(k) ==
    SumFunction([r \in Requests |-> IF req[r].rows # <<>> /\ key(r) = k
                                      THEN req[r].rows[1].cost ELSE 0])

(* The invariant that load_test.py checks after its run: when nobody is    *)
(* being served and nothing has failed, the spend of a key in its first    *)
(* month is the sum of the costs in its log rows.                          *)
SpendIsTheLoggedCost ==
    (NoFaults /\ \A r \in Requests : req[r].pc \in Over)
        => \A k \in Keys : period[k] = MonthOf[0] => spent[k] = LoggedCost(k)

(* An answer whose handler ran to its end is accounted for: it has its     *)
(* row, and it was either charged or came from an answer of the same       *)
(* tenant that had been charged itself (cache.py 2-4).                     *)
AnswerIsAccounted ==
    \A r \in Requests : req[r].reply = "answered" =>
        LET q == req[r]  row == q.rows[1] IN
        /\ Len(q.rows) = 1 /\ row.status = "ok"
        /\ IF row.hit
             THEN /\ q.charged = 0
                  /\ tenant(q.hit.from) = tenant(r)
                  /\ req[q.hit.from].charged = req[q.hit.from].cost
             ELSE q.charged = q.cost

(* A request that is turned away costs its key nothing: no spend, and no   *)
(* slot unless the rate limit had already let it through.                  *)
RejectionCostsNothing ==
    \A r \in Requests : \A i \in DOMAIN req[r].rows :
        req[r].rows[i].status = "rejected" =>
            /\ req[r].charged = 0
            /\ req[r].slot => req[r].body.model \in Allowed[key(r)]

(* The handler keeps the order of the ledger's transactions.               *)
ImplementsLedger == L!Spec
=============================================================================
