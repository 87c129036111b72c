--------------------------- MODULE GatewayProofs ----------------------------
(***************************************************************************)
(* Safety of the chat completions handler for any keys, tenants, bodies,   *)
(* workers and limits: what the log, the budget and the answers say of a   *)
(* request agree, whatever fails on its way, and the handler keeps the     *)
(* promises of module Ledger.  The inductive invariant follows a request   *)
(* from its slot to its row, and every cached answer back to the charge of *)
(* the request it came from.                                               *)
(***************************************************************************)
EXTENDS Gateway, Sums

Rows == [status: {"ok", "error", "rejected"}, cost: 0..MaxCost, hit: BOOLEAN]

Entries == [tenant: {TenantOf[k] : k \in Keys}, prompt: Prompts, from: Requests]

Locals == [pc: Places, body: Bodies \cup {NoBody}, hit: Entries \cup {NoEntry},
           cost: 0..MaxCost, rows: {<<>>} \cup {<<w>> : w \in Rows},
           reply: Statuses, slot: BOOLEAN, charged: 0..MaxCost]

(* Where a request is after its key and model have been accepted.          *)
Accepted == {"rate", "budget", "store", "log_ok"} \cup Admitted

Typed ==
    /\ L!TypeOK
    /\ req \in [Requests -> Locals]
    /\ \A r \in Requests : req[r].pc # "idle" => req[r].body \in Bodies
    /\ entries \subseteq Entries

(* The key and the model of a request hold for the rest of its way, it has *)
(* no row and no reply before it is over, and its charge is its cost.      *)
InOrder(r) ==
    /\ req[r].pc = "idle" => ~req[r].slot
    /\ req[r].pc \in Accepted => Recognizes(r)
    /\ req[r].slot => Recognizes(r)
    /\ req[r].pc # "over" => req[r].rows = <<>> /\ req[r].reply = "none"
    /\ req[r].pc \notin {"store", "log_ok", "over"} => req[r].charged = 0
    /\ req[r].pc \in {"store", "log_ok"} => req[r].charged = req[r].cost

(* The request has been charged in full, and nothing of it will change.    *)
Paid(r) ==
    /\ req[r].pc \in {"log_ok", "over"}
    /\ req[r].charged = req[r].cost

(* The answer that was found is one of the same tenant that was paid for.  *)
OwnHit(r) ==
    /\ req[r].hit.from \in Requests
    /\ Paid(req[r].hit.from)
    /\ tenant(req[r].hit.from) = tenant(r)

HitInOrder(r) == req[r].pc \in {"replay", "log_hit"} => OwnHit(r)

(* The row of a request that is over, and the answer it was given with;    *)
(* without a row it was charged only if something failed.                  *)
RowInOrder(r) ==
    LET q == req[r] IN
    q.pc = "over" =>
        /\ q.rows # <<>> => /\ q.rows[1].cost = q.charged
                            /\ q.rows[1].status = "rejected" => q.charged = 0
        /\ q.rows = <<>> /\ q.reply \notin {"server_error", "gone"}
              => q.charged = 0 /\ RefusedUnlogged(r)
        /\ q.reply = "answered" =>
              /\ q.rows # <<>> /\ q.rows[1].status = "ok"
              /\ IF q.rows[1].hit THEN q.charged = 0 /\ OwnHit(r) ELSE q.charged = q.cost

EntriesArePaid == \A e \in entries : Paid(e.from) /\ e.tenant = tenant(e.from)

IInv ==
    /\ Typed
    /\ EntriesArePaid
    /\ \A r \in Requests : InOrder(r) /\ HitInOrder(r) /\ RowInOrder(r)

----------------------------------------------------------------------------
(* Types                                                                   *)

LEMMA ClockFacts ==
    /\ 0 \in Windows /\ Windows \subseteq Nat
    /\ \A w \in Windows : MonthOf[w] \in Months /\ MonthOf[w] \in Nat
    /\ \A w \in Windows : w < MaxNow => w + 1 \in Windows /\ MonthOf[w] <= MonthOf[w + 1]
    /\ L!Windows = Windows /\ L!Months = Months
<1>1. \A w \in Windows : w < MaxNow => w + 1 \in Windows /\ w <= w + 1
  BY ClockAssumption DEF ClockAssumption, Windows
<1>2. \A w \in Windows : w < MaxNow => MonthOf[w] <= MonthOf[w + 1]
  BY <1>1, ClockAssumption DEF ClockAssumption
<1> QED
  BY <1>1, <1>2, ClockAssumption DEF ClockAssumption, Windows, Months, L!Windows, L!Months

(* A request that is not over leaves its only row by the step that ends    *)
(* it.                                                                     *)
LEMMA LogEnds ==
    ASSUME Typed, NEW r \in Requests, InOrder(r), req[r].pc # "over",
           NEW row \in Rows, NEW status \in Statuses,
           LogAndReply(r, row, status)
    PROVE  /\ req' = [req EXCEPT ![r].pc = "over", ![r].reply = status, ![r].rows = <<row>>]
           /\ req' \in [Requests -> Locals]
           /\ UNCHANGED <<now, used, spent, period, entries>>
<1>1. req' = [req EXCEPT ![r].pc = "over", ![r].reply = status, ![r].rows = <<row>>]
  <2>1. req[r].rows = <<>> /\ Append(<<>>, row) = <<row>>
    BY DEF InOrder
  <2> QED
    BY <2>1 DEF LogAndReply
<1>2. "over" \in Places /\ <<row>> \in {<<>>} \cup {<<w>> : w \in Rows}
  BY DEF Places, Over
<1> QED
  BY <1>1, <1>2 DEF LogAndReply, ledger, Typed, Locals

LEMMA MoveIsTyped ==
    ASSUME Typed, NEW r \in Requests, NEW s \in Places, Goto(r, s)
    PROVE  req' \in [Requests -> Locals]
BY DEF Typed, Locals, Goto

LEMMA ReplyIsTyped ==
    ASSUME Typed, NEW r \in Requests, NEW status \in Statuses, Reply(r, status)
    PROVE  req' \in [Requests -> Locals]
<1>1. "over" \in Places
  BY DEF Places, Over
<1> QED
  BY <1>1 DEF Typed, Locals, Reply

(* What each step makes of the requests keeps their types.                 *)
LEMMA LocalsStep ==
    ASSUME Typed, \A r \in Requests : InOrder(r), [Next]_vars
    PROVE  req' \in [Requests -> Locals]
<1>0. /\ 0 \in 0..MaxCost
      /\ "over" \in Places /\ "authenticate" \in Places /\ "rate" \in Places
      /\ "budget" \in Places /\ "log_reject" \in Places /\ "resolve" \in Places
      /\ "lookup" \in Places /\ "log_hit" \in Places /\ "upstream" \in Places
      /\ "log_error" \in Places /\ "charge" \in Places /\ "replay" \in Places
      /\ "stream" \in Places /\ "done_sent" \in Places /\ "error_sent" \in Places
      /\ "store" \in Places /\ "log_ok" \in Places
      /\ "none" \in Statuses /\ "refused" \in Statuses /\ "gone" \in Statuses
  BY CostAssumption DEF CostAssumption, Places, Over, Admitted, Storing, Statuses
<1>1. ASSUME NEW r \in Requests, NEW b \in Bodies, Receive(r, b)
      PROVE  req' \in [Requests -> Locals]
  <2> DEFINE q == [req[r] EXCEPT !.body = b,
                                 !.pc = IF b.valid THEN "authenticate" ELSE "over",
                                 !.reply = IF b.valid THEN "none" ELSE "refused"]
  <2>1. q \in Locals
    BY <1>0 DEF Typed, Locals
  <2>2. req' = [req EXCEPT ![r] = q]
    BY <1>1 DEF Receive, Typed, Locals
  <2> HIDE DEF q
  <2> QED
    BY <2>1, <2>2 DEF Typed
<1>2. ASSUME NEW r \in Requests,
             \/ Authenticate(r) \/ RateReject(r) \/ BudgetCheck(r) \/ ReplayEnds(r)
             \/ UpstreamFails(r) \/ StreamEnds(r) \/ ResumeAfterError(r) \/ Store(r)
      PROVE  req' \in [Requests -> Locals]
  BY <1>0, <1>2, MoveIsTyped DEF Authenticate, RateReject, BudgetCheck, ReplayEnds, UpstreamFails,
                          StreamEnds, ResumeAfterError, Store, Move
<1>3. ASSUME NEW r \in Requests, RateGrant(r) PROVE req' \in [Requests -> Locals]
  <2>1. req' = [req EXCEPT ![r] = [req[r] EXCEPT !.pc = "budget", !.slot = TRUE]]
    BY <1>3 DEF RateGrant
  <2>2. [req[r] EXCEPT !.pc = "budget", !.slot = TRUE] \in Locals
    BY <1>0 DEF Typed, Locals
  <2> QED
    BY <2>1, <2>2 DEF Typed
<1>4. ASSUME NEW r \in Requests, LogReject(r) \/ LogHit(r) \/ LogError(r) \/ LogOk(r)
      PROVE  req' \in [Requests -> Locals]
  <2>1. req[r].cost \in 0..MaxCost
    BY DEF Typed, Locals
  <2>2. /\ Row("rejected", 0, FALSE) \in Rows /\ Row("ok", 0, TRUE) \in Rows
        /\ Row("error", 0, FALSE) \in Rows /\ Row("ok", req[r].cost, FALSE) \in Rows
    BY <1>0, <2>1 DEF Row, Rows
  <2>3. {"answered", "refused", "upstream_error"} \subseteq Statuses
    BY DEF Statuses
  <2> QED
    BY <1>4, <2>2, <2>3, LogEnds DEF LogReject, LogHit, LogError, LogOk, At, HitCost
<1>5. ASSUME NEW r \in Requests, Resolve(r) \/ Raises(r) \/ ClientLeaves(r)
      PROVE  req' \in [Requests -> Locals]
  BY <1>0, <1>5, MoveIsTyped, ReplyIsTyped DEF Resolve, Raises, ClientLeaves, Statuses
<1>6. ASSUME NEW r \in Requests, Lookup(r) PROVE req' \in [Requests -> Locals]
  <2>1. req[r].body.stream \in BOOLEAN
    BY <1>6, BodiesAssumption DEF Lookup, At, Typed, BodiesAssumption
  <2>2. \A c \in BOOLEAN : AfterLookup(r, c) \in Places
    BY <1>0, <2>1 DEF AfterLookup
  <2>3. Similar(r) \subseteq Entries
    BY DEF Similar, Typed
  <2>4. ASSUME NEW e \in Similar(r),
               req' = [req EXCEPT ![r].hit = e, ![r].pc = AfterLookup(r, TRUE)]
        PROVE  req' \in [Requests -> Locals]
    <3> DEFINE q == [req[r] EXCEPT !.hit = e, !.pc = AfterLookup(r, TRUE)]
    <3>1. q \in Locals
      BY <2>2, <2>3 DEF Typed, Locals
    <3>2. req' = [req EXCEPT ![r] = q]
      BY <2>4 DEF Typed, Locals
    <3> HIDE DEF q
    <3> QED
      BY <3>1, <3>2 DEF Typed
  <2> QED
    BY <1>6, <2>2, <2>4, MoveIsTyped DEF Lookup
<1>7. ASSUME NEW r \in Requests, NEW c \in 0..MaxCost,
             UpstreamReturns(r, c) \/ ResumeAfterDone(r, c)
      PROVE  req' \in [Requests -> Locals]
  <2> DEFINE q == [req[r] EXCEPT !.cost = c, !.pc = "charge"]
  <2>1. q \in Locals
    BY <1>0 DEF Typed, Locals
  <2>2. req' = [req EXCEPT ![r] = q]
    BY <1>7 DEF UpstreamReturns, ResumeAfterDone, Priced, Typed, Locals
  <2> HIDE DEF q
  <2> QED
    BY <2>1, <2>2 DEF Typed
<1>8. ASSUME NEW r \in Requests, Charge(r) PROVE req' \in [Requests -> Locals]
  BY <1>0, <1>8 DEF Charge, Typed, Locals
<1>9. ASSUME NEW W \in Workers, Crash(W) PROVE req' \in [Requests -> Locals]
  BY <1>0, <1>9 DEF Crash, Typed, Locals
<1>10. CASE UNCHANGED req
  BY <1>10 DEF Typed
<1> QED
  BY <1>1, <1>2, <1>3, <1>4, <1>5, <1>6, <1>7, <1>8, <1>9, <1>10
     DEF Next, Step, vars, Tick, Expire

----------------------------------------------------------------------------
(* One step, seen from a request                                           *)

(* Who moves the requests.                                                 *)
LEMMA StepKinds ==
    ASSUME [Next]_vars
    PROVE  \/ \E s \in Requests, b \in Bodies : Receive(s, b)
           \/ \E s \in Requests : Step(s) \/ Raises(s) \/ ClientLeaves(s)
           \/ \E W \in Workers : Crash(W)
           \/ UNCHANGED req /\ entries' \subseteq entries
BY DEF Next, vars, Tick, Expire

(* A step of the handler serves one request that is not over, and leaves   *)
(* the others and its body alone; an answer that was charged is not        *)
(* charged again.                                                          *)
LEMMA StepServesOne ==
    ASSUME Typed, NEW s \in Requests, Step(s) \/ Raises(s) \/ ClientLeaves(s)
    PROVE  /\ req[s].pc \notin Over
           /\ \A r \in Requests : r # s => req'[r] = req[r]
           /\ req'[s].body = req[s].body
           /\ req[s].pc = "log_ok" => /\ req'[s].pc = "over"
                                      /\ req'[s].cost = req[s].cost
                                      /\ req'[s].charged = req[s].charged
<1> DEFINE Served == /\ req[s].pc \notin Over
                     /\ \A r \in Requests : r # s => req'[r] = req[r]
                     /\ req'[s].body = req[s].body
                     /\ req[s].pc = "log_ok" => /\ req'[s].pc = "over"
                                                /\ req'[s].cost = req[s].cost
                                                /\ req'[s].charged = req[s].charged
<1> USE DEF Over
<1>0. DOMAIN req = Requests /\ req[s] \in Locals
  BY DEF Typed
<1>1. ASSUME \/ Authenticate(s) \/ RateReject(s) \/ BudgetCheck(s) \/ ReplayEnds(s)
             \/ UpstreamFails(s) \/ StreamEnds(s) \/ ResumeAfterError(s) \/ Store(s)
      PROVE  Served
  BY <1>0, <1>1 DEF Authenticate, RateReject, BudgetCheck, ReplayEnds, UpstreamFails,
                    StreamEnds, ResumeAfterError, Store, Move, Goto, At, Locals
<1>2. ASSUME RateGrant(s) \/ Charge(s) PROVE Served
  BY <1>0, <1>2 DEF RateGrant, Charge, At, Locals
<1>3. ASSUME LogReject(s) \/ LogHit(s) \/ LogError(s) \/ LogOk(s) PROVE Served
  <2>1. ASSUME NEW row, NEW status, LogAndReply(s, row, status)
        PROVE  /\ \A r \in Requests : r # s => req'[r] = req[r]
               /\ req'[s] = [req[s] EXCEPT !.pc = "over", !.reply = status,
                                           !.rows = Append(@, row)]
    BY <1>0, <2>1 DEF LogAndReply, Locals
  <2> QED
    BY <1>0, <1>3, <2>1 DEF LogReject, LogHit, LogError, LogOk, At, Locals
<1>4. ASSUME Resolve(s) \/ Raises(s) \/ ClientLeaves(s) PROVE Served
  BY <1>0, <1>4 DEF Resolve, Raises, ClientLeaves, Reply, Goto, At, Storing, Locals
<1>5. ASSUME Lookup(s) PROVE Served
  BY <1>0, <1>5 DEF Lookup, Goto, At, Locals
<1>6. ASSUME NEW c \in 0..MaxCost, UpstreamReturns(s, c) \/ ResumeAfterDone(s, c)
      PROVE  Served
  BY <1>0, <1>6 DEF UpstreamReturns, ResumeAfterDone, Priced, At, Locals
<1> QED
  BY <1>1, <1>2, <1>3, <1>4, <1>5, <1>6 DEF Step

(* Whatever happens, a request keeps its body once it has one, and its     *)
(* cost and its charge once it has been charged in full.                   *)
LEMMA PaidStays ==
    ASSUME Typed, [Next]_vars, NEW r \in Requests, req[r].pc # "idle"
    PROVE  /\ req'[r].body = req[r].body
           /\ Paid(r) => Paid(r)'
           /\ req[r].pc = "over" => req'[r] = req[r]
<1>1. ASSUME NEW s \in Requests, NEW b \in Bodies, Receive(s, b)
      PROVE  req'[r] = req[r]
  BY <1>1 DEF Receive, At, Typed
<1>2. ASSUME NEW s \in Requests, Step(s) \/ Raises(s) \/ ClientLeaves(s)
      PROVE  \/ req'[r] = req[r]
             \/ /\ req'[r].body = req[r].body
                /\ Paid(r) => Paid(r)'
                /\ req[r].pc # "over"
  BY <1>2, StepServesOne DEF Paid, Over
<1>3. ASSUME NEW W \in Workers, Crash(W)
      PROVE  \/ req'[r] = req[r]
             \/ /\ req'[r].body = req[r].body
                /\ Paid(r) => Paid(r)'
                /\ req[r].pc # "over"
  BY <1>3 DEF Crash, Typed, Locals, Paid, Over
<1>4. CASE UNCHANGED req
  BY <1>4 DEF Paid
<1>5. CASE req'[r] = req[r]
  BY <1>5 DEF Paid
<1> QED
  BY <1>1, <1>2, <1>3, <1>4, <1>5, StepKinds

(* A request that is not idle has a body that was sent.                    *)
LEMMA BodyFollows ==
    ASSUME Typed, [Next]_vars, NEW r \in Requests, req'[r].pc # "idle"
    PROVE  req'[r].body \in Bodies
<1>1. CASE req[r].pc # "idle"
  BY <1>1, PaidStays DEF Typed
<1>2. CASE req[r].pc = "idle"
  <2>1. ASSUME NEW s \in Requests, NEW b \in Bodies, Receive(s, b)
        PROVE  req'[r] = req[r] \/ req'[r].body = b
    BY <2>1 DEF Receive, Typed, Locals
  <2>2. ASSUME NEW s \in Requests, Step(s) \/ Raises(s) \/ ClientLeaves(s)
        PROVE  req'[r] = req[r]
    BY <1>2, <2>2, StepServesOne DEF Over
  <2>3. ASSUME NEW W \in Workers, Crash(W) PROVE req'[r] = req[r]
    BY <1>2, <2>3 DEF Crash, Over
  <2> QED
    BY <1>2, <2>1, <2>2, <2>3, StepKinds
<1> QED
  BY <1>1, <1>2

LEMMA OwnHitStays ==
    ASSUME Typed, [Next]_vars, NEW r \in Requests, OwnHit(r),
           req'[r].hit = req[r].hit, req'[r].body = req[r].body
    PROVE  OwnHit(r)'
<1>1. PICK h \in Requests : h = req[r].hit.from
  BY DEF OwnHit
<1>2. Paid(h) /\ req[h].pc # "idle" /\ tenant(h) = tenant(r)
  BY <1>1 DEF OwnHit, Paid
<1>3. Paid(h)' /\ req'[h].body = req[h].body
  BY <1>2, PaidStays
<1>4. h = req'[r].hit.from
  BY <1>1
<1> QED
  BY <1>2, <1>3, <1>4 DEF OwnHit, Paid, tenant, key

(* A request that does not move stays in order: what its answer came from  *)
(* stays as it was.                                                        *)
LEMMA QuietStays ==
    ASSUME Typed, [Next]_vars, NEW r \in Requests, req'[r] = req[r],
           InOrder(r), HitInOrder(r), RowInOrder(r)
    PROVE  InOrder(r)' /\ HitInOrder(r)' /\ RowInOrder(r)'
<1>1. InOrder(r)'
  BY DEF InOrder, Recognizes, key
<1>2. OwnHit(r) => OwnHit(r)'
  BY OwnHitStays
<1>3. HitInOrder(r)'
  BY <1>2 DEF HitInOrder
<1>4. RowInOrder(r)'
  BY <1>2 DEF RowInOrder, RefusedUnlogged
<1> QED
  BY <1>1, <1>3, <1>4

(* A request that ends without a row is in order, unless it is answered.   *)
LEMMA EndsInOrder ==
    ASSUME Typed, NEW r \in Requests, InOrder(r), req[r].pc \notin Over,
           NEW status \in {"refused", "server_error", "gone"},
           status = "refused" => req[r].charged = 0 /\ req[r].body.model \notin Known,
           req'[r] = [req[r] EXCEPT !.pc = "over", !.reply = status]
    PROVE  InOrder(r)' /\ HitInOrder(r)' /\ RowInOrder(r)'
<1>1. /\ req'[r].pc = "over" /\ req'[r].reply = status /\ req'[r].rows = <<>>
      /\ req'[r].slot = req[r].slot /\ req'[r].body = req[r].body
      /\ req'[r].charged = req[r].charged
  BY DEF Typed, Locals, InOrder, Over
<1>2. InOrder(r)'
  BY <1>1 DEF InOrder, Recognizes, key, Accepted, Admitted
<1> QED
  BY <1>1, <1>2 DEF HitInOrder, RowInOrder, RefusedUnlogged

(* A step between two places before the charge.                            *)
LEMMA MovesInOrder ==
    ASSUME Typed, [Next]_vars, NEW r \in Requests, InOrder(r),
           req[r].pc \notin {"idle", "over", "store", "log_ok"},
           NEW to \in Places \ {"idle", "over", "store", "log_ok"}, Goto(r, to),
           to \in Accepted => Recognizes(r),
           to \in {"replay", "log_hit"} => OwnHit(r)
    PROVE  InOrder(r)' /\ HitInOrder(r)' /\ RowInOrder(r)'
<1>1. req'[r] = [req[r] EXCEPT !.pc = to]
  BY DEF Goto, Typed
<1>2. /\ req'[r].pc = to /\ req'[r].reply = req[r].reply /\ req'[r].rows = req[r].rows
      /\ req'[r].slot = req[r].slot /\ req'[r].body = req[r].body
      /\ req'[r].hit = req[r].hit /\ req'[r].charged = req[r].charged
  BY <1>1 DEF Typed, Locals
<1>3. InOrder(r)'
  BY <1>2 DEF InOrder, Recognizes, key
<1>4. HitInOrder(r)'
  BY <1>2, OwnHitStays DEF HitInOrder
<1> QED
  BY <1>2, <1>3, <1>4 DEF RowInOrder

(* A request that ends with its row is in order if the row is.             *)
LEMMA LogsInOrder ==
    ASSUME Typed, [Next]_vars, NEW r \in Requests, InOrder(r),
           req[r].pc \notin Over, NEW row \in Rows, NEW status \in Statuses,
           LogAndReply(r, row, status),
           row.cost = req[r].charged,
           row.status = "rejected" => req[r].charged = 0,
           status = "answered" =>
               /\ row.status = "ok"
               /\ IF row.hit THEN req[r].charged = 0 /\ OwnHit(r)
                             ELSE req[r].charged = req[r].cost
    PROVE  InOrder(r)' /\ HitInOrder(r)' /\ RowInOrder(r)'
<1>1. req' = [req EXCEPT ![r].pc = "over", ![r].reply = status, ![r].rows = <<row>>]
  BY LogEnds DEF Over
<1>2. req'[r] = [req[r] EXCEPT !.pc = "over", !.reply = status, !.rows = <<row>>]
  BY <1>1 DEF Typed, Locals
<1>3. /\ req'[r].pc = "over" /\ req'[r].reply = status /\ req'[r].rows = <<row>>
      /\ req'[r].slot = req[r].slot /\ req'[r].body = req[r].body
      /\ req'[r].hit = req[r].hit /\ req'[r].charged = req[r].charged
      /\ req'[r].cost = req[r].cost
  BY <1>2 DEF Typed, Locals
<1>4. InOrder(r)'
  BY <1>3 DEF InOrder, Recognizes, key, Accepted, Admitted
<1>5. OwnHit(r) => OwnHit(r)'
  BY <1>3, OwnHitStays
<1>6. <<row>> # <<>> /\ <<row>>[1] = row
  OBVIOUS
<1>7. RowInOrder(r)'
  BY <1>3, <1>5, <1>6 DEF RowInOrder
<1> QED
  BY <1>3, <1>4, <1>7 DEF HitInOrder

(* The request that a step serves stays in order, action by action.        *)
LEMMA ServedInOrder ==
    ASSUME IInv, [Next]_vars, NEW r \in Requests,
           Step(r) \/ Raises(r) \/ ClientLeaves(r)
    PROVE  InOrder(r)' /\ HitInOrder(r)' /\ RowInOrder(r)'
<1> DEFINE Good == InOrder(r)' /\ HitInOrder(r)' /\ RowInOrder(r)'
<1>0. /\ Typed /\ InOrder(r) /\ HitInOrder(r) /\ RowInOrder(r)
      /\ req[r] \in Locals /\ req[r].cost \in 0..MaxCost /\ 0 \in 0..MaxCost
  BY CostAssumption DEF IInv, Typed, Locals, CostAssumption
<1>1. /\ {"rate", "log_reject", "budget", "resolve", "lookup", "log_hit", "upstream", "charge",
          "replay", "stream", "done_sent", "error_sent", "log_error"}
            \subseteq Places \ {"idle", "over", "store", "log_ok"}
      /\ {"rate", "budget", "resolve", "lookup", "log_hit", "upstream", "charge", "replay",
          "stream", "done_sent", "error_sent", "log_error", "store", "log_ok"}
            \subseteq Accepted
      /\ "log_reject" \notin Accepted
      /\ "refused" \in Statuses /\ "answered" \in Statuses /\ "upstream_error" \in Statuses
  BY DEF Places, Over, Storing, Accepted, Admitted, Statuses
<1>2. ASSUME Authenticate(r) PROVE Good
  BY <1>0, <1>1, <1>2, MovesInOrder DEF Authenticate, Move, At
<1>3. ASSUME RateGrant(r) PROVE Good
  <2>1. /\ req'[r].pc = "budget" /\ req'[r].reply = req[r].reply
        /\ req'[r].rows = req[r].rows /\ req'[r].body = req[r].body
        /\ req'[r].charged = req[r].charged /\ Recognizes(r) /\ req[r].pc = "rate"
    BY <1>0, <1>1, <1>3 DEF RateGrant, At, InOrder, Typed, Locals
  <2> QED
    BY <1>0, <2>1 DEF InOrder, Recognizes, key, HitInOrder, RowInOrder
<1>4. ASSUME \/ RateReject(r) \/ BudgetCheck(r) \/ UpstreamFails(r)
             \/ StreamEnds(r) \/ ResumeAfterError(r)
      PROVE  Good
  <2>1. PICK to \in {"log_reject", "resolve", "log_error", "done_sent", "error_sent"} :
            /\ Goto(r, to)
            /\ req[r].pc \in {"rate", "budget", "upstream", "stream", "error_sent"}
    BY <1>4 DEF RateReject, BudgetCheck, UpstreamFails, StreamEnds, ResumeAfterError, Move, At
  <2>2. Recognizes(r)
    BY <1>0, <1>1, <2>1 DEF InOrder
  <2> QED
    BY <1>0, <1>1, <2>1, <2>2, MovesInOrder
<1>5. ASSUME LogReject(r) PROVE Good
  <2>1. Row("rejected", 0, FALSE) \in Rows /\ Row("rejected", 0, FALSE).cost = 0
    BY <1>0 DEF Row, Rows
  <2>2. req[r].pc = "log_reject" /\ req[r].charged = 0
    BY <1>0, <1>5 DEF LogReject, At, InOrder
  <2> QED
    BY <1>0, <1>1, <1>5, <2>1, <2>2, LogsInOrder DEF LogReject, Over
<1>6. ASSUME Resolve(r) PROVE Good
  <2>1. req[r].pc = "resolve" /\ Recognizes(r) /\ req[r].charged = 0
    BY <1>0, <1>1, <1>6 DEF Resolve, At, InOrder
  <2>2. CASE req[r].body.model \in Known
    <3>1. Goto(r, "lookup")
      BY <1>6, <2>2 DEF Resolve
    <3> QED
      BY <1>0, <1>1, <2>1, <3>1, MovesInOrder
  <2>3. CASE req[r].body.model \notin Known
    <3>1. Reply(r, "refused")
      BY <1>6, <2>3 DEF Resolve
    <3> QED
      BY <1>0, <2>1, <2>3, <3>1, EndsInOrder DEF Reply, Over, Typed, Locals
  <2> QED
    BY <2>2, <2>3
<1>7. ASSUME Lookup(r) PROVE Good
  <2>1. req[r].pc = "lookup" /\ Recognizes(r)
    BY <1>0, <1>1, <1>7 DEF Lookup, At, InOrder
  <2>2. req[r].body.stream \in BOOLEAN
    BY <1>0, <2>1, BodiesAssumption DEF Typed, BodiesAssumption
  <2>3. CASE Goto(r, AfterLookup(r, FALSE))
    <3>1. AfterLookup(r, FALSE) \in {"stream", "upstream"}
      BY <2>2 DEF AfterLookup
    <3> QED
      BY <1>0, <1>1, <2>1, <2>3, <3>1, MovesInOrder
  <2>4. ASSUME NEW e \in Similar(r),
               req' = [req EXCEPT ![r].hit = e, ![r].pc = AfterLookup(r, TRUE)]
        PROVE  Good
    <3>1. AfterLookup(r, TRUE) \in {"replay", "log_hit"}
      BY <2>2 DEF AfterLookup
    <3>2. req'[r] = [req[r] EXCEPT !.hit = e, !.pc = AfterLookup(r, TRUE)]
      BY <1>0, <2>4 DEF Typed
    <3>3. /\ req'[r].pc = AfterLookup(r, TRUE) /\ req'[r].reply = req[r].reply
          /\ req'[r].rows = req[r].rows /\ req'[r].slot = req[r].slot
          /\ req'[r].body = req[r].body /\ req'[r].hit = e
          /\ req'[r].charged = req[r].charged
      BY <1>0, <3>2 DEF Locals
    <3>4. InOrder(r)'
      BY <1>0, <2>1, <3>1, <3>3 DEF InOrder, Recognizes, key
    <3>5. e.from \in Requests /\ Paid(e.from) /\ tenant(e.from) = tenant(r)
      BY <1>0, <2>4 DEF IInv, EntriesArePaid, Similar, Typed, Entries
    <3>6. PICK h \in Requests : h = e.from
      BY <3>5
    <3>7. Paid(h)' /\ req'[h].body = req[h].body
      BY <1>0, <3>5, <3>6, PaidStays DEF Paid
    <3>8. OwnHit(r)'
      BY <3>3, <3>5, <3>6, <3>7 DEF OwnHit, Paid, tenant, key
    <3> QED
      BY <3>1, <3>3, <3>4, <3>8 DEF HitInOrder, RowInOrder
  <2> QED
    BY <1>7, <2>3, <2>4 DEF Lookup
<1>8. ASSUME LogHit(r) PROVE Good
  <2>1. Row("ok", 0, TRUE) \in Rows /\ Row("ok", 0, TRUE).cost = 0
        /\ Row("ok", 0, TRUE).status = "ok" /\ Row("ok", 0, TRUE).hit = TRUE
    BY <1>0 DEF Row, Rows
  <2>2. req[r].pc = "log_hit" /\ req[r].charged = 0 /\ OwnHit(r)
    BY <1>0, <1>8 DEF LogHit, At, InOrder, HitInOrder
  <2> QED
    BY <1>0, <1>1, <1>8, <2>1, <2>2, LogsInOrder DEF LogHit, HitCost, Over
<1>9. ASSUME ReplayEnds(r) PROVE Good
  <2>1. req[r].pc = "replay" /\ Recognizes(r) /\ OwnHit(r)
    BY <1>0, <1>1, <1>9 DEF ReplayEnds, Move, At, InOrder, HitInOrder
  <2> QED
    BY <1>0, <1>1, <1>9, <2>1, MovesInOrder DEF ReplayEnds, Move
<1>10. ASSUME NEW c \in 0..MaxCost, UpstreamReturns(r, c) \/ ResumeAfterDone(r, c)
       PROVE  Good
  <2>1. req[r].pc \in {"upstream", "done_sent"} /\ Recognizes(r)
    BY <1>0, <1>1, <1>10 DEF UpstreamReturns, ResumeAfterDone, At, InOrder
  <2>2. /\ req'[r].pc = "charge" /\ req'[r].reply = req[r].reply
        /\ req'[r].rows = req[r].rows /\ req'[r].slot = req[r].slot
        /\ req'[r].body = req[r].body /\ req'[r].charged = req[r].charged
    BY <1>0, <1>10 DEF UpstreamReturns, ResumeAfterDone, Priced, Typed, Locals
  <2> QED
    BY <1>0, <2>1, <2>2 DEF InOrder, Recognizes, key, HitInOrder, RowInOrder
<1>11. ASSUME LogError(r) PROVE Good
  <2>1. Row("error", 0, FALSE) \in Rows /\ Row("error", 0, FALSE).cost = 0
        /\ Row("error", 0, FALSE).status = "error"
    BY <1>0 DEF Row, Rows
  <2>2. req[r].pc = "log_error" /\ req[r].charged = 0
    BY <1>0, <1>11 DEF LogError, At, InOrder
  <2> QED
    BY <1>0, <1>1, <1>11, <2>1, <2>2, LogsInOrder DEF LogError, Over
<1>12. ASSUME Charge(r) PROVE Good
  <2>1. req[r].pc = "charge" /\ Recognizes(r)
    BY <1>0, <1>1, <1>12 DEF Charge, At, InOrder
  <2>2. /\ req'[r].pc = "store" /\ req'[r].reply = req[r].reply
        /\ req'[r].rows = req[r].rows /\ req'[r].slot = req[r].slot
        /\ req'[r].body = req[r].body /\ req'[r].charged = req[r].cost
        /\ req'[r].cost = req[r].cost
    BY <1>0, <1>12 DEF Charge, Typed, Locals
  <2> QED
    BY <1>0, <2>1, <2>2 DEF InOrder, Recognizes, key, HitInOrder, RowInOrder
<1>13. ASSUME Store(r) PROVE Good
  <2>1. req[r].pc = "store" /\ Recognizes(r) /\ req[r].charged = req[r].cost
    BY <1>0, <1>1, <1>13 DEF Store, At, InOrder
  <2>2. /\ req'[r].pc = "log_ok" /\ req'[r].reply = req[r].reply
        /\ req'[r].rows = req[r].rows /\ req'[r].slot = req[r].slot
        /\ req'[r].body = req[r].body /\ req'[r].charged = req[r].charged
        /\ req'[r].cost = req[r].cost
    BY <1>0, <1>13 DEF Store, Goto, Typed, Locals
  <2> QED
    BY <1>0, <2>1, <2>2 DEF InOrder, Recognizes, key, HitInOrder, RowInOrder
<1>14. ASSUME LogOk(r) PROVE Good
  <2> DEFINE row == Row("ok", req[r].cost, FALSE)
  <2>1. row \in Rows /\ row.cost = req[r].cost /\ row.status = "ok" /\ row.hit = FALSE
    BY <1>0 DEF Row, Rows
  <2>2. req[r].pc = "log_ok" /\ req[r].charged = req[r].cost /\ LogAndReply(r, row, "answered")
    BY <1>0, <1>14 DEF LogOk, At, InOrder
  <2> HIDE DEF row
  <2> QED
    BY <1>0, <1>1, <2>1, <2>2, LogsInOrder DEF Over
<1>15. ASSUME Raises(r) \/ ClientLeaves(r) PROVE Good
  <2>1. PICK status \in {"server_error", "gone"} : Reply(r, status)
    BY <1>15 DEF Raises, ClientLeaves
  <2>2. req[r].pc \notin Over
    BY <1>15 DEF Raises, ClientLeaves, Storing, Over
  <2>3. req'[r] = [req[r] EXCEPT !.pc = "over", !.reply = status]
    BY <1>0, <2>1 DEF Reply, Typed
  <2> QED
    BY <1>0, <2>2, <2>3, EndsInOrder
<1> QED
  BY <1>2, <1>3, <1>4, <1>5, <1>6, <1>7, <1>8, <1>9, <1>10, <1>11, <1>12, <1>13, <1>14, <1>15
     DEF Step

(* Every request stays in order, whether it moves or not.                  *)
LEMMA InOrderStep ==
    ASSUME IInv, [Next]_vars, NEW r \in Requests
    PROVE  InOrder(r)' /\ HitInOrder(r)' /\ RowInOrder(r)'
<1> DEFINE Good == InOrder(r)' /\ HitInOrder(r)' /\ RowInOrder(r)'
<1>0. Typed /\ InOrder(r) /\ HitInOrder(r) /\ RowInOrder(r)
  BY DEF IInv
<1>1. CASE req'[r] = req[r]
  BY <1>0, <1>1, QuietStays
<1>2. ASSUME NEW s \in Requests, NEW b \in Bodies, Receive(s, b) PROVE Good
  <2>1. CASE r # s
    <3>1. req'[r] = req[r]
      BY <1>0, <1>2, <2>1 DEF Receive, Typed
    <3> QED
      BY <1>1, <3>1
  <2>2. CASE r = s
    <3>1. /\ req[r].pc = "idle" /\ ~req[r].slot /\ req[r].charged = 0
          /\ req[r].rows = <<>> /\ req[r].reply = "none"
      BY <1>0, <1>2, <2>2 DEF Receive, At, InOrder
    <3>2. /\ \/ req'[r].pc = "authenticate" /\ req'[r].reply = "none"
             \/ req'[r].pc = "over" /\ req'[r].reply = "refused"
          /\ req'[r].rows = <<>> /\ req'[r].slot = req[r].slot /\ req'[r].charged = 0
      BY <1>0, <1>2, <2>2, <3>1 DEF Receive, Typed, Locals
    <3>3. req'[r].pc = "over" => req'[r].body = b /\ ~b.valid
      BY <1>0, <1>2, <2>2, <3>1 DEF Receive, Typed, Locals
    <3>4. "authenticate" \notin Accepted /\ "over" \notin Accepted
      BY DEF Accepted, Admitted
    <3> QED
      BY <3>1, <3>2, <3>3, <3>4 DEF InOrder, HitInOrder, RowInOrder, RefusedUnlogged
  <2> QED
    BY <2>1, <2>2
<1>3. ASSUME NEW s \in Requests, Step(s) \/ Raises(s) \/ ClientLeaves(s) PROVE Good
  <2>1. CASE r # s
    <3>1. req'[r] = req[r]
      BY <1>0, <1>3, <2>1, StepServesOne
    <3> QED
      BY <1>1, <3>1
  <2>2. CASE r = s
    BY <1>3, <2>2, ServedInOrder
  <2> QED
    BY <2>1, <2>2
<1>4. ASSUME NEW W \in Workers, Crash(W) PROVE Good
  <2>1. \/ req'[r] = req[r]
        \/ req[r].pc \notin Over /\ req'[r] = [req[r] EXCEPT !.pc = "over", !.reply = "gone"]
    BY <1>4 DEF Crash
  <2> QED
    BY <1>0, <1>1, <2>1, EndsInOrder
<1>5. CASE UNCHANGED req
  BY <1>1, <1>5
<1> QED
  BY <1>2, <1>3, <1>4, <1>5, StepKinds

(* An entry is added only for a request that has just been charged, and    *)
(* what it is from does not change.                                        *)
LEMMA EntriesStep ==
    ASSUME IInv, [Next]_vars
    PROVE  entries' \subseteq Entries /\ EntriesArePaid'
<1>0. Typed /\ EntriesArePaid
  BY DEF IInv
<1>1. ASSUME NEW e \in entries
      PROVE  e \in Entries /\ Paid(e.from)' /\ e.tenant = TenantOf[req'[e.from].body.key]
  <2>1. PICK h \in Requests : h = e.from
    BY <1>0 DEF Typed, Entries
  <2>2. Paid(h) /\ e.tenant = tenant(h) /\ req[h].pc # "idle"
    BY <1>0, <2>1 DEF EntriesArePaid, Paid
  <2>3. Paid(h)' /\ req'[h].body = req[h].body
    BY <1>0, <2>2, PaidStays
  <2> QED
    BY <1>0, <2>1, <2>2, <2>3 DEF Typed, Paid, tenant, key
<1>2. CASE entries' \subseteq entries
  BY <1>1, <1>2 DEF EntriesArePaid, Paid, tenant, key
<1>3. ASSUME NEW r \in Requests, Store(r), HasText(r)
      PROVE  entries' \subseteq Entries /\ EntriesArePaid'
  <2>1. /\ req[r].pc = "store" /\ Recognizes(r) /\ req[r].charged = req[r].cost
        /\ req[r].body \in Bodies
    BY <1>0, <1>3 DEF Store, At, IInv, InOrder, Accepted, Typed
  <2>2. PICK f \in Entries :
            f = [tenant |-> tenant(r), prompt |-> req[r].body.prompt, from |-> r]
    BY <1>3, <2>1, BodiesAssumption
       DEF BodiesAssumption, Entries, HasText, Recognizes, tenant, key
  <2>3. /\ req'[r].pc = "log_ok" /\ req'[r].body = req[r].body
        /\ req'[r].charged = req[r].charged /\ req'[r].cost = req[r].cost
    BY <1>0, <1>3 DEF Store, Goto, Typed, Locals
  <2>4. Paid(f.from)' /\ f.tenant = TenantOf[req'[f.from].body.key]
    BY <2>1, <2>2, <2>3 DEF Paid, tenant, key
  <2>5. entries' = entries \cup {f}
    BY <1>3, <2>2 DEF Store
  <2>6. ASSUME NEW e \in entries'
        PROVE  e \in Entries /\ Paid(e.from)' /\ e.tenant = TenantOf[req'[e.from].body.key]
    <3>1. CASE e \in entries
      BY <1>1, <3>1
    <3>2. CASE e = f
      BY <2>2, <2>4, <3>2 DEF Paid
    <3> QED
      BY <2>5, <3>1, <3>2
  <2> QED
    BY <2>6 DEF EntriesArePaid, Paid, tenant, key
<1>4. ASSUME NEW r \in Requests, NEW b \in Bodies, Receive(r, b)
      PROVE  entries' = entries
  BY <1>4 DEF Receive
<1>5. ASSUME NEW r \in Requests, Step(r) \/ Raises(r) \/ ClientLeaves(r),
             ~(Store(r) /\ HasText(r))
      PROVE  entries' = entries
  BY <1>5 DEF Step, Authenticate, RateGrant, RateReject, BudgetCheck, LogReject, Resolve,
              Lookup, LogHit, ReplayEnds, UpstreamReturns, UpstreamFails, StreamEnds,
              ResumeAfterDone, ResumeAfterError, LogError, Charge, Store, LogOk, Raises,
              ClientLeaves, Move, LogAndReply, Priced
<1>6. ASSUME NEW W \in Workers, Crash(W) PROVE entries' = entries
  BY <1>6 DEF Crash
<1>7. Typed => entries \subseteq Entries
  BY DEF Typed
<1> QED
  BY <1>0, <1>2, <1>3, <1>4, <1>5, <1>6, <1>7, StepKinds

----------------------------------------------------------------------------
(* The open requests of a key                                              *)

OpenRequests(k) == {r \in Requests : req[r].pc \in Admitted /\ key(r) = k}

(* Their count is a natural number, and a request that is not open leaves  *)
(* room for itself.                                                        *)
LEMMA OpenIsBounded ==
    ASSUME NEW k \in Keys
    PROVE  /\ Open[k] = Cardinality(OpenRequests(k))
           /\ IsFiniteSet(OpenRequests(k))
           /\ Cardinality(Requests) \in Nat
           /\ Open[k] \in 0..Cardinality(Requests)
           /\ \A r \in Requests : r \notin OpenRequests(k) => Open[k] < Cardinality(Requests)
<1>1. Open[k] = Cardinality(OpenRequests(k))
  BY DEF Open, OpenRequests
<1>2. IsFiniteSet(Requests) /\ OpenRequests(k) \in SUBSET Requests
  BY RequestsAssumption DEF RequestsAssumption, OpenRequests
<1>3. /\ IsFiniteSet(OpenRequests(k))
      /\ Cardinality(OpenRequests(k)) <= Cardinality(Requests)
      /\ Cardinality(OpenRequests(k)) = Cardinality(Requests) => Requests = OpenRequests(k)
  BY <1>2, FS_Subset
<1>4. Cardinality(OpenRequests(k)) \in Nat /\ Cardinality(Requests) \in Nat
  BY <1>2, <1>3, FS_CardinalityType
<1> QED
  BY <1>1, <1>3, <1>4

LEMMA OpenType == Open \in [Keys -> 0..Cardinality(Requests)]
BY OpenIsBounded DEF Open

(* The tables of the ledger keep their types.                              *)
LEMMA LedgerTypeStep ==
    ASSUME IInv, [Next]_vars
    PROVE  L!TypeOK'
<1>0. /\ now \in Windows /\ used \in [Keys -> [Windows -> Nat]]
      /\ spent \in [Keys -> Nat] /\ period \in [Keys -> Months]
      /\ MonthOf[now] \in Months
  BY ClockFacts DEF IInv, Typed, L!TypeOK
<1> DEFINE Kept == /\ now' \in Windows /\ used' \in [Keys -> [Windows -> Nat]]
                   /\ spent' \in [Keys -> Nat] /\ period' \in [Keys -> Months]
<1>1. ASSUME UNCHANGED ledger PROVE Kept
  BY <1>0, <1>1 DEF ledger
<1>2. ASSUME Tick PROVE Kept
  BY <1>0, <1>2, ClockFacts DEF Tick
<1>3. ASSUME NEW r \in Requests, RateGrant(r) PROVE Kept
  <2>1. key(r) \in Keys
    BY <1>3 DEF RateGrant, At, IInv, InOrder, Accepted, Recognizes
  <2>2. PICK w \in Windows : used' = [used EXCEPT ![key(r)][w] = @ + 1]
    BY <1>3 DEF RateGrant, TakeSlot
  <2>3. UNCHANGED <<now, spent, period>>
    BY <1>3 DEF RateGrant, TakeSlot
  <2> QED
    BY <1>0, <2>1, <2>2, <2>3
<1>4. ASSUME NEW r \in Requests, BudgetCheck(r) PROVE Kept
  BY <1>0, <1>4 DEF BudgetCheck, SpendChecked
<1>5. ASSUME NEW r \in Requests, Charge(r) PROVE Kept
  <2>1. req[r].cost \in Nat /\ key(r) \in Keys
    BY <1>5, CostAssumption DEF CostAssumption, IInv, Typed, Locals, Charge, At,
                                InOrder, Accepted, Admitted, Recognizes
  <2> QED
    BY <1>0, <1>5, <2>1 DEF Charge
<1>6. Kept
  BY <1>1, <1>2, <1>3, <1>4, <1>5
     DEF Next, Step, vars, ledger, Receive, Authenticate, RateReject, LogReject, Resolve,
         Lookup, LogHit, ReplayEnds, UpstreamReturns, UpstreamFails, StreamEnds,
         ResumeAfterDone, ResumeAfterError, LogError, Store, LogOk, Raises, ClientLeaves,
         Crash, Expire, Move, LogAndReply, Priced
<1>7. (Open \in [Keys -> 0..Cardinality(Requests)])'
  BY OpenType, PTL
<1> QED
  BY <1>6, <1>7, ClockFacts DEF L!TypeOK

(* All of the inductive invariant holds at the start and is kept.          *)
THEOREM Invariance == Spec => []IInv
<1>1. Init => IInv
  <2> SUFFICES ASSUME Init PROVE IInv
    OBVIOUS
  <2>1. L!TypeOK
    BY ClockFacts, OpenType DEF Init, L!TypeOK
  <2>2. NewRequest \in Locals
    BY CostAssumption
       DEF CostAssumption, NewRequest, Locals, Places, Over, Statuses
  <2>3. \A r \in Requests : req[r] = NewRequest
    BY DEF Init
  <2>4. Typed
    BY <2>1, <2>2, <2>3 DEF Init, Typed, NewRequest
  <2>5. \A r \in Requests : InOrder(r) /\ HitInOrder(r) /\ RowInOrder(r)
    BY <2>3 DEF InOrder, HitInOrder, RowInOrder, NewRequest, Accepted, Admitted
  <2> QED
    BY <2>4, <2>5 DEF IInv, EntriesArePaid, Init
<1>2. IInv /\ [Next]_vars => IInv'
  <2> SUFFICES ASSUME IInv, [Next]_vars PROVE IInv'
    OBVIOUS
  <2>1. \A r \in Requests : InOrder(r)' /\ HitInOrder(r)' /\ RowInOrder(r)'
    BY InOrderStep
  <2>2. req' \in [Requests -> Locals]
    BY LocalsStep DEF IInv
  <2>3. ASSUME NEW r \in Requests, req'[r].pc # "idle" PROVE req'[r].body \in Bodies
    BY <2>3, BodyFollows DEF IInv
  <2> QED
    BY <2>1, <2>2, <2>3, EntriesStep, LedgerTypeStep DEF IInv, Typed
<1> QED
  BY <1>1, <1>2, PTL DEF Spec

(* Every variable keeps its type: a hit comes from a request, an entry     *)
(* belongs to the tenant whose request it is from, and no more requests    *)
(* are open than the gateway serves.                                       *)
THEOREM TypeCorrect == Spec => []TypeOK
<1>1. IInv => TypeOK
  <2> SUFFICES ASSUME IInv PROVE TypeOK
    OBVIOUS
  <2>1. ASSUME NEW r \in Requests
        PROVE  /\ req[r].pc \in Places
               /\ req[r].pc # "idle" => req[r].body \in Bodies
               /\ req[r].cost \in 0..MaxCost /\ req[r].charged \in 0..MaxCost
               /\ req[r].hit # NoEntry => req[r].hit.from \in Requests
               /\ req[r].reply \in Statuses
               /\ req[r].slot \in BOOLEAN
    BY DEF IInv, Typed, Locals, Entries
  <2>2. \A e \in entries : e.tenant = tenant(e.from) /\ e.prompt \in Prompts
    BY DEF IInv, Typed, EntriesArePaid, Entries
  <2> QED
    BY <2>1, <2>2 DEF TypeOK, IInv, Typed
<1> QED
  BY <1>1, Invariance, PTL

(* The rows of a request are none or one.                                  *)
LEMMA RowsAreFew ==
    ASSUME IInv, NEW r \in Requests
    PROVE  /\ Len(req[r].rows) = IF req[r].rows = <<>> THEN 0 ELSE 1
           /\ \A i \in DOMAIN req[r].rows : i = 1 /\ req[r].rows # <<>> /\ req[r].pc = "over"
<1>1. req[r].rows = <<>> \/ \E w \in Rows : req[r].rows = <<w>>
  BY DEF IInv, Typed, Locals
<1>2. ASSUME req[r].rows # <<>> PROVE req[r].pc = "over"
  BY <1>2 DEF IInv, InOrder
<1>3. ASSUME req[r].rows = <<>>
      PROVE  Len(req[r].rows) = 0 /\ DOMAIN req[r].rows = {}
  BY <1>3
<1>4. ASSUME NEW w \in Rows, req[r].rows = <<w>>
      PROVE  Len(req[r].rows) = 1 /\ req[r].rows # <<>> /\ DOMAIN req[r].rows = {1}
  BY <1>4
<1>5. CASE req[r].rows = <<>>
  BY <1>3, <1>5
<1>6. CASE \E w \in Rows : req[r].rows = <<w>>
  <2> PICK w \in Rows : req[r].rows = <<w>>
    BY <1>6
  <2>1. Len(req[r].rows) = 1 /\ req[r].rows # <<>> /\ DOMAIN req[r].rows = {1}
    BY <1>4
  <2> QED
    BY <2>1, <1>2
<1> QED
  BY <1>1, <1>5, <1>6

(* Through every error, lost client and crash no request leaves more than  *)
(* one row in request_logs, and on every path that runs to its end, two    *)
(* kinds of refusals apart, it leaves one.                                 *)
THEOREM OneRowIsLogged == Spec => []OneRow
<1>1. IInv => OneRow
  <2> SUFFICES ASSUME IInv, NEW r \in Requests
               PROVE  /\ Len(req[r].rows) <= 1
                      /\ At(r, "over") /\ req[r].rows = <<>>
                           => req[r].reply \in {"server_error", "gone"} \/ RefusedUnlogged(r)
    BY DEF OneRow
  <2>1. Len(req[r].rows) <= 1
    BY RowsAreFew
  <2> QED
    BY <2>1 DEF IInv, RowInOrder, At
<1> QED
  BY <1>1, Invariance, PTL

(* The cost in a log row is the cost that the budget was charged.          *)
THEOREM LoggedCostWasCharged == Spec => []LoggedCostIsCharged
<1>1. IInv => LoggedCostIsCharged
  <2> SUFFICES ASSUME IInv, NEW r \in Requests, NEW i \in DOMAIN req[r].rows
               PROVE  req[r].rows[i].cost = req[r].charged
    BY DEF LoggedCostIsCharged
  <2>1. i = 1 /\ req[r].rows # <<>> /\ req[r].pc = "over"
    BY RowsAreFew
  <2> QED
    BY <2>1 DEF IInv, RowInOrder
<1> QED
  BY <1>1, Invariance, PTL

(* A request that is turned away costs its key nothing, and takes no slot  *)
(* unless its model was one of the key's.                                  *)
THEOREM RejectionsAreFree == Spec => []RejectionCostsNothing
<1>1. IInv => RejectionCostsNothing
  <2> SUFFICES ASSUME IInv, NEW r \in Requests, NEW i \in DOMAIN req[r].rows,
                      req[r].rows[i].status = "rejected"
               PROVE  /\ req[r].charged = 0
                      /\ req[r].slot => req[r].body.model \in Allowed[key(r)]
    BY DEF RejectionCostsNothing
  <2>1. i = 1 /\ req[r].rows # <<>> /\ req[r].pc = "over"
    BY RowsAreFew
  <2>2. req[r].charged = 0
    BY <2>1 DEF IInv, RowInOrder
  <2> QED
    BY <2>2 DEF IInv, InOrder, Recognizes
<1> QED
  BY <1>1, Invariance, PTL

(* Tenants stay apart and answers are paid for: an answer was charged to   *)
(* the key that asked, or is one that the same tenant had been charged for *)
(* already, for any number of tenants, keys and requests.                  *)
THEOREM AnswersAreAccounted == Spec => []AnswerIsAccounted
<1>1. IInv => AnswerIsAccounted
  <2> SUFFICES ASSUME IInv, NEW r \in Requests, req[r].reply = "answered"
               PROVE  /\ Len(req[r].rows) = 1 /\ req[r].rows[1].status = "ok"
                      /\ IF req[r].rows[1].hit
                           THEN /\ req[r].charged = 0
                                /\ tenant(req[r].hit.from) = tenant(r)
                                /\ req[req[r].hit.from].charged = req[req[r].hit.from].cost
                           ELSE req[r].charged = req[r].cost
    BY DEF AnswerIsAccounted
  <2>1. req[r].pc = "over"
    BY DEF IInv, InOrder
  <2>2. /\ req[r].rows # <<>> /\ req[r].rows[1].status = "ok"
        /\ IF req[r].rows[1].hit THEN req[r].charged = 0 /\ OwnHit(r)
                                 ELSE req[r].charged = req[r].cost
    BY <2>1 DEF IInv, RowInOrder
  <2>3. Len(req[r].rows) = 1
    BY <2>2, RowsAreFew
  <2> QED
    BY <2>2, <2>3 DEF OwnHit, Paid
<1> QED
  BY <1>1, Invariance, PTL

----------------------------------------------------------------------------
(* The refinement of module Ledger                                         *)

(* No month is stored that has not begun.                                  *)
PeriodIsPast == \A k \in Keys : period[k] <= MonthOf[now]

LEMMA PeriodStep == IInv /\ PeriodIsPast /\ [Next]_vars => PeriodIsPast'
<1> SUFFICES ASSUME IInv, PeriodIsPast, [Next]_vars PROVE PeriodIsPast'
  OBVIOUS
<1>0. /\ now \in Windows /\ period \in [Keys -> Months]
      /\ \A k \in Keys : period[k] \in Nat
      /\ MonthOf[now] \in Nat
  BY ClockFacts DEF IInv, Typed, L!TypeOK, Months
<1>1. CASE Tick
  <2>1. now < MaxNow /\ now' = now + 1 /\ period' = period
    BY <1>1 DEF Tick
  <2>2. MonthOf[now] <= MonthOf[now'] /\ MonthOf[now'] \in Nat
    BY <1>0, <2>1, ClockFacts
  <2> QED
    BY <1>0, <2>1, <2>2 DEF PeriodIsPast
<1>2. ASSUME NEW r \in Requests, BudgetCheck(r) PROVE PeriodIsPast'
  BY <1>0, <1>2 DEF BudgetCheck, PeriodIsPast
<1>3. CASE UNCHANGED <<now, period>>
  BY <1>3 DEF PeriodIsPast
<1> QED
  BY <1>1, <1>2, <1>3
     DEF Next, Step, vars, ledger, Receive, Authenticate, RateGrant, TakeSlot, RateReject,
         LogReject, Resolve, Lookup, LogHit, ReplayEnds, UpstreamReturns, UpstreamFails,
         StreamEnds, ResumeAfterDone, ResumeAfterError, LogError, Charge, Store, LogOk,
         Raises, ClientLeaves, Crash, Expire, Move, LogAndReply, Priced

LEMMA PeriodsArePast == Spec => []PeriodIsPast
<1>1. Init => PeriodIsPast
  <2>1. MonthOf[0] \in Nat
    BY ClockFacts
  <2>2. MonthOf[0] <= MonthOf[0]
    BY <2>1
  <2>3. Init => \A k \in Keys : period[k] = MonthOf[0] /\ MonthOf[now] = MonthOf[0]
    BY DEF Init
  <2> QED
    BY <2>2, <2>3 DEF PeriodIsPast
<1> QED
  BY <1>1, PeriodStep, Invariance, PTL DEF Spec

(* A step that opens no request is no step of the ledger, or it is one in  *)
(* which requests are abandoned.                                           *)
LEMMA Shrinks ==
    ASSUME UNCHANGED ledger,
           \A k \in Keys : OpenRequests(k)' \subseteq OpenRequests(k)
    PROVE  [L!Next]_(L!vars)
<1>1. ASSUME NEW k \in Keys
      PROVE  Open'[k] \in 0..Cardinality(Requests) /\ Open'[k] <= Open[k]
  <2>1. IsFiniteSet(OpenRequests(k)) /\ Open[k] = Cardinality(OpenRequests(k))
    BY OpenIsBounded
  <2>2. OpenRequests(k)' \in SUBSET OpenRequests(k)
    OBVIOUS
  <2>3. /\ IsFiniteSet(OpenRequests(k)')
        /\ Cardinality(OpenRequests(k)') <= Cardinality(OpenRequests(k))
    BY <2>1, <2>2, FS_Subset
  <2>4. Open'[k] = Cardinality(OpenRequests(k)')
    BY DEF Open, OpenRequests
  <2>5. Open[k] \in 0..Cardinality(Requests) /\ Cardinality(Requests) \in Nat
    BY OpenIsBounded
  <2>6. Cardinality(OpenRequests(k)') \in Nat
    BY <2>3, FS_CardinalityType
  <2> QED
    BY <2>1, <2>3, <2>4, <2>5, <2>6
<1>2. Open' \in [Keys -> 0..Cardinality(Requests)]
  BY <1>1 DEF Open
<1>3. CASE Open' = Open
  BY <1>3 DEF L!vars, ledger
<1>4. CASE Open' # Open
  BY <1>1, <1>2, <1>4 DEF L!Next, L!Abandon, ledger
<1> QED
  BY <1>3, <1>4

LEMMA OpenStays ==
    ASSUME \A k \in Keys : OpenRequests(k)' = OpenRequests(k)
    PROVE  Open' = Open
BY DEF Open, OpenRequests

(* One request enters the set of one key.                                  *)
LEMMA OpenGrows ==
    ASSUME NEW k \in Keys, NEW r \in Requests, r \notin OpenRequests(k),
           OpenRequests(k)' = OpenRequests(k) \cup {r},
           \A j \in Keys \ {k} : OpenRequests(j)' = OpenRequests(j)
    PROVE  Open' = [Open EXCEPT ![k] = @ + 1]
<1>1. Cardinality(OpenRequests(k)') = Cardinality(OpenRequests(k)) + 1
  BY OpenIsBounded, FS_AddElement
<1>2. Open'[k] = Open[k] + 1
  BY <1>1 DEF Open, OpenRequests
<1>3. \A j \in Keys \ {k} : Open'[j] = Open[j]
  BY DEF Open, OpenRequests
<1> QED
  BY <1>2, <1>3 DEF Open

(* One request leaves the set of its key.                                  *)
LEMMA OpenFalls ==
    ASSUME NEW k \in Keys, NEW r \in Requests, r \in OpenRequests(k),
           OpenRequests(k)' = OpenRequests(k) \ {r},
           \A j \in Keys \ {k} : OpenRequests(j)' = OpenRequests(j)
    PROVE  Open[k] > 0 /\ Open' = [Open EXCEPT ![k] = @ - 1]
<1>1. /\ Cardinality(OpenRequests(k)') = Cardinality(OpenRequests(k)) - 1
      /\ IsFiniteSet(OpenRequests(k)')
  BY OpenIsBounded, FS_RemoveElement
<1>2. Open'[k] = Open[k] - 1 /\ Open'[k] \in Nat /\ Open[k] \in Nat
  BY <1>1, OpenIsBounded, FS_CardinalityType DEF Open, OpenRequests
<1>3. \A j \in Keys \ {k} : Open'[j] = Open[j]
  BY DEF Open, OpenRequests
<1>4. Open' = [Open EXCEPT ![k] = @ - 1]
  BY <1>2, <1>3 DEF Open
<1>5. Open[k] > 0
  BY <1>2
<1> QED
  BY <1>4, <1>5

(* Of the steps of the handler only the budget check opens a request, and  *)
(* only the three transactions touch the ledger.                           *)
LEMMA QuietSteps ==
    ASSUME IInv, NEW r \in Requests, Step(r) \/ Raises(r) \/ ClientLeaves(r),
           ~RateGrant(r), ~BudgetCheck(r), ~Charge(r)
    PROVE  /\ UNCHANGED ledger
           /\ req'[r].pc \in Admitted => req[r].pc \in Admitted
<1> DEFINE Quiet == /\ UNCHANGED ledger
                    /\ req'[r].pc \in Admitted => req[r].pc \in Admitted
<1>0. req \in [Requests -> Locals]
  BY DEF IInv, Typed
<1>1. ASSUME NEW s, NEW t, Move(r, s, t), t \in Admitted => s \in Admitted PROVE Quiet
  BY <1>0, <1>1 DEF Move, At, Goto, Locals
<1>2. ASSUME \/ Authenticate(r) \/ RateReject(r) \/ ReplayEnds(r) \/ UpstreamFails(r)
             \/ StreamEnds(r) \/ ResumeAfterError(r)
      PROVE  Quiet
  <2>1. /\ "rate" \notin Admitted /\ "log_reject" \notin Admitted /\ "replay" \in Admitted
        /\ "upstream" \in Admitted /\ "stream" \in Admitted /\ "error_sent" \in Admitted
    BY DEF Admitted
  <2> HIDE DEF Quiet
  <2> QED
    BY <1>1, <1>2, <2>1 DEF Authenticate, RateReject, ReplayEnds, UpstreamFails, StreamEnds,
                            ResumeAfterError
<1>3. ASSUME NEW row, NEW status, LogAndReply(r, row, status) PROVE Quiet
  BY <1>0, <1>3 DEF LogAndReply, Locals, Admitted
<1>4. ASSUME LogReject(r) \/ LogHit(r) \/ LogError(r) \/ LogOk(r) PROVE Quiet
  BY <1>3, <1>4 DEF LogReject, LogHit, LogError, LogOk
<1>5. ASSUME Resolve(r) \/ Raises(r) \/ ClientLeaves(r) PROVE Quiet
  BY <1>0, <1>5 DEF Resolve, Raises, ClientLeaves, Reply, Goto, At, Admitted, Locals
<1>6. ASSUME Lookup(r) PROVE Quiet
  BY <1>0, <1>6 DEF Lookup, At, Goto, Locals, Admitted
<1>7. ASSUME NEW c \in 0..MaxCost, UpstreamReturns(r, c) \/ ResumeAfterDone(r, c) PROVE Quiet
  BY <1>0, <1>7 DEF UpstreamReturns, ResumeAfterDone, Priced, At, Locals, Admitted
<1>8. ASSUME Store(r) PROVE Quiet
  BY <1>0, <1>8 DEF Store, Goto, Locals, Admitted
<1> QED
  BY <1>2, <1>4, <1>5, <1>6, <1>7, <1>8 DEF Step

(* A step of one request leaves the other requests of every key as open as *)
(* they were.                                                              *)
LEMMA OthersStay ==
    ASSUME IInv, NEW r \in Requests, Step(r) \/ Raises(r) \/ ClientLeaves(r),
           NEW k \in Keys
    PROVE  \A s \in Requests : s # r => (s \in OpenRequests(k)' <=> s \in OpenRequests(k))
BY StepServesOne DEF OpenRequests, key, IInv

(* Every step of the handler is a step of the ledger or leaves it alone: a *)
(* request is open from its budget check to its charge or to the reply     *)
(* that it gets without one.                                               *)
LEMMA StepImplementsLedger == IInv /\ PeriodIsPast /\ [Next]_vars => [L!Next]_(L!vars)
<1> SUFFICES ASSUME IInv, PeriodIsPast, [Next]_vars PROVE [L!Next]_(L!vars)
  OBVIOUS
<1>0. /\ now \in Windows /\ MonthOf[now] \in Months
      /\ req \in [Requests -> Locals]
      /\ "budget" \notin Admitted /\ "rate" \notin Admitted /\ "charge" \in Admitted
      /\ "resolve" \in Admitted /\ "log_reject" \notin Admitted /\ "store" \notin Admitted
      /\ L!Windows = Windows /\ L!Months = Months
  BY ClockFacts DEF IInv, Typed, L!TypeOK, Admitted
<1>1. CASE Tick
  <2>1. Open' = Open
    BY <1>1 DEF Tick, Open, key
  <2> QED
    BY <1>1, <2>1 DEF Tick, L!Next, L!Tick
<1>2. ASSUME NEW r \in Requests, NEW b \in Bodies, Receive(r, b)
      PROVE  [L!Next]_(L!vars)
  <2>1. \A k \in Keys : OpenRequests(k)' \subseteq OpenRequests(k)
    BY <1>0, <1>2 DEF Receive, OpenRequests, key, Locals, Admitted
  <2> QED
    BY <1>2, <2>1, Shrinks DEF Receive
<1>3. ASSUME NEW r \in Requests, RateGrant(r) PROVE [L!Next]_(L!vars)
  <2>1. key(r) \in Keys
    BY <1>3 DEF RateGrant, At, IInv, InOrder, Accepted, Recognizes
  <2>2. \A k \in Keys : OpenRequests(k)' = OpenRequests(k)
    BY <1>0, <1>3 DEF RateGrant, At, OpenRequests, key, Locals
  <2>3. Open' = Open
    BY <2>2, OpenStays
  <2>4. PICK w \in {now - 1, now} \cap Windows :
           /\ used[key(r)][w] < RpmLimit[key(r)]
           /\ used' = [used EXCEPT ![key(r)][w] = @ + 1]
           /\ UNCHANGED <<now, spent, period>>
    BY <1>3 DEF RateGrant, TakeSlot
  <2>5. L!TakeSlot(key(r), w)
    BY <2>3, <2>4 DEF L!TakeSlot, L!HasRoom
  <2> QED
    BY <1>0, <2>1, <2>4, <2>5 DEF L!Next
<1>4. ASSUME NEW r \in Requests, BudgetCheck(r) PROVE [L!Next]_(L!vars)
  <2>1. PICK k \in Keys : k = key(r) /\ r \notin OpenRequests(k)
    BY <1>0, <1>4 DEF BudgetCheck, At, IInv, InOrder, Accepted, Recognizes, OpenRequests
  <2>2. MonthOf[now] \in L!Dates(k)
    BY <1>0, ClockFacts DEF L!Dates, PeriodIsPast
  <2>3. Open[k] < Cardinality(Requests)
    BY <2>1, OpenIsBounded
  <2>4. \A j \in Keys : \A s \in Requests :
           s # r => (s \in OpenRequests(j)' <=> s \in OpenRequests(j))
    BY <1>4, OthersStay DEF Step
  <2>5. req'[r].body = req[r].body
    BY <1>4, StepServesOne DEF Step, IInv
  <2>6. OpenRequests(k) \subseteq Requests
    BY DEF OpenRequests
  <2>7. CASE SpendChecked(k) < Budget[k]
    <3>1. req'[r].pc \in Admitted
      BY <1>0, <1>4, <2>1, <2>7 DEF BudgetCheck, Goto, Locals
    <3>2. /\ OpenRequests(k)' = OpenRequests(k) \cup {r}
          /\ \A j \in Keys \ {k} : OpenRequests(j)' = OpenRequests(j)
      BY <2>1, <2>4, <2>5, <3>1 DEF OpenRequests, key
    <3>3. Open' = [Open EXCEPT ![k] = @ + 1]
      BY <2>1, <3>2, OpenGrows
    <3>4. L!CheckBudget(k, MonthOf[now])
      BY <1>4, <2>1, <2>2, <2>3, <2>7, <3>3
         DEF BudgetCheck, SpendChecked, L!CheckBudget, L!Affords
    <3> QED
      BY <1>0, <3>4 DEF L!Next
  <2>8. CASE ~(SpendChecked(k) < Budget[k])
    <3>1. req'[r].pc \notin Admitted /\ req[r].pc \notin Admitted
      BY <1>0, <1>4, <2>1, <2>8 DEF BudgetCheck, At, Goto, Locals
    <3>2. \A j \in Keys : OpenRequests(j)' = OpenRequests(j)
      BY <2>4, <3>1 DEF OpenRequests
    <3>3. Open' = Open
      BY <3>2, OpenStays
    <3>4. L!CheckBudget(k, MonthOf[now])
      BY <1>4, <2>1, <2>2, <2>3, <2>8, <3>3
         DEF BudgetCheck, SpendChecked, L!CheckBudget, L!Affords, Open
    <3> QED
      BY <1>0, <3>4 DEF L!Next
  <2> QED
    BY <2>7, <2>8
<1>5. ASSUME NEW r \in Requests, Charge(r) PROVE [L!Next]_(L!vars)
  <2>1. PICK k \in Keys : k = key(r) /\ r \in OpenRequests(k)
    BY <1>0, <1>5 DEF Charge, At, IInv, InOrder, Accepted, Recognizes, OpenRequests
  <2>2. req[r].cost \in 0..MaxCost
    BY <1>0 DEF Locals
  <2>3. req'[r].pc \notin Admitted /\ \A s \in Requests : s # r => req'[s] = req[s]
    BY <1>0, <1>5 DEF Charge, Locals
  <2>4. /\ OpenRequests(k)' = OpenRequests(k) \ {r}
        /\ \A j \in Keys \ {k} : OpenRequests(j)' = OpenRequests(j)
    BY <2>1, <2>3 DEF OpenRequests, key
  <2>5. Open[k] > 0 /\ Open' = [Open EXCEPT ![k] = @ - 1]
    BY <2>1, <2>4, OpenFalls
  <2>6. L!Settle(k, req[r].cost)
    BY <1>5, <2>1, <2>5 DEF Charge, L!Settle, L!Charged
  <2> QED
    BY <2>2, <2>6 DEF L!Next
<1>6. ASSUME NEW r \in Requests, Step(r) \/ Raises(r) \/ ClientLeaves(r),
             ~RateGrant(r), ~BudgetCheck(r), ~Charge(r)
      PROVE  [L!Next]_(L!vars)
  <2>1. UNCHANGED ledger /\ (req'[r].pc \in Admitted => req[r].pc \in Admitted)
    BY <1>6, QuietSteps
  <2>2. req'[r].body = req[r].body
    BY <1>6, StepServesOne DEF IInv
  <2>3. \A k \in Keys : OpenRequests(k)' \subseteq OpenRequests(k)
    BY <1>6, <2>1, <2>2, OthersStay DEF OpenRequests, key
  <2> QED
    BY <2>1, <2>3, Shrinks
<1>7. ASSUME NEW W \in Workers, Crash(W) PROVE [L!Next]_(L!vars)
  <2>0. ASSUME NEW r \in Requests
        PROVE  req'[r] = req[r] \/ req'[r].pc = "over"
    BY <1>0, <1>7 DEF Crash, Locals
  <2>1. \A k \in Keys : OpenRequests(k)' \subseteq OpenRequests(k)
    BY <2>0 DEF OpenRequests, key, Admitted
  <2> QED
    BY <1>7, <2>1, Shrinks DEF Crash
<1>8. CASE UNCHANGED <<ledger, req>>
  BY <1>8, Shrinks DEF OpenRequests, key
<1> QED
  BY <1>1, <1>2, <1>3, <1>4, <1>5, <1>6, <1>7, <1>8 DEF Next, vars, Expire

(* The handler keeps the order of the ledger's transactions through every  *)
(* error, lost client and crash, for any number of requests: seen from the *)
(* accounting tables it is module Ledger.                                  *)
THEOREM GatewayImplementsLedger == Spec => ImplementsLedger
<1>1. Init => L!Init
  <2> SUFFICES ASSUME Init PROVE Open = [k \in Keys |-> 0]
    BY ClockFacts DEF Init, L!Init
  <2>1. \A k \in Keys : OpenRequests(k) = {}
    BY DEF Init, OpenRequests, NewRequest, Admitted
  <2> QED
    BY <2>1, FS_EmptySet DEF Open, OpenRequests
<1> QED
  BY <1>1, StepImplementsLedger, PeriodsArePast, Invariance, PTL
     DEF Spec, ImplementsLedger, L!Spec

----------------------------------------------------------------------------
(* The spend and the log                                                   *)

(* What each request has added to the spend of a key.                      *)
Charges(k) == [r \in Requests |-> IF req[r].charged > 0 /\ key(r) = k THEN req[r].charged ELSE 0]

(* In its first month the spend of a key is the sum of these charges.      *)
ChargesAddUp == \A k \in Keys : period[k] = MonthOf[0] => spent[k] = SumFunction(Charges(k))

LEMMA ChargesType ==
    ASSUME Typed, NEW k \in Keys
    PROVE  Charges(k) \in [Requests -> Int] /\ SumFunction(Charges(k)) \in Int
<1>1. \A r \in Requests : req[r].charged \in Int
  BY CostAssumption DEF CostAssumption, Typed, Locals
<1>2. Charges(k) \in [Requests -> Int]
  BY <1>1 DEF Charges
<1> QED
  BY <1>2, RequestsAssumption, SumType DEF RequestsAssumption

(* Only a charge changes what a request has been charged.                  *)
LEMMA OnlyChargeCharges ==
    ASSUME IInv, [Next]_vars, NEW r \in Requests, ~Charge(r)
    PROVE  req'[r].charged = req[r].charged
<1>0. DOMAIN req = Requests /\ req[r] \in Locals
  BY DEF IInv, Typed
<1>1. ASSUME NEW s \in Requests, NEW b \in Bodies, Receive(s, b)
      PROVE  req'[r].charged = req[r].charged
  BY <1>0, <1>1 DEF Receive, Locals
<1>2. ASSUME NEW s \in Requests, Step(s) \/ Raises(s) \/ ClientLeaves(s), r # s
      PROVE  req'[r].charged = req[r].charged
  BY <1>2, StepServesOne DEF IInv
<1>3. ASSUME Step(r) \/ Raises(r) \/ ClientLeaves(r)
      PROVE  req'[r].charged = req[r].charged
  <2> DEFINE Kept == req'[r].charged = req[r].charged
  <2>1. ASSUME NEW pc, Goto(r, pc) PROVE Kept
    BY <1>0, <2>1 DEF Goto, Locals
  <2>2. ASSUME NEW status, Reply(r, status) PROVE Kept
    BY <1>0, <2>2 DEF Reply, Locals
  <2>3. ASSUME NEW row, NEW status, LogAndReply(r, row, status) PROVE Kept
    BY <1>0, <2>3 DEF LogAndReply, Locals
  <2>4. ASSUME NEW c, Priced(r, c, "charge") PROVE Kept
    BY <1>0, <2>4 DEF Priced, Locals
  <2>5. ASSUME Lookup(r) PROVE Kept
    BY <1>0, <2>1, <2>5 DEF Lookup, Locals
  <2>6. ASSUME RateGrant(r) PROVE Kept
    BY <1>0, <2>6 DEF RateGrant, Locals
  <2> HIDE DEF Kept
  <2>7. ASSUME \/ Authenticate(r) \/ RateReject(r) \/ BudgetCheck(r) \/ ReplayEnds(r)
               \/ UpstreamFails(r) \/ StreamEnds(r) \/ ResumeAfterError(r) \/ Store(r)
        PROVE  Kept
    BY <2>1, <2>7 DEF Authenticate, RateReject, BudgetCheck, ReplayEnds, UpstreamFails,
                      StreamEnds, ResumeAfterError, Store, Move
  <2>8. ASSUME Resolve(r) \/ Raises(r) \/ ClientLeaves(r) PROVE Kept
    BY <2>1, <2>2, <2>8 DEF Resolve, Raises, ClientLeaves
  <2>9. ASSUME LogReject(r) \/ LogHit(r) \/ LogError(r) \/ LogOk(r) PROVE Kept
    BY <2>3, <2>9 DEF LogReject, LogHit, LogError, LogOk
  <2>10. ASSUME NEW c \in 0..MaxCost, UpstreamReturns(r, c) \/ ResumeAfterDone(r, c)
         PROVE  Kept
    BY <2>4, <2>10 DEF UpstreamReturns, ResumeAfterDone
  <2>11. Kept
    BY <1>3, <2>5, <2>6, <2>7, <2>8, <2>9, <2>10 DEF Step
  <2> QED
    BY <2>11 DEF Kept
<1>4. ASSUME NEW W \in Workers, Crash(W) PROVE req'[r].charged = req[r].charged
  BY <1>0, <1>4 DEF Crash, Locals
<1>5. CASE UNCHANGED req
  BY <1>5
<1> QED
  BY <1>1, <1>2, <1>3, <1>4, <1>5, StepKinds

(* A request whose charge stays is charged to the same key as before.      *)
LEMMA ChargeStays ==
    ASSUME IInv, [Next]_vars, NEW r \in Requests, NEW k \in Keys,
           req'[r].charged = req[r].charged
    PROVE  Charges(k)'[r] = Charges(k)[r]
<1>1. CASE req[r].charged > 0
  <2>1. req[r].pc # "idle"
    <3>1. req[r].pc = "idle" => req[r].charged = 0
      BY DEF IInv, InOrder
    <3> QED
      BY <1>1, <3>1
  <2>2. req'[r].body = req[r].body
    BY <2>1, PaidStays DEF IInv
  <2> QED
    BY <2>2 DEF Charges, key
<1>2. CASE ~(req[r].charged > 0)
  BY <1>2 DEF Charges
<1> QED
  BY <1>1, <1>2

(* No month is before the first one.                                       *)
LEMMA FirstMonth == \A m \in Months : m \in Nat /\ MonthOf[0] \in Nat /\ MonthOf[0] <= m
<1> SUFFICES ASSUME NEW w \in Windows
             PROVE  MonthOf[w] \in Nat /\ MonthOf[0] \in Nat /\ MonthOf[0] <= MonthOf[w]
  BY DEF Months
<1>1. 0 \in Windows /\ 0 <= w
  BY ClockFacts
<1> QED
  BY <1>1, ClockFacts, ClockAssumption DEF ClockAssumption

LEMMA ChargesStep == IInv /\ PeriodIsPast /\ ChargesAddUp /\ [Next]_vars => ChargesAddUp'
<1> SUFFICES ASSUME IInv, PeriodIsPast, ChargesAddUp, [Next]_vars PROVE ChargesAddUp'
  OBVIOUS
<1>0. /\ period \in [Keys -> Months] /\ spent \in [Keys -> Nat] /\ now \in Windows
      /\ req \in [Requests -> Locals]
  BY DEF IInv, Typed, L!TypeOK, L!Months, L!Windows, Months, Windows
<1>1. ASSUME \A r \in Requests : ~Charge(r), NEW k \in Keys
      PROVE  SumFunction(Charges(k)') = SumFunction(Charges(k))
  <2>1. \A r \in Requests : Charges(k)'[r] = Charges(k)[r]
    BY <1>1, OnlyChargeCharges, ChargeStays
  <2>2. Charges(k)' = Charges(k)
    BY <2>1 DEF Charges
  <2> QED
    BY <2>2
<1>2. ASSUME NEW s \in Requests, BudgetCheck(s) PROVE ChargesAddUp'
  <2>1. \A r \in Requests : ~Charge(r)
    <3>1. ASSUME NEW r \in Requests, Charge(r) PROVE FALSE
      <4>1. req[s].pc = "budget" /\ req'[s].pc \in {"resolve", "log_reject"}
        BY <1>0, <1>2 DEF BudgetCheck, At, Goto, Locals
      <4>2. req[r].pc = "charge" /\ req' = [req EXCEPT ![r].charged = req[r].cost,
                                                       ![r].pc = "store"]
        BY <3>1 DEF Charge, At
      <4>3. r # s
        BY <4>1, <4>2
      <4>4. req'[s] = req[s]
        BY <1>0, <4>2, <4>3
      <4> QED
        BY <4>1, <4>4
    <3> QED
      BY <3>1
  <2>2. ASSUME NEW k \in Keys, period'[k] = MonthOf[0]
        PROVE  period[k] = MonthOf[0] /\ spent'[k] = spent[k]
    <3>1. CASE k = key(s)
      <4>1. MonthOf[now] = MonthOf[0]
        BY <1>0, <1>2, <2>2, <3>1 DEF BudgetCheck
      <4>2. period[k] \in Months /\ period[k] <= MonthOf[0]
        BY <1>0, <4>1 DEF PeriodIsPast
      <4>3. period[k] = MonthOf[0]
        <5>1. period[k] \in Nat /\ MonthOf[0] \in Nat /\ MonthOf[0] <= period[k]
          BY <4>2, FirstMonth
        <5> QED
          BY <4>2, <5>1
      <4> QED
        BY <1>0, <1>2, <3>1, <4>1, <4>3 DEF BudgetCheck, SpendChecked
    <3>2. CASE k # key(s)
      BY <1>0, <1>2, <2>2, <3>2 DEF BudgetCheck
    <3> QED
      BY <3>1, <3>2
  <2> QED
    BY <1>1, <2>1, <2>2 DEF ChargesAddUp
<1>3. ASSUME NEW s \in Requests, Charge(s) PROVE ChargesAddUp'
  <2> SUFFICES ASSUME NEW k \in Keys, period'[k] = MonthOf[0]
               PROVE  spent'[k] = SumFunction(Charges(k)')
    BY DEF ChargesAddUp
  <2>1. spent[k] = SumFunction(Charges(k)) /\ SumFunction(Charges(k)) \in Int
    BY <1>3, ChargesType DEF Charge, ChargesAddUp, IInv
  <2>2. /\ req[s].pc = "charge" /\ req[s].charged = 0
        /\ req'[s].charged = req[s].cost /\ req'[s].body = req[s].body
        /\ \A r \in Requests \ {s} : req'[r] = req[r]
        /\ req[s].cost \in Nat /\ key(s) \in Keys
    <3>1. req[s].pc = "charge" /\ req[s] \in Locals
      BY <1>0, <1>3 DEF Charge, At
    <3>2. req[s].charged = 0 /\ key(s) \in Keys
      BY <3>1 DEF IInv, InOrder, Accepted, Admitted, Recognizes
    <3>3. req[s].cost \in Nat
      BY <3>1, CostAssumption DEF CostAssumption, Locals
    <3>4. req' = [req EXCEPT ![s].charged = req[s].cost, ![s].pc = "store"]
      BY <1>3 DEF Charge
    <3>5. /\ req'[s] = [req[s] EXCEPT !.charged = req[s].cost, !.pc = "store"]
          /\ \A r \in Requests \ {s} : req'[r] = req[r]
      BY <1>0, <3>4
    <3>6. req'[s].charged = req[s].cost /\ req'[s].body = req[s].body
      BY <3>1, <3>5 DEF Locals
    <3> QED
      BY <3>1, <3>2, <3>3, <3>5, <3>6
  <2>3. /\ Charges(k) \in [Requests -> Int]
        /\ \A r \in Requests \ {s} : Charges(k)'[r] = Charges(k)[r]
        /\ Charges(k)[s] = 0
        /\ Charges(k)'[s] = IF key(s) = k THEN req[s].cost ELSE 0
    <3>1. Charges(k) \in [Requests -> Int]
      BY ChargesType DEF IInv
    <3> QED
      BY <2>2, <3>1 DEF Charges, key
  <2>4. Charges(k)' \in [Requests -> Int]
    <3>1. Charges(k)' = [r \in Requests |-> Charges(k)'[r]]
      BY DEF Charges
    <3>2. \A r \in Requests : Charges(k)'[r] \in Int
      BY <2>2, <2>3
    <3> QED
      BY <3>1, <3>2
  <2>5. SumFunction(Charges(k)') = SumFunction(Charges(k))
                                     + (Charges(k)'[s] - Charges(k)[s])
    <3>1. IsFiniteSet(Requests)
      BY RequestsAssumption DEF RequestsAssumption
    <3> QED
      BY <2>3, <2>4, <3>1, SumOfOneMore
  <2>6. spent'[k] = IF key(s) = k THEN spent[k] + req[s].cost ELSE spent[k]
    BY <1>0, <1>3, <2>2 DEF Charge
  <2> QED
    BY <2>1, <2>2, <2>3, <2>5, <2>6
<1>4. ASSUME UNCHANGED <<spent, period>>, \A r \in Requests : ~Charge(r) PROVE ChargesAddUp'
  BY <1>1, <1>4 DEF ChargesAddUp
<1>5. \/ \E s \in Requests : BudgetCheck(s) \/ Charge(s)
      \/ UNCHANGED <<spent, period>>
  BY DEF Next, Step, vars, ledger, Tick, Receive, Authenticate, RateGrant, TakeSlot, RateReject,
         LogReject, Resolve, Lookup, LogHit, ReplayEnds, UpstreamReturns, UpstreamFails,
         StreamEnds, ResumeAfterDone, ResumeAfterError, LogError, Store, LogOk, Raises,
         ClientLeaves, Crash, Expire, Move, LogAndReply, Priced
<1> QED
  BY <1>2, <1>3, <1>4, <1>5

(* The invariant of load_test.py, for any number of requests, keys and     *)
(* costs: in its first month a key's spend is the sum of its logged costs, *)
(* when everybody has been served and nothing has failed.                  *)
THEOREM SpendIsLogged == Spec => []SpendIsTheLoggedCost
<1>1. Init => ChargesAddUp
  <2> SUFFICES ASSUME Init, NEW k \in Keys PROVE spent[k] = SumFunction(Charges(k))
    BY DEF ChargesAddUp
  <2>1. \A r \in Requests : Charges(k)[r] = 0
    BY DEF Init, NewRequest, Charges
  <2>2. Charges(k) = [r \in Requests |-> 0]
    BY <2>1 DEF Charges
  <2> QED
    BY <2>2, SumOfZeros, RequestsAssumption DEF RequestsAssumption, Init
<1>2. IInv /\ ChargesAddUp => SpendIsTheLoggedCost
  <2> SUFFICES ASSUME IInv, ChargesAddUp, NoFaults, \A r \in Requests : req[r].pc \in Over,
                      NEW k \in Keys, period[k] = MonthOf[0]
               PROVE  spent[k] = LoggedCost(k)
    BY DEF SpendIsTheLoggedCost
  <2> DEFINE Logged(r) == IF req[r].rows # <<>> /\ key(r) = k THEN req[r].rows[1].cost ELSE 0
  <2>1. ASSUME NEW r \in Requests PROVE Charges(k)[r] = Logged(r)
    <3>1. req[r].charged \in Nat
      BY CostAssumption DEF CostAssumption, IInv, Typed, Locals
    <3>2. req[r].rows # <<>> => req[r].rows[1].cost = req[r].charged
      BY DEF IInv, InOrder, RowInOrder
    <3>3. req[r].rows = <<>> => req[r].charged = 0
      BY DEF IInv, InOrder, RowInOrder, NoFaults, Over
    <3> QED
      BY <3>1, <3>2, <3>3 DEF Charges
  <2>2. Charges(k) = [r \in Requests |-> Logged(r)]
    BY <2>1 DEF Charges
  <2> QED
    BY <2>2 DEF ChargesAddUp, LoggedCost
<1> QED
  BY <1>1, <1>2, ChargesStep, PeriodsArePast, Invariance, PTL DEF Spec

----------------------------------------------------------------------------
(* What module LedgerProofs proves of the ledger therefore holds of the    *)
(* handler.                                                                *)

LP == INSTANCE LedgerProofs WITH open <- Open, Concurrency <- Cardinality(Requests)

(* The assumptions of the ledger hold of its instance.                     *)
LEMMA LedgerAssumptions ==
    /\ Cardinality(Requests) \in Nat \ {0}
    /\ MaxNow \in Nat
    /\ MonthOf \in [LP!Windows -> Nat]
    /\ \A v, w \in LP!Windows : v <= w => MonthOf[v] <= MonthOf[w]
<1>1. LP!Windows = Windows
  BY DEF LP!Windows, Windows
<1>2. Cardinality(Requests) \in Nat \ {0}
  BY RequestsAssumption, FS_CardinalityType, FS_EmptySet DEF RequestsAssumption
<1> QED
  BY <1>1, <1>2, ClockAssumption DEF ClockAssumption

(* The two instances are the same specification.                           *)
LEMMA SameLedger == L!Spec => LP!Spec
<1>1. L!Init => LP!Init
  BY DEF L!Init, LP!Init, L!Windows, LP!Windows
<1>2. [L!Next]_(L!vars) => [LP!Next]_(LP!vars)
  BY DEF L!Next, LP!Next, L!vars, LP!vars, L!Windows, LP!Windows, L!Months, LP!Months,
         L!Tick, LP!Tick, L!TakeSlot, LP!TakeSlot, L!HasRoom, LP!HasRoom,
         L!Dates, LP!Dates, L!CheckBudget, LP!CheckBudget, L!Affords, LP!Affords,
         L!Settle, LP!Settle, L!Charged, LP!Charged, L!Abandon, LP!Abandon
<1> QED
  BY <1>1, <1>2, PTL DEF L!Spec, LP!Spec

(* Whatever is lost or fails on the way, a key gets no more requests per   *)
(* minute than its rpm_limit, and its spend passes its budget by no more   *)
(* than one MaxCost for each request the gateway can serve at once.        *)
THEOREM HandlerKeepsLimits == Spec => [](L!WithinRpm /\ L!OverrunBound)
<1>1. Spec => LP!Spec
  BY GatewayImplementsLedger, SameLedger DEF ImplementsLedger
<1>2. LP!Spec => []LP!WithinRpm
  BY LedgerAssumptions, LimitsAssumption, CostAssumption,
     LP!RpmIsKept, Zenon
     DEF LimitsAssumption, CostAssumption, LP!ConcurrencyAssumption
<1>3. LP!Spec => []LP!OverrunBound
  BY LedgerAssumptions, LimitsAssumption, CostAssumption,
     LP!BudgetOverrunIsBounded, Zenon
     DEF LimitsAssumption, CostAssumption, LP!ConcurrencyAssumption
<1>4. LP!WithinRpm /\ LP!OverrunBound => L!WithinRpm /\ L!OverrunBound
  BY DEF LP!WithinRpm, L!WithinRpm, LP!OverrunBound, L!OverrunBound, L!Windows, LP!Windows
<1> QED
  BY <1>1, <1>2, <1>3, <1>4, PTL

(* The spend of a key goes down only when a later month begins, on every   *)
(* exit of the handler and whatever fails.                                 *)
THEOREM HandlerKeepsTheMonth == Spec => L!SpendFallsOnlyWithMonth
<1>1. Spec => LP!Spec
  BY GatewayImplementsLedger, SameLedger DEF ImplementsLedger
<1>2. LP!Spec => LP!SpendFallsOnlyWithMonth
  BY LedgerAssumptions, LimitsAssumption, CostAssumption,
     LP!SpendIsMonotoneInAMonth, Zenon
     DEF LimitsAssumption, CostAssumption, LP!ConcurrencyAssumption
<1>3. LP!SpendFallsOnlyWithMonth => L!SpendFallsOnlyWithMonth
  BY PTL DEF LP!SpendFallsOnlyWithMonth, L!SpendFallsOnlyWithMonth, LP!vars, L!vars
<1> QED
  BY <1>1, <1>2, <1>3, PTL
=============================================================================
