------------------------------- MODULE Relay -------------------------------
(***************************************************************************)
(* The request lifecycle of internal/relay: admission, routing, failover   *)
(* over the candidate channels, the price gate, the upstream call, and the *)
(* accounting in finish(), for streaming and non-streaming requests.       *)
(*                                                                         *)
(* Requests run concurrently, each in its own goroutine, and read channel  *)
(* status, prices and quota from the database while an administrator edits *)
(* them and while their clients may disconnect.  The two-level quota is a  *)
(* single number here (module Quota has its detail), and a stream is its   *)
(* outcome (module Stream has the pump).                                   *)
(***************************************************************************)
EXTENDS Integers, Sequences, FiniteSets

CONSTANTS
  Requests,
  Channels, Priority,   \* channels serving the model; higher priority first
  MaxRetries,           \* the failover cap of the engine
  Prices,               \* price rows, micro-USD per token; 0 = no usable row
  Est,                  \* estimated prompt tokens of a request
  Reported,             \* prompt tokens an upstream may report, 0 = none
  Budget,               \* quota of the key, Unlimited = -1
  MaxEdits,             \* bound: administrator edits and quota used elsewhere
  MaxStoreErrors,       \* bound: failing database or Redis commands
  MaxCrashes            \* bound: process crashes

Unlimited == -1
Null == -1              \* cost_micro_usd NULL
NoChannel == "none"

ASSUME RelayAssumption ==
  /\ NoChannel \notin Channels
  /\ IsFiniteSet(Channels)
  /\ Priority \in [Channels -> Int]
  /\ MaxRetries \in Nat \ {0}
  /\ Prices \subseteq Nat /\ Reported \subseteq Nat /\ Est \in Nat
  /\ Budget \in Nat \cup {Unlimited}
  /\ MaxEdits \in Nat /\ MaxStoreErrors \in Nat /\ MaxCrashes \in Nat

VARIABLES
  enabled, price,  \* the channels and model_prices tables
  spent,           \* what CheckRemaining sees as used
  stream,          \* does the request ask for a stream? fixed by its body
  at,              \* control point of each request
  order, cursor,   \* its Selection: load-balanced candidates, next to try
  chan, quoted,    \* lastAtt.channel and the price the gate returned
  offered,         \* history: the prices each candidate had at the gate
  asked,           \* history: channels whose upstream was called, in order
  served,          \* history: channel whose answer was relayed
  answer,          \* status the client has been sent, 0 = nothing yet
  outcome,         \* "open", "refused", "success" or "error"
  tokens, cost,    \* what finish() is about to log and bill
  row, rowCost,    \* the request_logs row
  debit,           \* what Consume took for the request
  gone,            \* the client has disconnected
  faults           \* how many of each fault have happened

tables == <<enabled, price>>
selection == <<order, cursor>>
attempt == <<chan, quoted, offered, asked, served>>
result == <<answer, outcome, tokens, cost>>
books == <<row, rowCost, debit, spent>>
vars == <<enabled, price, spent, stream, at, order, cursor, chan, quoted,
          offered, asked, served, answer, outcome, tokens, cost, row, rowCost,
          debit, gone, faults>>

Init ==
  /\ enabled \in [Channels -> BOOLEAN]
  /\ price \in [Channels -> Prices]
  /\ spent = 0
  /\ stream \in [Requests -> BOOLEAN]
  /\ at = [r \in Requests |-> "new"]
  /\ order = [r \in Requests |-> <<>>]
  /\ cursor = [r \in Requests |-> 0]
  /\ chan = [r \in Requests |-> NoChannel]
  /\ quoted = [r \in Requests |-> 0]
  /\ offered = [r \in Requests |-> {}]
  /\ asked = [r \in Requests |-> <<>>]
  /\ served = [r \in Requests |-> NoChannel]
  /\ answer = [r \in Requests |-> 0]
  /\ outcome = [r \in Requests |-> "open"]
  /\ tokens = [r \in Requests |-> 0]
  /\ cost = [r \in Requests |-> Null]
  /\ row = [r \in Requests |-> "none"]
  /\ rowCost = [r \in Requests |-> Null]
  /\ debit = [r \in Requests |-> 0]
  /\ gone = [r \in Requests |-> FALSE]
  /\ faults = [edit |-> 0, store |-> 0, crash |-> 0]

Goto(r, l) == at' = [at EXCEPT ![r] = l]

StoreError ==
  /\ faults.store < MaxStoreErrors
  /\ faults' = [faults EXCEPT !.store = @ + 1]

-----------------------------------------------------------------------------
(* Refusal, and every way to end with an error: the client is answered and *)
(* finish() logs an error row with no cost.                                *)

(* RelayAuth (401, 500), the Quota guard (402, 500), a body that does not  *)
(* parse (400), a model the key may not use (403): no row is logged.       *)
Refuse(r) ==
  /\ at[r] = "new"
  /\ \E code \in {400, 401, 402, 403, 500} : answer' = [answer EXCEPT ![r] = code]
  /\ outcome' = [outcome EXCEPT ![r] = "refused"]
  /\ Goto(r, "done")
  /\ UNCHANGED <<tables, stream, selection, attempt, tokens, cost, books, gone,
                 faults>>

Fail(r, code) ==
  /\ answer' = [answer EXCEPT ![r] = code]
  /\ outcome' = [outcome EXCEPT ![r] = "error"]
  /\ tokens' = [tokens EXCEPT ![r] = Est]
  /\ Goto(r, "log")
  /\ UNCHANGED cost

-----------------------------------------------------------------------------
(* Selection: a snapshot of the enabled channels, ordered by descending    *)
(* priority, at random within one priority.                                *)

Enabled == {c \in Channels : enabled[c]}

Orders(S) ==
  {s \in [1..Cardinality(S) -> S] :
     \A i, j \in DOMAIN s : i < j => s[i] # s[j] /\ Priority[s[i]] >= Priority[s[j]]}

Route(r) ==
  /\ at[r] = "new"
  /\ Enabled # {}
  /\ \E s \in Orders(Enabled) : order' = [order EXCEPT ![r] = s]
  /\ Goto(r, "pick")
  /\ UNCHANGED <<tables, stream, cursor, attempt, result, books, gone, faults>>

(* failNoChannel: no candidate, or the engine could not read its tables. *)
RouteFails(r) ==
  /\ at[r] = "new"
  /\ \/ Enabled = {} /\ UNCHANGED faults
     \/ StoreError
  /\ Fail(r, 502)
  /\ UNCHANGED <<tables, stream, selection, attempt, books, gone>>

(* What a candidate costs is in question from here until it is looked up.  *)
Offer(r, c, p) == offered' = [offered EXCEPT ![r] = @ \cup {<<c, p>>}]

(* Mutant: the cap is off by one. *)
PickOneMore(r) ==
  LET c == order[r][cursor[r] + 1] IN
  /\ at[r] = "pick"
  /\ cursor[r] < Len(order[r]) /\ cursor[r] <= MaxRetries
  /\ cursor' = [cursor EXCEPT ![r] = @ + 1]
  /\ chan' = [chan EXCEPT ![r] = c] /\ Offer(r, c, price[c])
  /\ Goto(r, "price")
  /\ UNCHANGED <<tables, stream, order, quoted, asked, served, result, books,
                 gone, faults>>

(* Mutant: the cursor is not advanced. *)
PickAgain(r) ==
  LET c == order[r][cursor[r] + 1] IN
  /\ at[r] = "pick"
  /\ cursor[r] < Len(order[r]) /\ cursor[r] < MaxRetries
  /\ chan' = [chan EXCEPT ![r] = c] /\ Offer(r, c, price[c])
  /\ Goto(r, "price")
  /\ UNCHANGED <<tables, stream, selection, quoted, asked, served, result,
                 books, gone, faults>>

(* Selection.Next *)
Pick(r) ==
  LET c == order[r][cursor[r] + 1] IN
  /\ at[r] = "pick"
  /\ cursor[r] < Len(order[r]) /\ cursor[r] < MaxRetries
  /\ cursor' = [cursor EXCEPT ![r] = @ + 1]
  /\ chan' = [chan EXCEPT ![r] = c] /\ Offer(r, c, price[c])
  /\ Goto(r, "price")
  /\ UNCHANGED <<tables, stream, order, quoted, asked, served, result, books,
                 gone, faults>>

(* No adapter for the channel's type: the candidate is used up, and is no  *)
(* attempt.                                                                *)
NoAdapter(r) ==
  /\ at[r] = "pick"
  /\ cursor[r] < Len(order[r]) /\ cursor[r] < MaxRetries
  /\ cursor' = [cursor EXCEPT ![r] = @ + 1]
  /\ UNCHANGED <<tables, stream, at, order, attempt, result, books, gone, faults>>

(* failAllCandidates *)
Exhaust(r) ==
  /\ at[r] = "pick"
  /\ cursor[r] >= Len(order[r]) \/ cursor[r] >= MaxRetries
  /\ Fail(r, 502)
  /\ UNCHANGED <<tables, stream, selection, attempt, books, gone, faults>>

-----------------------------------------------------------------------------
(* gateModelPrice: look the price up, then compare the estimate with what  *)
(* is left.  A rejection does not fail over.  CheckRemaining uses the      *)
(* request's context for its Redis commands, so it fails once the client   *)
(* is gone; the price lookup does not.                                     *)

(* Mutant: the price found for one candidate is kept for the next. *)
LookupPriceOnce(r) ==
  /\ at[r] = "price"
  /\ quoted' = IF asked[r] = <<>> THEN [quoted EXCEPT ![r] = price[chan[r]]] ELSE quoted
  /\ Goto(r, "gate")
  /\ UNCHANGED <<tables, stream, selection, chan, offered, asked, served, result,
                 books, gone, faults>>

(* Mutant: a missing price is passed on as -1 instead of free. *)
LookupPriceRaw(r) ==
  /\ at[r] = "price"
  /\ quoted' = [quoted EXCEPT ![r] = IF price[chan[r]] = 0 THEN Null ELSE price[chan[r]]]
  /\ Goto(r, "gate")
  /\ UNCHANGED <<tables, stream, selection, chan, offered, asked, served, result,
                 books, gone, faults>>

LookupPrice(r) ==
  /\ at[r] = "price"
  /\ quoted' = [quoted EXCEPT ![r] = price[chan[r]]]
  /\ Goto(r, "gate")
  /\ UNCHANGED <<tables, stream, selection, chan, offered, asked, served, result,
                 books, gone, faults>>

LookupFails(r) ==
  /\ at[r] = "price" /\ StoreError
  /\ Fail(r, 500)
  /\ UNCHANGED <<tables, stream, selection, attempt, books, gone>>

Remaining == IF Budget = Unlimited THEN Unlimited
             ELSE IF spent >= Budget THEN 0 ELSE Budget - spent

Affordable(r) == Remaining = Unlimited \/ quoted[r] * Est <= Remaining

Admit(r) ==
  /\ at[r] = "gate" /\ ~gone[r]
  /\ Affordable(r)
  /\ Goto(r, "send")
  /\ UNCHANGED <<tables, stream, selection, attempt, result, books, gone,
                 faults>>

(* Mutant: the rejection is not logged. *)
UnaffordableUnlogged(r) ==
  /\ at[r] = "gate" /\ ~gone[r]
  /\ ~Affordable(r)
  /\ answer' = [answer EXCEPT ![r] = 402]
  /\ outcome' = [outcome EXCEPT ![r] = "error"]
  /\ Goto(r, "done")
  /\ UNCHANGED <<tables, stream, selection, attempt, tokens, cost, books, gone,
                 faults>>

Unaffordable(r) ==
  /\ at[r] = "gate" /\ ~gone[r]
  /\ ~Affordable(r)
  /\ Fail(r, 402)
  /\ UNCHANGED <<tables, stream, selection, attempt, books, gone, faults>>

GateFails(r) ==
  /\ at[r] = "gate"
  /\ \/ gone[r] /\ UNCHANGED faults
     \/ StoreError
  /\ Fail(r, 500)
  /\ UNCHANGED <<tables, stream, selection, attempt, books, gone>>

-----------------------------------------------------------------------------
(* The attempt. *)

Send(r) ==
  /\ at[r] = "send" /\ ~gone[r]
  /\ asked' = [asked EXCEPT ![r] = Append(@, chan[r])]
  /\ Goto(r, "await")
  /\ UNCHANGED <<tables, stream, selection, chan, quoted, offered, served, result,
                 books, gone, faults>>

(* BuildRequest fails, or Do refuses the cancelled context: next candidate.*)
NotSent(r) ==
  /\ at[r] = "send"
  /\ Goto(r, "pick")
  /\ UNCHANGED <<tables, stream, selection, attempt, result, books, gone,
                 faults>>

(* A network error, a timeout (non-streaming), a cancelled context, a 429  *)
(* or a 5xx: next candidate.                                               *)
Retryable(r) ==
  /\ at[r] = "await"
  /\ Goto(r, "pick")
  /\ UNCHANGED <<tables, stream, selection, attempt, result, books, gone,
                 faults>>

(* failUpstream: another 4xx is passed on; a status outside 400..599 (a    *)
(* 2xx whose body does not decode) becomes 502.                            *)
Rejected(r) ==
  /\ at[r] = "await"
  /\ \E code \in {404, 502} : Fail(r, code)
  /\ UNCHANGED <<tables, stream, selection, attempt, books, gone, faults>>

(* A complete answer is sent to the client, and billed as reported: the    *)
(* log has the estimate where the upstream reported nothing, the bill not. *)
Respond(r, n) ==
  /\ at[r] = "await" /\ ~stream[r]
  /\ answer' = [answer EXCEPT ![r] = 200]
  /\ outcome' = [outcome EXCEPT ![r] = "success"]
  /\ served' = [served EXCEPT ![r] = chan[r]]
  /\ tokens' = [tokens EXCEPT ![r] = IF n = 0 THEN Est ELSE n]
  /\ cost' = [cost EXCEPT ![r] = quoted[r] * n]
  /\ Goto(r, "log")
  /\ UNCHANGED <<tables, stream, selection, chan, quoted, offered, asked, books, gone,
                 faults>>

(* A 2xx commits the stream's headers; from here nothing fails over.       *)
Connect(r) ==
  /\ at[r] = "await" /\ stream[r]
  /\ answer' = [answer EXCEPT ![r] = 200]
  /\ served' = [served EXCEPT ![r] = chan[r]]
  /\ Goto(r, "pump")
  /\ UNCHANGED <<tables, stream, selection, chan, quoted, offered, asked, outcome,
                 tokens, cost, books, gone, faults>>

(* The pump returned without an error, also when the client left: billed   *)
(* by the logged counts, unless the model has no price.                    *)
StreamEnds(r, n) ==
  LET logged == IF n = 0 THEN Est ELSE n IN
  /\ at[r] = "pump"
  /\ outcome' = [outcome EXCEPT ![r] = "success"]
  /\ tokens' = [tokens EXCEPT ![r] = logged]
  /\ cost' = [cost EXCEPT ![r] = IF quoted[r] = 0 THEN Null ELSE quoted[r] * logged]
  /\ Goto(r, "log")
  /\ UNCHANGED <<tables, stream, selection, attempt, answer, books, gone,
                 faults>>

(* Mutant: a stream that breaks is retried on the next candidate. *)
StreamBreaksOver(r, n) ==
  /\ at[r] = "pump"
  /\ Goto(r, "pick")
  /\ UNCHANGED <<tables, stream, selection, attempt, result, books, gone,
                 faults>>

(* The pump returned an error: logged, not billed; the client saw 200.     *)
StreamBreaks(r, n) ==
  /\ at[r] = "pump"
  /\ outcome' = [outcome EXCEPT ![r] = "error"]
  /\ tokens' = [tokens EXCEPT ![r] = IF n = 0 THEN Est ELSE n]
  /\ Goto(r, "log")
  /\ UNCHANGED <<tables, stream, selection, attempt, answer, cost, books, gone,
                 faults>>

-----------------------------------------------------------------------------
(* finish: write the row (an error is ignored), then debit the cost of a   *)
(* success (an error is ignored) under a context of its own.               *)

AfterRow(r) == IF outcome[r] = "success" /\ cost[r] > 0 THEN "debit" ELSE "done"

WriteLog(r) ==
  /\ at[r] = "log"
  /\ row' = [row EXCEPT ![r] = outcome[r]]
  /\ rowCost' = [rowCost EXCEPT ![r] = cost[r]]
  /\ Goto(r, AfterRow(r))
  /\ UNCHANGED <<tables, stream, selection, attempt, result, debit, spent,
                 gone, faults>>

WriteLogFails(r) ==
  /\ at[r] = "log" /\ StoreError
  /\ Goto(r, AfterRow(r))
  /\ UNCHANGED <<tables, stream, selection, attempt, result, books, gone>>

(* Mutant: the debit is computed again, from the price of the moment. *)
ConsumeAtCurrentPrice(r) ==
  /\ at[r] = "debit"
  /\ debit' = [debit EXCEPT ![r] = price[served[r]] * tokens[r]]
  /\ spent' = spent + price[served[r]] * tokens[r]
  /\ Goto(r, "done")
  /\ UNCHANGED <<tables, stream, selection, attempt, result, row, rowCost,
                 gone, faults>>

Consume(r) ==
  /\ at[r] = "debit"
  /\ debit' = [debit EXCEPT ![r] = cost[r]]
  /\ spent' = spent + cost[r]
  /\ Goto(r, "done")
  /\ UNCHANGED <<tables, stream, selection, attempt, result, row, rowCost,
                 gone, faults>>

ConsumeFails(r) ==
  /\ at[r] = "debit" /\ StoreError
  /\ Goto(r, "done")
  /\ UNCHANGED <<tables, stream, selection, attempt, result, books, gone>>

-----------------------------------------------------------------------------
(* The environment. *)

(* The client disconnects: net/http cancels the request's context.         *)
Leave(r) ==
  /\ at[r] # "done" /\ ~gone[r]
  /\ gone' = [gone EXCEPT ![r] = TRUE]
  /\ UNCHANGED <<tables, stream, at, selection, attempt, result, books, faults>>

(* An administrator enables or disables a channel, or sets or removes a    *)
(* price.                                                                  *)
Edit(c) ==
  /\ faults.edit < MaxEdits
  /\ faults' = [faults EXCEPT !.edit = @ + 1]
  /\ \/ enabled' = [enabled EXCEPT ![c] = ~@] /\ UNCHANGED <<price, offered>>
     \/ \E p \in Prices :
          /\ price' = [price EXCEPT ![c] = p]
          /\ offered' = [r \in Requests |->
                           IF at[r] = "price" /\ chan[r] = c
                           THEN offered[r] \cup {<<c, p>>} ELSE offered[r]]
          /\ UNCHANGED enabled
  /\ UNCHANGED <<stream, at, selection, chan, quoted, asked, served, result, books,
                 gone>>

(* Quota is used or given back elsewhere: other replicas, other keys of    *)
(* the user, a reset.                                                      *)
Elsewhere ==
  /\ faults.edit < MaxEdits
  /\ faults' = [faults EXCEPT !.edit = @ + 1]
  /\ Budget # Unlimited /\ spent' \in {0, Budget}
  /\ UNCHANGED <<tables, stream, at, selection, attempt, result, row, rowCost,
                 debit, gone>>

Crash ==
  /\ faults.crash < MaxCrashes
  /\ faults' = [faults EXCEPT !.crash = @ + 1]
  /\ at' = [r \in Requests |-> IF at[r] \in {"new", "done"} THEN at[r] ELSE "lost"]
  /\ UNCHANGED <<tables, stream, selection, attempt, result, books, gone>>

(* What the relay does by itself, and what is bound to happen to it: a     *)
(* non-streaming call ends by its timeout at the latest, and any call ends *)
(* when the client's departure cancels it.                                 *)
Progress(r) ==
  \/ Route(r) \/ RouteFails(r) \/ Pick(r) \/ NoAdapter(r) \/ Exhaust(r)
  \/ LookupPrice(r) \/ Admit(r) \/ Unaffordable(r) \/ GateFails(r)
  \/ Send(r) \/ NotSent(r)
  \/ (~stream[r] \/ gone[r]) /\ (Retryable(r) \/ \E n \in Reported : StreamBreaks(r, n))
  \/ WriteLog(r) \/ Consume(r)

RequestStep(r) ==
  \/ Refuse(r) \/ Progress(r) \/ LookupFails(r)
  \/ Retryable(r) \/ Rejected(r) \/ Connect(r)
  \/ \E n \in Reported : Respond(r, n) \/ StreamEnds(r, n) \/ StreamBreaks(r, n)
  \/ WriteLogFails(r) \/ ConsumeFails(r) \/ Leave(r)

Next ==
  \/ \E r \in Requests : RequestStep(r)
  \/ \E c \in Channels : Edit(c)
  \/ Elsewhere
  \/ Crash

Spec == Init /\ [][Next]_vars

(* Goroutines run, and upstream calls end as said above.  Upstreams need   *)
(* not answer a stream, and clients need not leave.                        *)
FairSpec == Spec /\ \A r \in Requests : WF_vars(Progress(r))
-----------------------------------------------------------------------------
(* Properties. *)

Codes == {0, 200, 400, 401, 402, 403, 404, 500, 502}

FaultCounts == [edit : Nat, store : Nat, crash : Nat]

(* The types of the variables.                                             *)
TypeOK ==
  /\ enabled \in [Channels -> BOOLEAN]
  /\ price \in [Channels -> Prices]
  /\ spent \in Nat
  /\ stream \in [Requests -> BOOLEAN]
  /\ at \in [Requests -> {"new", "pick", "price", "gate", "send", "await",
                          "pump", "log", "debit", "done", "lost"}]
  /\ order \in [Requests -> Seq(Channels)]
  /\ cursor \in [Requests -> Nat]
  /\ chan \in [Requests -> Channels \cup {NoChannel}]
  /\ quoted \in [Requests -> Nat]
  /\ offered \in [Requests -> SUBSET (Channels \X Prices)]
  /\ asked \in [Requests -> Seq(Channels)]
  /\ served \in [Requests -> Channels \cup {NoChannel}]
  /\ answer \in [Requests -> Codes]
  /\ outcome \in [Requests -> {"open", "refused", "success", "error"}]
  /\ tokens \in [Requests -> Nat]
  /\ cost \in [Requests -> Nat \cup {Null}]
  /\ row \in [Requests -> {"none", "success", "error"}]
  /\ rowCost \in [Requests -> Nat \cup {Null}]
  /\ debit \in [Requests -> Nat]
  /\ gone \in [Requests -> BOOLEAN]
  /\ faults \in FaultCounts

(* Failover: at most MaxRetries upstream calls, none to the same channel   *)
(* twice, never to a channel of higher priority after one of lower, and    *)
(* the last one called is the one whose answer is relayed and logged       *)
(* (Selection.Next and the loops of serveNonStream and serveStream).       *)
FailoverDiscipline ==
  \A r \in Requests :
    /\ Len(asked[r]) <= MaxRetries
    /\ \A i, j \in DOMAIN asked[r] :
         i < j => /\ asked[r][i] # asked[r][j]
                  /\ Priority[asked[r][i]] >= Priority[asked[r][j]]
    /\ served[r] # NoChannel =>
         asked[r] # <<>> /\ served[r] = asked[r][Len(asked[r])] /\ chan[r] = served[r]

(* "Once the upstream stream is open and the headers are flushed no        *)
(* further failover is possible": after the client has been sent a status  *)
(* no other status is sent and no other upstream is called.                *)
AnswerIsFinal ==
  [][\A r \in Requests :
       answer[r] # 0 => answer'[r] = answer[r] /\ asked'[r] = asked[r]]_vars

(* A success is billed at a price its own channel had while the request    *)
(* was at the gate, for the tokens that were reported: neither the price   *)
(* of a candidate that failed before (serveStream keeps it in a variable   *)
(* outside its loop) nor one set after the gate let the request through.   *)
(* A stream is billed by the logged count, and not at all when free.       *)
BilledAtItsPrice ==
  \A r \in Requests : outcome[r] = "success" =>
    \E p \in Prices, n \in Reported :
      LET logged == IF n = 0 THEN Est ELSE n
      IN  /\ <<served[r], p>> \in offered[r]
          /\ tokens[r] = logged
          /\ cost[r] = IF ~stream[r] THEN p * n
                       ELSE IF p = 0 THEN Null ELSE p * logged

(* finish() "is called exactly once per relay request": when a request has *)
(* ended its row says how, unless a store error lost it; its debit is what *)
(* that row cost; and no success is recorded for a client that was sent an *)
(* error, nor an error for one that was sent a complete answer.            *)
BooksAgree ==
  \A r \in Requests :
    /\ at[r] = "done" /\ outcome[r] # "refused" /\ faults.store = 0 =>
         row[r] = outcome[r] /\ debit[r] = (IF rowCost[r] > 0 THEN rowCost[r] ELSE 0)
    /\ row[r] = "success" => answer[r] = 200 /\ served[r] # NoChannel
    /\ row[r] = "error" => answer[r] # 0 /\ (answer[r] = 200 => stream[r])

(* Every request that was admitted ends: a non-streaming one by itself, a  *)
(* stream once its client leaves (defaultUpstreamTimeout, and the request  *)
(* context for streams, which have no timeout).                            *)
AdmittedEnd ==
  \A r \in Requests :
    (at[r] \notin {"new", "done"} /\ (stream[r] => gone[r])) ~> at[r] \in {"done", "lost"}

(* What a request may cost. *)
Costs == {p * n : p \in Prices, n \in Reported \cup {Est}}

(* The relay keeps the promises of module Ledger.                          *)
Books == INSTANCE Ledger WITH cost <- rowCost

ImplementsLedger == Books!LedgerSpec
=============================================================================
