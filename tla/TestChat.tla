------------------------------ MODULE TestChat ------------------------------
(***************************************************************************)
(* The administrator's test chat (internal/relay/testchat.go): one request *)
(* sent to one channel without the routing engine, the answer passed on,   *)
(* and one is_test row written to request_logs with the price that applied *)
(* when the test began.  Administrators change the catalog meanwhile.      *)
(*                                                                         *)
(* A usage is the four token counts; a stream reports it in parts.  Costs  *)
(* are counted in units of Million tokens times a rate.                    *)
(***************************************************************************)
EXTENDS Catalog, FiniteSetsExt

CONSTANTS
  Usages,     \* token counts the upstream may report in one event or answer
  Statuses,   \* statuses other than 2xx, as an upstream may send them
  Million,    \* the unit of the prices (1_000_000 tokens)
  MaxEvents   \* bound: usage events of one stream

Usage == [prompt : Int, completion : Int, read : Int, write : Int]

ASSUME MillionAssumption == Million \in Nat \ {0}
ASSUME UsageAssumption == Usages \subseteq Usage

VARIABLES
  test,   \* the test under way
  heard,  \* history: the usages the upstream reported in it
  log     \* the is_test rows of request_logs
testVars == <<test, heard, log>>
vars == <<catalogVars, testVars>>

None == [prompt |-> 0, completion |-> 0, read |-> 0, write |-> 0]
NoCost == -1
Free == [input |-> 0, output |-> 0, read |-> 0, write |-> 0]

NoTest == [pc |-> "idle"]

Init == CatalogInit /\ test = NoTest /\ heard = <<>> /\ log = <<>>

(* testLogState, what the client has been sent (0: nothing yet), and, as a *)
(* history, whether the call itself went wrong.                            *)
Attempt(c, m, stream) ==
  [pc |-> "price", ch |-> c, model |-> m, stream |-> stream, rate |-> Free,
   status |-> "success", http |-> 200, sent |-> 0,
   usage |-> None, reported |-> FALSE, text |-> FALSE, note |-> "none",
   broke |-> FALSE]

(* Answered before an upstream was chosen: no row is written. *)
Answered(code) == [pc |-> "done", sent |-> code, attempted |-> FALSE]

(* resolveTestModel: the model asked for, else the only one of the         *)
(* channel, else none.                                                     *)
ResolveTestModel(asked, listed) ==
  IF asked # "" THEN asked
  ELSE IF Len(listed) = 1 THEN listed[1] ELSE ""

(* Lookup: a row with a price that is not positive is no price. *)
Lookup(c, m) ==
  LET found == {p \in Priced(price, c, m) : Positive(price[p].rate)}
  IN IF found = {} THEN Free ELSE price[CHOOSE p \in found : TRUE].rate

(* Mutant: rounds down. *)
CostFloor(rate, u) ==
  (u.prompt * rate.input + u.completion * rate.output
    + u.read * rate.read + u.write * rate.write) \div Million

(* Rounds up: a used token is never free.  A negative sum costs nothing. *)
Cost(rate, u) ==
  LET spent == u.prompt * rate.input + u.completion * rate.output
                 + u.read * rate.read + u.write * rate.write
  IN IF spent <= 0 THEN 0 ELSE (spent + Million - 1) \div Million

(* mergeStreamUsage: a count that is not zero replaces the one before. *)
MergeUsage(u, next) ==
  [k \in DOMAIN u |-> IF next[k] # 0 THEN next[k] ELSE u[k]]

(* upstreamHTTPStatus: anything that is no error status becomes 502. *)
Clamp(code) == IF code \in 400..599 THEN code ELSE 502

(* The outcome is an error with this status, and the client is told so. *)
Failed(t, code) ==
  [t EXCEPT !.pc = "log", !.status = "error", !.http = code, !.sent = code,
            !.broke = TRUE]

-----------------------------------------------------------------------------
(* Parsing, loading the channel, resolving the model: 400, 404 or 500. *)
Ask(c, asked, stream) ==
  /\ test.pc = "idle"
  /\ \/ test' = Answered(400) /\ UNCHANGED faults
     \/ Fault /\ test' = Answered(500)
     \/ c \notin DOMAIN chan /\ test' = Answered(404) /\ UNCHANGED faults
     \/ /\ c \in DOMAIN chan
        /\ LET m == ResolveTestModel(asked, chan[c].models)
           IN test' = IF m = "" THEN Answered(400) ELSE Attempt(c, m, stream)
        /\ UNCHANGED faults
  /\ UNCHANGED <<heard, log>>

PriceGate ==
  /\ test.pc = "price"
  /\ \/ Fault /\ test' = Failed(test, 500)
     \/ /\ test' = [test EXCEPT !.rate = Lookup(test.ch, test.model),
                                !.pc = "call"]
        /\ UNCHANGED faults
  /\ UNCHANGED <<heard, log>>

(* The request is not built (400), not sent, answered by an error status,  *)
(* or not understood (502).                                                *)
CallFails ==
  /\ test.pc = "call"
  /\ \/ \E code \in {400, 502} : test' = Failed(test, code)
     \/ \E code \in Statuses : test' = Failed(test, Clamp(code))
  /\ UNCHANGED <<faults, heard, log>>

Answer(u) ==
  /\ test.pc = "call" /\ ~test.stream
  /\ test' = [test EXCEPT !.usage = u, !.reported = TRUE, !.sent = 200,
                          !.pc = "log"]
  /\ heard' = <<u>>
  /\ UNCHANGED <<faults, log>>

(* Headers are sent: the client has its 200 whatever follows. *)
OpenStream ==
  /\ test.pc = "call" /\ test.stream
  /\ test' = [test EXCEPT !.pc = "pump", !.sent = 200]
  /\ UNCHANGED <<faults, heard, log>>

PumpText ==
  /\ test.pc = "pump"
  /\ test' = [test EXCEPT !.text = TRUE]
  /\ UNCHANGED <<faults, heard, log>>

(* Mutant: the last usage replaces the ones before. *)
PumpUsageReplaced(u) ==
  /\ test.pc = "pump" /\ Len(heard) < MaxEvents
  /\ test' = [test EXCEPT !.usage = u, !.reported = TRUE]
  /\ heard' = Append(heard, u)
  /\ UNCHANGED <<faults, log>>

PumpUsage(u) ==
  /\ test.pc = "pump" /\ Len(heard) < MaxEvents
  /\ test' = [test EXCEPT !.usage = MergeUsage(test.usage, u),
                          !.reported = TRUE]
  /\ heard' = Append(heard, u)
  /\ UNCHANGED <<faults, log>>

(* serveStream after the pump: a stream that reported no usage is counted  *)
(* by its text, and an empty one is marked.                                *)
Settled(t) ==
  [t EXCEPT !.pc = "log",
            !.usage.completion = IF ~t.reported /\ t.text THEN 1 ELSE @,
            !.note = IF ~t.reported /\ ~t.text /\ t.status = "success"
                       THEN "empty" ELSE @]

(* The upstream ends, or the client leaves: neither is an error. *)
PumpEnds ==
  /\ test.pc = "pump"
  /\ test' = Settled(test)
  /\ UNCHANGED <<faults, heard, log>>

(* Mutant: an error event is skipped like a frame that does not parse. *)
PumpFailsSilently ==
  /\ test.pc = "pump"
  /\ test' = [Settled(test) EXCEPT !.broke = TRUE]
  /\ UNCHANGED <<faults, heard, log>>

(* An error event carries a status; a body that breaks leaves the 200. *)
PumpFails ==
  /\ test.pc = "pump"
  /\ \E code \in {Clamp(s) : s \in Statuses} \cup {200} :
       test' = Settled([test EXCEPT !.status = "error", !.http = code,
                                    !.broke = TRUE])
  /\ UNCHANGED <<faults, heard, log>>

(* The row of the test: a cost only when it succeeded and was priced. *)
Row(t) ==
  [ch |-> t.ch, model |-> t.model, status |-> t.status, http |-> t.http,
   usage |-> t.usage, note |-> t.note,
   cost |-> IF t.rate # Free /\ t.status = "success"
              THEN Cost(t.rate, t.usage) ELSE NoCost]

Logged(t, lost) ==
  [pc |-> "done", sent |-> t.sent, attempted |-> TRUE, rate |-> t.rate,
   text |-> t.text, broke |-> t.broke, lost |-> lost]

(* Mutant: only a success is logged. *)
WriteSuccessLog ==
  /\ test.pc = "log"
  /\ test' = Logged(test, FALSE)
  /\ log' = IF test.status = "success" THEN Append(log, Row(test)) ELSE log
  /\ UNCHANGED <<faults, heard>>

(* writeTestLog, deferred to the end of the handler; a failing store only  *)
(* warns.                                                                  *)
WriteTestLog ==
  /\ test.pc = "log"
  /\ \/ log' = Append(log, Row(test)) /\ UNCHANGED faults
     \/ Fault /\ UNCHANGED log
  /\ test' = Logged(test, log' = log)
  /\ UNCHANGED heard

TestStep ==
  \/ \E c \in 1..MaxChannels, asked \in Models \cup {""}, s \in BOOLEAN :
       Ask(c, asked, s)
  \/ PriceGate \/ CallFails \/ OpenStream
  \/ \E u \in Usages : Answer(u) \/ PumpUsage(u)
  \/ PumpText \/ PumpEnds \/ PumpFails
  \/ WriteTestLog

Next ==
  \/ CatalogNext /\ UNCHANGED testVars
  \/ TestStep /\ UNCHANGED <<tables, nextChan, nextPrice, op, wrote, ops>>

Spec == Init /\ [][Next]_vars

-----------------------------------------------------------------------------
(* A model of a channel has at most one price, although Upsert looks for   *)
(* the row in one statement and writes it in another: two administrators   *)
(* may price the same model at once, and a price or its channel may be     *)
(* deleted between the two.                                                *)
OnePrice ==
  \A p, q \in DOMAIN price :
    price[p].ch = price[q].ch /\ price[p].model = price[q].model => p = q

(* What a channel can come to list: the models an administrator gave it,   *)
(* those an upstream lists under an id, and the built-in ones.             *)
Given == UNION {Range(in.models) : in \in {b \in Bodies : "models" \in DOMAIN b}}
Offered == {e.id : e \in UNION {Range(r.entries) : r \in Replies}} \ {""}
Listable == Given \cup Offered \cup Range(Builtin.bedrock) \cup Range(Builtin.anthropic)

(* Every table, every request and the test have values of their kinds,     *)
(* prices are a function of channel and model, and no list, stored or      *)
(* cached, has a model of no origin, as a listing's entry without an id.   *)
TypeOK ==
  /\ OnePrice
  /\ \A c \in DOMAIN chan :
       /\ c \in 1..MaxChannels
       /\ chan[c] \in [type : Types, base : BOOLEAN, region : BOOLEAN,
                      models : Seq(Listable), profile : BOOLEAN]
  /\ \A p \in DOMAIN price :
       /\ p \in 1..MaxPrices
       /\ price[p] \in [ch : 1..MaxChannels, model : Models, rate : Rate]
  /\ \A c \in DOMAIN cache : cache[c] \in Seq(Listable)
  /\ \A a \in Admins :
       op[a].pc \in {"idle", "profile", "save", "list", "persist", "cache",
                     "insert", "update", "done"}
  /\ test.pc \in {"idle", "price", "call", "pump", "log", "done"}
  /\ Len(log) <= 1

(* What the upstream reported of one count: its last value that is not 0.  *)
LastOf(said, k) ==
  LET told == {i \in DOMAIN said : said[i][k] # 0}
  IN IF told = {} THEN 0
     ELSE said[Max(told)][k]

Reported(k) == LastOf(heard, k)

Spent(rate) ==
  LET estimate == IF heard = <<>> /\ test.text THEN 1 ELSE 0
  IN Reported("prompt") * rate.input
       + (Reported("completion") + estimate) * rate.output
       + Reported("read") * rate.read + Reported("write") * rate.write

(* Exactly one row for a test that reached the point of calling upstream,  *)
(* unless the store refused it, and none for any other.                    *)
LoggedOnce ==
  log = <<>> <=> (test.attempted => test.lost)

(* The row calls a failure a failure, and names the status the client was  *)
(* answered with, except for a stream that broke after its 200 was sent.   *)
LoggedAsAnswered(row) ==
  /\ row.status = "error" <=> test.broke
  /\ row.http # test.sent => test.broke /\ test.sent = 200

(* The cost is the least number of units, and no negative one, that covers *)
(* the spending at the price found when the test began; a failed or        *)
(* unpriced test has none.                                                 *)
LoggedAtCost(row) ==
  IF test.broke \/ test.rate = Free
    THEN row.cost = NoCost
    ELSE /\ row.cost >= 0 /\ Spent(test.rate) <= row.cost * Million
         /\ row.cost > 0 => (row.cost - 1) * Million < Spent(test.rate)

(* The row of a finished test tells what happened in it, although the      *)
(* outcome is gathered along every exit of the handler, the usage arrives  *)
(* in parts, and the catalog changes under it.                             *)
TestIsLogged ==
  test.pc = "done" =>
    /\ LoggedOnce
    /\ log # <<>> => LoggedAsAnswered(log[1]) /\ LoggedAtCost(log[1])

=============================================================================
