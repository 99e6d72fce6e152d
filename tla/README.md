# A TLA+ verification of hhrouter

hhrouter (`src/`) is an LLM gateway. Clients call it with an API key in the
OpenAI or the Anthropic format; it picks an upstream channel (OpenAI, Anthropic
or AWS Bedrock), converts the request, relays the answer or the stream, logs it,
and debits its price in micro-USD from the quota of the key and of the key's
owner. PostgreSQL holds the tables, Redis holds live usage counters, and several
replicas of the server may share both.

This directory models what makes that correct, model-checks it with TLC on small
instances, and proves with TLAPS, for every instance, the safety properties of all of
it but the conversions and the grammar of conditions.

## 1. Inventory

### Components

| component | state it keeps | operations | interacts with |
|---|---|---|---|
| quota accounting (`service/quota_service.go`, `middleware/quota.go`) | `used_quota` columns, Redis counters with a TTL, an in-memory dirty set per replica | `CheckRemaining`, `Consume`, `ResetUserUsage`, `WriteBack` loop | called by the middleware, the price gate, `finish`, user administration |
| relay lifecycle (`relay/relay.go`, `relay/stream.go`) | one goroutine per request: selection cursor, last attempt, price, answer | admission, routing, failover, price gate, upstream call, `finish` | engine, pricing, quota, adapters, log service |
| streaming pump (`relay/stream.go`) | events channel, error channel, merged usage, fatal error | producer goroutine, `process`, `Stream` loop, terminal framing | adapters, upstream body, client connection |
| routing engine (`router/engine.go`, `service/rule_service.go`) | rules and channels tables, `Selection` | match rules, filter candidates, order them, `Next` | expressions, probe, relay |
| rule expressions (`router/expr`) | none | compile, evaluate | engine |
| routing probe (`router/probe`, `router_probe_ctrl.go`) | three options | predict (mock or HTTP), save settings | engine |
| pricing (`service/pricing_service.go`) | `model_prices` | `Lookup`, `Cost`, `Upsert`, `Delete` | relay gate, `finish` |
| upstream adapters (`adapter/`) | none | convert requests, answers, stream events, usage | relay, pump |
| test chat (`relay/testchat.go`) | one goroutine per request | one attempt on one channel with a pump of its own, no billing | adapters, log service |
| users (`service/user_service.go`) | `users` | register, update, delete, quota operations, password | quota, tokens |
| API keys (`service/token_service.go`, `middleware/relay_auth.go`) | `tokens` | create, update, delete, authenticate | relay, users |
| channels (`service/channel_service.go`) | `channels`, a model-list cache in Redis | create, update, delete, test, fetch models | engine, relay |
| request logs, dashboard | `request_logs` | write a row, aggregate | relay |
| sessions, options, bootstrap, HTTP surface, web console | tokens, options | | |

`PROJECT.json` lists each of them with its status.

### What is hard

* **Three copies of a usage count with no lock around them.** A charge is an
  `INCRBY` per level plus a dirty mark; a flush is a snapshot, a `GET` and an
  `UPDATE`; a seeding is a `SELECT`, a `GET` and a `SETNX`; an edit saves a whole
  row. All of these interleave, on several replicas, with crashes and with Redis
  losing keys.
* **A dozen ways to end a request,** each of which must answer the client once,
  log one row and debit once, with the client leaving, prices and channels being
  edited and stores failing in between.
* **A failover loop with four places to continue from,** which must stop at the
  first byte sent.
* **Two goroutines and two channels per stream.** The last event and the
  terminal error become ready together; the client may leave at any moment.
* **Check-then-act in the administration services** (last administrator, first
  user, price upsert, whole-row saves, a model fetch around an upstream call).
* **A conversation that changes dialect on every turn.** Two client dialects meet
  three upstream dialects, failed attempts lie in between, and each answer becomes
  part of the history that the next upstream reads.
* **A condition language parsed by hand,** with a probe that is asked only when
  some condition seems to need it.

`PROJECT.json` "hazards" has every one at its line, with the property that would
catch it, or the reason why none does yet.

## 2. Plan

Done:

1. `Quota`, `QuotaProofs`: the accounting, its exactness and its durability.
2. `Ledger`, `Relay`, `RelayProofs`: the abstract promise of the books, and the
   request lifecycle that implements it.
3. `Stream`, `StreamProofs`: the pump.
4. `Accounts`, `AccountsProofs`: users, keys and sessions, each transaction's
   reads and commit as separate steps.
5. `Expr`, `ExprProofs`, `Routing`, `RoutingProofs`: the condition language and a
   selection under edits. `SetInduction` has the induction they need.
6. `Catalog`, `TestChat`, `CatalogProofs`: channels, prices and model lists
   statement by statement, composed with an administrator's test request.
7. `Dialects`, `Framing`, `Conversion`: requests, answers and streams between the
   dialects, composed into a conversation.

Left:

* Proofs about the conversions: for any history, that what is built for an upstream
  reads as the conversation that was held. They are recursive over sequences of
  blocks; the lemmas of `SetInduction` should carry them one builder at a time.
* The quota column's edits (`QuotaOp`, whose `add` turns unlimited into limited)
  as actions of `Quota`.
* The binary Bedrock output format and the usage fields of each dialect.
* An abstract usage meter (charge, reset, read) that `Quota` without losses
  implements, besides `Ledger`.

## 3. Modules

### Quota

| variable | code |
|---|---|
| `dbUsed` | `used_quota` of `tokens` and `users` |
| `counter` | `quota:token:used:<id>`, `quota:user:used:<id>`; `NoKey` = `redis.Nil` |
| `redis` | `s.rdb != nil` |
| `dirty` | `dirtyTokens`, `dirtyUsers` of a replica |
| `todo`, `cur`, `val` | the snapshot `WriteBack` works through, the row it is at, the value it read |
| `at`, `use`, `ent`, `seed`, `left`, `cost` | the program counter and locals of a request inside `CheckRemaining` and `Consume` |
| `resetAt`, `editAt`, `editUsed` | `ResetUserUsage` and `TokenService.Update` in progress |
| `charged`, `forgiven`, `dry` | history, read by properties only |

Each store command is one action, because nothing in the code makes two of them
atomic. `ReadRow`, `GetCounter`, `SeedCounter` and `ReadBack` are
`tokenQuotaAndUsed`/`usedCounter`; `ChargeToken`, `ChargeUser` and `MarkDirty`
are `Consume`; `Snapshot`, `FlushGet` and `FlushUpdate` are `WriteBack`, with
`FlushGetFails` and `FlushUpdateFails` for its requeueing; `ZeroRow`,
`ForgetDirty` and `DelKey` are `ResetUserUsage`; `EditRead` and `EditSave` are a
key edit. A request passes the guard of `middleware.Quota`, the gate of one or
more candidates, and then consumes. `RedisLoses` covers TTL expiry (an `INCRBY`
does not renew it) and a restart without data. `Crash` loses a replica's dirty
set and its requests.

### Ledger and Relay

`Ledger` is abstract: a request is refused, or settled once as a success or an
error; it has at most one row, which says how it was settled; only a success
costs anything; it is debited at most once, after its row, by the cost in it.

`Relay` is the life of a request. `at` is the place in `handle`,
`serveNonStream` and `serveStream`:

| `at` | actions out of it | code |
|---|---|---|
| new | `Refuse`, `Route`, `RouteFails` | middleware, `handle`, `SelectChannelCtx` |
| pick | `Pick`, `NoAdapter`, `Exhaust` | `Selection.Next`, `adapter.For`, `failAllCandidates` |
| price, gate | `LookupPrice`, `LookupFails`, `Admit`, `Unaffordable`, `GateFails` | `gateModelPrice` |
| send, await | `Send`, `NotSent`, `Retryable`, `Rejected`, `Respond`, `Connect` | `BuildRequest`, `httpDo`/`streamDo`, `ParseResponse` |
| pump | `StreamEnds`, `StreamBreaks` | the pump's return, `finalizeUsage` |
| log, debit | `WriteLog`, `Consume` and their failures | `finish` |

`Edit`, `Elsewhere`, `Leave` and `Crash` are the environment. The quota is one
number here (`Quota` has the detail) and a stream is its outcome (`Stream` has
the pump). Tokens are prompt tokens; completion and cache tokens follow the same
path into the same bill. `asked`, `served` and `offered` are history: the upstreams
called, the one answered from, and the prices each candidate's channel had while the
request was at its gate.

### Stream

The producer (`upstreamEvents`, `readSSE`, `readEventStream`) and the handler
(`pumpStream`, `pumpAnthropicPassthrough`, which have the same loop) over the
buffered events channel. An event is a kind: text, the usage of a
`message_start` or `message_delta`, one that does not parse, a fatal one. `pump`
says what is written: everything (passthrough), text and usage as OpenAI chunks,
or text inside Anthropic or Bedrock framing. `Framing` has what is in them.

### Accounts

| variable | code |
|---|---|
| `users`, `tokens` | the tables, by primary key; `nextUser`, `nextToken` their sequences |
| `sessions` | the JWTs in circulation, as the claims they carry |
| `req` | what each handler goroutine has read so far, and the statement it comes to next |
| `calm`, `lowered`, `stray`, `first`, `granted` | history, read by properties only |

PostgreSQL runs at read committed, so the transactions of `user_service.go` do not
isolate their reads: `Register` is four steps (count, switch, name, insert), a
deletion up to four (read the target, count the administrators, delete the keys,
delete the user and commit), an update two. Rows an open transaction has deleted
are locked (`Locked`). A key update saves the whole row, and GORM inserts it when
it is gone. A session is checked by its claims only, and a request remembers in whose
name it acts (`by`; a visitor who registers is `Nobody`). `first` has the
registrations that began while there was no account, `granted` the accounts that were
ever given the administrator's role.

Expiry dates are folded into the key's status, and the register switch is read as
either value, since an administrator may set it at any time.

### Expr and Routing

`Expr` is the condition language. A source is a sequence of words; `Compile` is the
recursive descent of `parser`, with its type checks, and yields a node with its type,
the variables it refers to and its value. `Descend` is what one rule makes of the
words from a position, given what the rules it calls make of theirs; `Parse` ties the
knot with a recursive function over rules and positions.

`Routing` is one selection, read by read, and the edits around it:

| action | code |
|---|---|
| `LoadRules` | `enabledRulesByPriority`, compilation, `RenderProbePrompt` |
| `AskMock`, `MockOff`, `AskHTTP`, `NoProbe` | `currentProbe` with its two options, `Predict` of either probe |
| `LoadChannels`, `RouteFails` | `matchRuleExpr`, `candidateChannels` |
| `Draw`, `ReadRetries` | `weightedShuffle` a pick at a time, `maxRetries` |
| `Edit`, `EditFails` | `RuleService` and its validation, the probe's three options, the cap, a channel's status |

A group is its rank, a name a sequence of letters, a turn its length and the width
of its characters. The reference for expressions is `Derivations`, the grammar of the
package comment read as a set of words each rule can produce; that for patterns is
`Glob`. `Columns`, `Channels` and `Turns` say what a row and a request may hold, and
`InputAssumption` that the tables a run starts with, and the bodies it decodes, do,
and that the expressions stored compile, since `RuleService` stores no other.

### Catalog and TestChat

`chan`, `price` and `cache` are the tables and the Redis cache, as partial functions
of the ids that exist. A request (`op`) is a sequence of statements: `Create` and
`WriteProfile`; `ReadForUpdate` and `SaveUpdate`, which writes the row it read;
`Delete` in one transaction; `ReadForFetch`, `List`, `Persist` and `CacheModels`,
with an upstream call between the first two; `TestChannel`; `ReadForPrice`,
`InsertPrice` or `SavePrice`; `DeletePrice`. Any of them may fail. `With` and
`Without` are a table with a row written, and with rows deleted.

`TestChat` extends it with `TestChatController.TestChat`: resolution of the model,
price gate, the call, the pump's events, and the deferred row. The log state is the
record `Attempt`; every exit assigns it as the code does, and `WriteTestLog` derives
the row from it. `IdsOf` is what an upstream's list comes to: the ids of the entries
wanted, in their order. A list that is stored or cached holds `Listable` names only,
those an administrator gave, those an upstream offered under an id, or the built-in
ones; `TypeOK` says so of every list.

### Dialects, Framing and Conversion

`Dialects` and `Framing` have no state: they are `adapter/` and the framing of
`pumpStream` as functions. `Dialects` has the two inbound parsers, the unified
request, and the three request builders; `Framing` the three response parsers, the
three stream parsers, the builders for a client, the tables of stop reasons with their
default rows, and the block framing for an Anthropic client, whose closure variables
`anthTextOpen`, `anthToolIdx` and `finalStop` are the record `NoFrames`. Texts are sequences of
pieces, so a join is a concatenation and the separators are not told apart; the
arguments of a call are the pieces of an object; a picture is where it is, how it is
labelled and what its bytes are.

`Conversion` closes the loop:

| variable | meaning |
|---|---|
| `client` | dialect, system prompts, and the history in the client's own format |
| `conv` | the conversation as it was really held, which nobody in the system sees |
| `asked` | the tools and the choice the client sent with this turn |
| `uni`, `sent` | `rc.uni`, and the body last built with the channel it was built for |
| `attempts`, `reply` | a bound on the attempts, what the client received last |

`Ask` parses a turn; `Attempt` is one iteration of the loop of `serveNonStream` or
`serveStream` up to the call (the copy of `rc.uni`, `maybeInjectSystemCache`,
`BuildRequest`); `RefuseImage` is its build error; `Answer` is the upstream's
answer, parsed and built, or streamed, parsed event by event and framed, and taken
into the history. The client and the upstreams are external: they read and write as
their API says, and are marked so in the map.

## 4. Runs

| run | question | instance | states |
|---|---|---|---|
| `quota_all` | can any interleaving over-count usage, make the live count wrong, or serve an exhausted key? | 2 replicas, 2 requests with one key, a reset, an edit, one Redis loss, one crash, one store error; with and without Redis | 1.9 M |
| `quota_durable` | does every charge reach the database, and stay? | 1 replica, 2 requests with two keys of one user, 2 failing flush commands | 2 400 |
| `relay` | are the books kept, is failover disciplined, do requests end? | 1 request, 3 channels of 2 priorities, 2 attempts, one edit, one store error, one crash | 1 861 000 |
| `stream` | is usage complete, billing clean, order kept, the handler never stuck? | 4 events of 5 kinds, buffer of 2, three ways to write | 243 000 |
| `accounts` | do names stay unique, is there an administrator, who made it one, whose keys change, what does a deletion leave behind? | 2 handlers, 2 names, 2 accounts, 1 key | 1 977 000 |
| `routing` | do conditions mean what they say, may the probe be skipped, does the matched rule decide, who comes first? | 2 rules, 3 channels, 3 requests, one edit with any of 130 sources and 65 patterns, one failing statement | 203 000 |
| `catalog` | does a refused request leave a trace, can a fetch undo an edit, does a test's row tell the truth? | 2 administrators, 3 requests, 2 channels, 2 prices, one failing statement, one test of 2 usage events | 3 347 000 |
| `conversion` | does every upstream read the conversation that was held, accept it, and the client see its answer? | 2 user turns of 6 kinds, 4 channels of 3 types, 2 attempts each, 7 answers, both dialects, streamed or not | 134 000 |

Deadlock checking is off where a system whose requests have all been served, and
whose bounded edits and faults are spent, stops: in all but `accounts` and
`conversion`.

Why the bounds are enough to show the cases: two requests are the fewest that
race on a counter, and two replicas the fewest whose dirty sets differ; one loss,
one crash and one error each come at every point. Three channels with a cap of
two exercise both the end of the candidates and the end of the budget, and two
priorities the order. Four events overflow a buffer of two (the code's is 16) and
still hold a start, a delta, text and a fault. Requests interact in `Relay` only
through the quota, which `Elsewhere` changes under the one request.

Two handlers are the fewest that interleave; two accounts are the
fewest of which one can be the last administrator, and a key that is created,
edited and deleted around the deletion of its owner needs no second one.

`routing` has rules whose expressions refer to one signal, to both and to none,
targets by id, by group and by model, weights of zero and below, and prompts on
both sides of each limit; its sources are every one of up to two words, and longer
ones for precedence, chains, types and words that do not lex. `catalog` has two
channels, so that one administrator can create two, and two prices for a race on one;
a type that is refused, a rate below zero, and a report with a negative count. In
`conversion` two user turns are the fewest with a history that holds an answer,
calls and their results; three turns with one attempt each were also run, without
another outcome. Its turns mix pictures of every kind the code tells apart, cache
marks, empty texts, declared, absent and empty tools; its answers mix texts and
calls with and without arguments.

Properties, beyond one type invariant per module of state:

* `NoPhantomUsage`: no copy of a usage count exceeds what was consumed.
* `LiveExact`: until Redis loses a key or a reset begins, the count that admission
  reads is exact, whatever crashes, flushes, edits and errors happen.
* `ExhaustedRejected`: a request that arrives exhausted is not sent upstream.
  (Requests admitted together may overdraw: the code reserves nothing.)
* `NothingForgotten`, `EventuallyDurable`, `DurableNeverRegresses`: a counter
  ahead of its column is always on its way there, arrives, and does not go back.
* `FailoverDiscipline`, `AnswerIsFinal`: the loop's order and bound; nothing after the
  first status.
* `BilledAtItsPrice`: a success costs what its own channel asked while the request was
  at the gate, for the tokens that were reported: not the price of a candidate that
  failed before it (`serveStream` keeps the price in a variable outside its loop) and
  not one that was set later.
* `BooksAgree`, `ImplementsLedger`: exactly one row per request, equal debit, and
  the refinement of `Ledger` with failing stores and crashes allowed.
* `UsageComplete`, `OnlyCleanIsBilled`, `ForwardedInOrder`, `HandlerReturns`.
* `AdmittedEnd`: an admitted request ends.
* `UsernamesUnique`, `BootstrapHasAdmin`: two first registrations may both become
  administrator, never neither.
* `CalmDeleteKeepsAdmin`: the last-admin guard works when nothing else writes
  users meanwhile; `OnlyOthersLower`: nobody demotes, disables or deletes itself.
* `OrphansAreLate`, `KeysChangeForTheirOwner`: a key that outlives its owner was
  written after the sweep; a key changes in its owner's name.
* `AuthorityIsGranted`: every administrator, and every session that claims to be one's,
  goes back to a registration that found no account at all, or to an account that had
  been given the role before. What a stale session claims may have been withdrawn since;
  that it can still be used is the code's behaviour.
* `ConditionsMeanWhatTheySay`: what is accepted, stored and evaluated is what the
  grammar says, and a pattern matches what its stars can stand for.
* `ProbeSkippedSafely`: when the probe is not asked, no answer of it would have
  changed the decision. `PromptKeepsRecent`: what it is asked about is the newest
  turns, without a gap.
* `TargetsDecide`: the first rule that holds decides alone, even when it leaves no
  channel. `EveryCandidateMayLead`: any channel of the highest priority left may be
  next, whatever its weight, and each comes once.
* `OnePrice`, a conjunct of the type invariant of `catalog`: a channel's model has
  one price, although `Upsert` looks and writes in two statements.
* `RefusalLeavesNoTrace`: a request that is told to have failed changed nothing,
  except a `Create` whose correction of `use_inference_profile` failed.
* `OnlyEditsChangeSettings`: a model fetch neither undoes an edit nor revives a
  channel. (An update that races another does both: it saves the row it read.)
* `TestIsLogged`: one row per attempted test, with the outcome the client saw and
  the cost of what the upstream reported, rounded up.
* `UpstreamSeesConversation`, `UpstreamAccepts`, `ClientSeesAnswer`: whatever was
  tried before and whoever answered earlier, the body built for an upstream reads as
  the conversation that was held, keeps the rules of that wire that the code states,
  and the client is told the answer that was given, streamed or whole.

`Conversion` has no type invariant: a value of a wrong shape makes one of its three
properties fail to evaluate.

### Disagreements between the code and what it says

| run | what happens |
|---|---|
| `quota_edit` | A key edit saves the whole row and undoes a flush; `token_service.go:188` says only non-nil input fields change. |
| `stream_leak` | The producer blocks for ever in its send when the handler returns early with the buffer full; `stream.go:792-794` says the error channel receives a value exactly once when the events channel closes. |
| `framing_overlap` | A text delta after a tool call opens the text block while the tool block is open; `stream.go:403-405` says a tool block closes when the next block arrives. |
| `accounts_lastadmin` | A deletion that counted two administrators commits after the other was demoted or deleted; `user_service.go:31` says a deletion that would leave none is refused. |

The models also have, without a run of their own:

* a flush between its `GET` and `UPDATE` that writes the count before a reset back
  (`quota_service.go:163` says the dropped dirty flag prevents that);
* a key that Redis loses between `Consume`'s backfill and its `INCRBY`, so that the
  counter restarts from one cost and is flushed over the durable total
  (`quota_service.go:46` says usage is never lost);
* a non-streaming answer without upstream usage, logged with the estimated prompt
  and billed without it (`usage.go:7-10` says neither is under-counted);
* two first registrations that both become administrator (`user_service.go:87` says all
  subsequent users are regular);
* keys that survive their owner's deletion (`user_service.go:535` says none does),
  created on a session that is still valid;
* a deleted key, or a deleted channel, that comes back when an update that had read
  it saves it;
* a channel that exists although its `Create` was answered with an error, and a price
  that is inserted after the deletion of its channel (`channel_service.go:295` says a
  deleted channel leaves none behind).

Met while reading, without a run of their own: `relay.go:293-295`,
`stream.go:73-74` and `model_price.go:6` say that a missing price rejects the
request, and `pricing_service.go:51-66` serves it for free; `pricing_service.go:42`
says such a request is logged with cost 0, and `stream.go:169` logs no cost;
`openai_adapter.go:436` says the tools are nil when there are none, and an empty list
is forwarded as one; `testchat.go:63-67` says the test chat rejects an unpriced model,
and `testchat.go:157-161` allows it and says so.

### Fairness

* `Quota`: every request makes progress and every replica's loop keeps flushing.
  Go runs runnable goroutines, the ticker fires every interval, commands have
  timeouts. Nobody has to send a request, reset or edit.
* `Relay`: the relay's own steps happen. An upstream call ends by itself only
  where the code bounds it: `defaultUpstreamTimeout` (120 s) without streaming,
  the cancelled context once a streaming client has left. A stream whose
  client stays has no timeout, so `AdmittedEnd` does not promise its end.
* `Routing`, `Catalog`, `TestChat` and `Conversion` have safety properties only.
* `Stream`: both goroutines run and a read of a cancelled body returns. The
  upstream may stay silent and the client may stay.

## 5. Proofs

Every theorem is about the specification a run checks, for all values of its
constants that satisfy the module's assumptions, and follows from an inductive
invariant with one lemma per step or group of steps.

`QuotaProofs`: all replicas, keys, users, limits, requests, resets, edits and fault
bounds.

| theorem | inductive invariant |
|---|---|
| `TypeCorrect` | `TypeOK`. A helper lemma says what finishing a lookup (`Known`) may change, since five actions end in it. |
| `NeverOverBilled` | `PhantomInv`: `NoPhantomUsage` is not inductive alone; a value a request has read to seed a counter must be bounded too, and remain so for the entity it was read for. |
| `LiveCounterExact` | `ExactInv`: while nothing has erased the usage of an entity, its counter, once created, is exact; and as long as it is missing, the column and every copy of the column (a request's seed, an edit's row) are exact, no flush is at that row, and no request is past the point that relies on the key (`CleanStart`, `PastLookup`). Without Redis no counter and no flush exists (`DBOnly`). |
| `ExhaustedStayRejected` | `DryInv` on top of `ExactInv`: a request that arrived exhausted is still at the guard, and if it passed its token level with room, it is its user that is exhausted. |
| `CalmForgetsNothing` | `DurableInv`, on top of both: a value about to be written is not behind the column, and when it is behind the counter its row will be visited again. It needs one flushing replica (`OneReplica`: with two, one can overwrite the other's newer value), and speaks of the time until a key is lost, a process dies, a command of a request fails, or a reset or an edit begins (`Calm`). Commands of the flush may fail. |
| `NothingIsForgotten`, `NeverRegresses` | the same in a deployment where none of that happens (`StaysCalm`), which is that of `quota_durable`. The second is an action property. |

`RelayProofs`: any requests and channels, failover cap, prices and budget.

| theorem | inductive invariant |
|---|---|
| `TypeCorrect`, `FailoverIsDisciplined` | `SelectionInv`: the current attempt is the channel before the cursor; `CallsInv`: the upstreams called lie at different places before it, in order. |
| `AnswersAreFinal` | `AnswerInv`: what the client was sent by where the request is. The theorem is an action property. |
| `SuccessesAreBilledAtTheirPrice` | `OfferInv`: the price of the current candidate was offered by its own channel at the gate, from the pick through the lookup to the bill, and a bill that stands is left alone (`BillStands`). |
| `BooksAlwaysAgree` | `BooksInv`: nothing before `finish`, then the row as the outcome says, then the debit of its cost, with what a failed store command leaves out. |
| `RequestsAreFinite` | `StepsLeft`, a number from 0 to `6 * MaxRetries + 5` that depends on the place and the cursor: every step of a request's own but the client's leaving decreases it, and no other step increases it. |
| `RelayImplementsLedger` | the refinement: `Init` implies `Ledger`'s, and under the invariant every step is `Refuse`, `Settle`, `Record` or `Debit` there, or changes none of `outcome`, `row`, `rowCost` and `debit` (`SilentSteps`, `SettlingSteps`, `WriteLogRecords`, `ConsumeDebits`); edits, other requests and crashes are stutters. |

`StreamProofs`: any buffer size and stream length.

| theorem | inductive invariant |
|---|---|
| `TypeCorrect` | `ProducerInv`, `HandlerInv`: what the control points say of the error channel and the closing. |
| `UsageIsComplete`, `OnlyCleanStreamsAreBilled` | `ChannelInv`: what was read is what was received, the buffer and the producer's hand, in order; so a handler that saw the end without a fault has received everything. `UsageInv`, `LoggedInv`: the merged usage counts the events received. |
| `EventsAreForwardedInOrder` | `OutputInv`: the place in the output of each event received. |
| `HandlerIsFinite` | `Work`, twice the events on their way plus the handler's place: each step of the handler decreases it, and once the body has ended nothing increases it. And a handler that waits on an empty channel waits for a producer that can go on (`WaitsForSomeone`). |

`AccountsProofs`: any handlers, names, users and keys.

| theorem | inductive invariant |
|---|---|
| `TypeCorrect` | `IInv`: `TypeOK`, and that a save writes an id the sequence has passed (`SavesKnownKey`), without which a saved row could lie beyond it. |
| `NamesUnique` | `UsernamesUnique` itself: only three actions change the table (`UsersChange`). |
| `NoKeyLeftBehind` | `OrphansAreLate` and `SweptAll`: a deletion about to commit holds all keys of its target but the ones written since it looked. |
| `CalmDelete` | `CalmIsSafe`: while undisturbed, a deletion past its guard has a target that is not the only administrator. The theorem is an action property. |
| `Bootstrap` | `Bootstrapping`: before the first row there is no session, and every registration under way is an administrator's. |
| `OthersLower` | `SelfSpared`: an update of the caller's own row neither demotes nor disables, a deletion is of another; the requests remember who asked, and the step is theirs. |
| `AuthorityDescends` | `AuthorityInv`: what is asked for in an administrator's name is asked by an account that was given the role, whatever became of it since; a registration for one began when there was no account. |
| `KeysAreTheirOwners` | `OwnersInv`: a save writes its caller's key, two saves of one key are of one caller, and a deletion holds keys of its target. The second is what makes the revival of a deleted key harmless. |

`ExprProofs` and `RoutingProofs`: any expressions, rule tables, channels, requests and
predictions.

| theorem | rests on |
|---|---|
| `SourcesMeanWhatTheySay` | For every source and environment, what `Compile` yields is what the grammar derives, and it refuses what has no derivation. By induction along the same recursion as below, `Parse` is sound (`ParserSound`: what it makes of a span, the grammar derives) and complete (`ParserComplete`: a meaning of a span is what it finds at the span's start, or in a chain joins to what it finds behind it, unless the word behind is one the rule reads on at). |
| `PatternsMeanWhatTheySay` | For every pattern and text, taking the first place of each part loses no match, by induction on the parts left. |
| `RulesMeanWhatTheySay` | the two above, with the rules stored and those being validated: the run's `ConditionsMeanWhatTheySay`. |
| `ValuesDependOnReferences` | The recursion of `Parse` is well founded (`ParsesExist`): a rule calls itself on later words or another on the same words at a smaller cost, and every successful parse advances (`DescendAdvances`). Along it, two environments that differ in variables outside the references give the same nodes (`ParsesAlike`). |
| `ProbeOnDemandIsSafe` | the theorem above: when no compiled rule refers to `w` or `t`, no signal changes which rules hold, so `Match` is the same; and `DecisionInv`, that the decision is that of the rules read. |
| `FirstRuleDecides` | `SnapInv`: the rules read are finitely many, so a first one exists, by priority and then by id. |
| `AnyCandidateMayLead` | `OrderInv`: what is drawn precedes what is not. `Weigh` is a sum over any finite set, whose order of summation does not matter, so every number drawn finds one candidate and every candidate has a number (`SumsRemove`, `DrawnAreAll`), whatever the weights. |
| `PromptIsRecent` | `Newest` by induction on the number of turns taken: it stops at the first that does not fit. |
| `TypeCorrect` | `TableInv`, `EditorInv`, `SelectionInv`, with `InputAssumption`. |

`CatalogProofs`: any administrators, request bodies, replies, rates and reported usages.

| theorem | inductive invariant |
|---|---|
| `NoTrace` | `RequestsInv`: a request that may still be refused has written nothing, and one that was refused and has written is a `Create`. |
| `PriceIsUnique` | `OnePrice` and the types of rates (`PricesInv`): the unique index refuses the second insertion, and a save writes the row of its own id. |
| `SettingsAreEdited` | what each statement may change of `chan`. |
| `CatalogTyped` | `KindsInv` (`ChannelsTyped`, `PricesTyped`, `ListsTyped`, `RequestsTyped`) with `OneRow`: the run's `TypeOK`. What `IdsOf` returns are ids of entries wanted (`IdsAreWanted`), by induction on the length, so every reply lists names that may be listed (`RepliesAreListable`), and the statements only move lists about. |
| `TestsAreLogged` | `TestInv`: at each statement of the test, the fields of its record agree with what was reported (`Asked`, `Called`, `Pumping`, `Ending`); that the cost is the least number of units that covers the spending is `RoundedUp`. |

`SetInduction` exists because the library's induction theorems take an operator as a
parameter, which the provers at hand cannot instantiate: its lemmas take the set of
things for which the claim holds (`SubsetInduction`, `NumberInduction`, `Least`,
`Greatest`) and follow from the well-foundedness of inclusion on finite sets.

Assumptions are those named in the modules, and no more. Tokens and users are
different rows, every key has an owner, priorities, limits and weights are integers,
costs and initial usage are naturals (`QuotaAssumption`, `AccountsAssumption`,
`RelayAssumption`); a stream's buffer has a place (`StreamAssumption`); tables are
finite, ids positive and rows and decoded bodies have the types of their columns
(`RoutingAssumption`, `InputAssumption`); rates and reported counts are integers,
negative ones included (`RatesAssumption`, `UsageAssumption`); a decoded body has fields
of the kinds in `Fields`, and a reply entries of texts (`DecodingAssumption`); the bounds
on rows are naturals (`BoundsAssumption`).

What an attempt to prove found: `OnlyEditsChangeSettings` first told a creation from
other steps by the change of its administrator's request, which is none when one
administrator creates two channels in a row; with a single channel no run could show
that. It now tells them by the count of requests, and the run has two channels.

Model-checked only:

* The three properties of `Conversion`. Its functions are built with `SelectSeq` and
  `FoldLeft`, which take an operator, and relate sequences of blocks that are
  rearranged in four formats.
* Liveness (`EventuallyDurable`, `AdmittedEnd`, `HandlerReturns`): fairness and
  `ENABLED` are beyond the prover. Its safety half is proved for the last two:
  `RequestsAreFinite` and `HandlerIsFinite` leave to fairness only that steps that can
  be taken are taken. For the first, `NothingIsForgotten` says that the row that is
  behind will be visited.

## 6. Not modelled

* go-redis's own retries, and a command that was applied although it answered
  with an error: a failing command has no effect here.
* Limits are constants in `Quota`; edits of the quota column are planned with
  `QuotaOp`.
* Passwords, profile fields and groups in `Accounts`: no step depends on them.
* Without Redis (`rdb == nil`) the code works and is modelled, though `main.go`
  always requires it.
* Overflow of 64-bit counters: micro-USD sums stay far below.
* Request I/O capture, response headers, error wording.
* A key's pinned output format: the client of `Conversion` is answered in its own
  dialect, and the binary Bedrock framing is left out.
* Sampling parameters, usage fields, credentials, endpoints and the event stream's
  binary frames in `Dialects` and `Framing`; `is_error` of a tool result, which only
  an Anthropic upstream has a place for; texts of blanks only; a tool result of
  several blocks, or with a picture. The JSON text that an array of blocks becomes for
  an OpenAI upstream (`openai_adapter.go:412-422`) is a text of another form that says
  the same; `UpstreamSeesConversation` takes it as read.
* Streams that break inside a framed answer: `Stream` has the break, `Conversion`
  complete answers. The upstreams of `Conversion` stream their calls one after the
  other, one call per event.
* String escapes, number syntax and byte positions of the condition language: words
  come lexed, and a word that does not lex is one of `BadWords`.
* The web console and the deployment templates, for the reasons in `PROJECT.json`.
