------------------------------ MODULE Catalog ------------------------------
(***************************************************************************)
(* The channels an operator configures, the price of each of their models  *)
(* and the model lists that are fetched from upstream and cached           *)
(* (internal/service/channel_service.go, pricing_service.go and their      *)
(* controllers).  Administrators work at the same time; each handler is a  *)
(* sequence of statements, and any statement may fail.                     *)
(*                                                                         *)
(* The tables are partial functions of the ids that exist.  A channel's    *)
(* row keeps what these handlers tell apart: its type, whether a base URL  *)
(* and a region are set, its models and use_inference_profile; the other   *)
(* settings are copied the way "type" is.                                  *)
(***************************************************************************)
EXTENDS Integers, Sequences, FiniteSets, Functions

CONSTANTS
  Admins,      \* administrators with a request under way
  Models,      \* model names
  Bodies,      \* bodies of create and update: the fields given, with values
  Rates,       \* prices an administrator may send
  Replies,     \* what an upstream may reply to a listing
  MaxChannels, \* bound: channels ever created
  MaxPrices,   \* bound: price rows ever created
  MaxOps,      \* bound: requests of the administrators
  MaxFaults    \* bound: failing statements

VARIABLES
  chan,      \* table channels: id -> row
  price,     \* table model_prices: id -> channel, model and rates
  cache,     \* Redis, channel:models:<id>: id -> list
  nextChan, nextPrice,  \* the sequences of the two tables
  op,        \* op[a]: the request of administrator a
  wrote,     \* history: wrote[a], the request of a changed a table or the cache
  ops, faults

tables == <<chan, price, cache>>
catalogVars == <<tables, nextChan, nextPrice, op, wrote, ops, faults>>

Types == {"openai", "bedrock", "anthropic"}
Rate == [input : Nat, output : Nat, read : Nat, write : Nat]

ASSUME RatesAssumption ==
  Rates \subseteq [input : Int, output : Int, read : Int, write : Int]

(* What the decoding of a body lets through; of a listing, the entries.    *)
Fields ==
  [name |-> STRING, type |-> STRING, base |-> BOOLEAN, region |-> BOOLEAN,
   models |-> Seq(STRING), profile |-> BOOLEAN]

ASSUME DecodingAssumption ==
  /\ \A in \in Bodies : \A f \in DOMAIN in : f \in DOMAIN Fields /\ in[f] \in Fields[f]
  /\ \A r \in Replies : r.entries \in Seq([id : STRING, modes : STRING])

ASSUME BoundsAssumption == MaxChannels \in Nat /\ MaxPrices \in Nat

Builtin == [bedrock |-> <<"b1", "b2">>, anthropic |-> <<"a1">>]

(* What Create starts from; name and type have no default. *)
NewChannel ==
  [base |-> FALSE, region |-> FALSE, models |-> <<>>, profile |-> FALSE]

(* A table after a row was written, and after rows were removed. *)
With(table, id, row) ==
  [k \in {id} \cup DOMAIN table |-> IF k = id THEN row ELSE table[k]]
Without(table, gone) == Restrict(table, DOMAIN table \ gone)

(* applyInput: the fields that are given replace those of the row. *)
ApplyInput(row, in) ==
  [f \in DOMAIN row \cup (DOMAIN in \ {"name"}) |->
    IF f \in DOMAIN in THEN in[f] ELSE row[f]]

(* Mutant: the type is not looked at. *)
AcceptableAnyType(in) == "name" \in DOMAIN in => in.name # "blank"

(* An absent name or type is refused on create only; a blank name and an   *)
(* unknown type always.                                                    *)
Acceptable(in) ==
  /\ "name" \in DOMAIN in => in.name # "blank"
  /\ "type" \in DOMAIN in => in.type \in Types

Idle == [pc |-> "idle"]
Done(kind, ok) == [pc |-> "done", kind |-> kind, ok |-> ok]

CatalogInit ==
  /\ chan = <<>> /\ price = <<>> /\ cache = <<>>
  /\ nextChan = 1 /\ nextPrice = 1
  /\ op = [a \in Admins |-> Idle]
  /\ ops = 0 /\ faults = 0
  /\ wrote = [a \in Admins |-> FALSE]

Begins(a) ==
  /\ op[a].pc \in {"idle", "done"} /\ ops < MaxOps
  /\ ops' = ops + 1

Continues(a, pc) == op[a].pc = pc /\ UNCHANGED ops

Set(a, value) == op' = [op EXCEPT ![a] = value]

Fault == faults < MaxFaults /\ faults' = faults + 1

(* The store fails the statement: the handler reports it, nothing changes. *)
Fails(a, kind) ==
  /\ Fault
  /\ Set(a, Done(kind, FALSE))
  /\ UNCHANGED <<tables, nextChan, nextPrice>>

Refuses(a, kind) ==
  /\ Set(a, Done(kind, FALSE))
  /\ UNCHANGED <<tables, nextChan, nextPrice, faults>>

-----------------------------------------------------------------------------
(* Create, Update and Delete of a channel. *)

(* The insert turns an explicit use_inference_profile = FALSE into the     *)
(* column's default, which a second statement then corrects.               *)
Create(a, in) ==
  /\ Begins(a)
  /\ \/ /\ ~Acceptable(in) \/ ~{"name", "type"} \subseteq DOMAIN in
        /\ Refuses(a, "create")
     \/ /\ Acceptable(in) /\ {"name", "type"} \subseteq DOMAIN in
        /\ \/ Fails(a, "create")
           \/ /\ nextChan <= MaxChannels
              /\ chan' = With(chan, nextChan,
                            [ApplyInput(NewChannel, in) EXCEPT !.profile = TRUE])
              /\ nextChan' = nextChan + 1
              /\ IF "profile" \in DOMAIN in /\ ~in.profile
                   THEN Set(a, [pc |-> "profile", ch |-> nextChan])
                   ELSE Set(a, Done("create", TRUE))
              /\ UNCHANGED <<price, cache, nextPrice, faults>>

WriteProfile(a) ==
  /\ Continues(a, "profile")
  /\ \/ Fails(a, "create")
     \/ /\ chan' = IF op[a].ch \in DOMAIN chan
                     THEN [chan EXCEPT ![op[a].ch].profile = FALSE]
                     ELSE chan
        /\ Set(a, Done("create", TRUE))
        /\ UNCHANGED <<price, cache, nextChan, nextPrice, faults>>

(* getRaw finds no row, or the store fails. *)
NotLoaded(a, c, kind) ==
  \/ c \notin DOMAIN chan /\ Refuses(a, kind)
  \/ Fails(a, kind)

ReadForUpdate(a, c, in) ==
  /\ Begins(a)
  /\ \/ NotLoaded(a, c, "update")
     \/ c \in DOMAIN chan /\ ~Acceptable(in) /\ Refuses(a, "update")
     \/ /\ c \in DOMAIN chan /\ Acceptable(in)
        /\ Set(a, [pc |-> "save", ch |-> c, row |-> ApplyInput(chan[c], in)])
        /\ UNCHANGED <<tables, nextChan, nextPrice, faults>>

(* Save writes every column of the row that was read, and inserts it again *)
(* when it is gone.                                                        *)
SaveUpdate(a) ==
  /\ Continues(a, "save")
  /\ \/ Fails(a, "update")
     \/ /\ chan' = With(chan, op[a].ch, op[a].row)
        /\ Set(a, Done("update", TRUE))
        /\ UNCHANGED <<price, cache, nextChan, nextPrice, faults>>

PricesOf(c) == {p \in DOMAIN price : price[p].ch = c}

(* Mutant: the prices are removed outside the transaction, after it. *)
DeleteUnprotected(a, c) ==
  /\ Begins(a)
  /\ \/ NotLoaded(a, c, "delete")
     \/ /\ c \in DOMAIN chan
        /\ chan' = Without(chan, {c})
        /\ \/ /\ price' = Without(price, PricesOf(c))
              /\ Set(a, Done("delete", TRUE))
              /\ UNCHANGED faults
           \/ /\ Fault
              /\ Set(a, Done("delete", FALSE))
              /\ UNCHANGED price
        /\ UNCHANGED <<cache, nextChan, nextPrice>>

(* One transaction: the channel and its prices go together or not at all.  *)
(* The cached list stays.                                                  *)
Delete(a, c) ==
  /\ Begins(a)
  /\ \/ NotLoaded(a, c, "delete")
     \/ /\ c \in DOMAIN chan
        /\ chan' = Without(chan, {c})
        /\ price' = Without(price, PricesOf(c))
        /\ Set(a, Done("delete", TRUE))
        /\ UNCHANGED <<cache, nextChan, nextPrice, faults>>

-----------------------------------------------------------------------------
(* FetchModels.  A reply has a status and, when it is a 2xx, the entries   *)
(* of its list or "unparsable"; status 0 is no reply: the transport        *)
(* failed, or the key does not decrypt.                                    *)

Usable(r) == r.status \in 200..299 /\ r.parses

(* The ids of the entries that are wanted, in order. *)
IdsOf(entries, wanted) ==
  LET ids[n \in 0..Len(entries)] ==
        IF n = 0 THEN <<>>
        ELSE IF entries[n] \in wanted THEN Append(ids[n - 1], entries[n].id)
        ELSE ids[n - 1]
  IN ids[Len(entries)]

(* Mutant: an entry without an id is listed. *)
NamedOrBlank(entries) == IdsOf(entries, Range(entries))

Named(entries) == IdsOf(entries, {e \in Range(entries) : e.id # ""})
Textual(entries) ==
  IdsOf(entries, {e \in Range(entries) : e.id # "" /\ e.modes # "other"})

Listed(list) == [ok |-> TRUE, list |-> list]
NotListed == [ok |-> FALSE, list |-> <<>>]

(* /v1/models, and /models when that is answered by 404 or 400.  A list    *)
(* that is empty is a list.                                                *)
OpenAIModels(row, first, second) ==
  IF ~row.base THEN NotListed
  ELSE LET last == IF first.status \in {400, 404} THEN second ELSE first
       IN IF Usable(last) THEN Listed(Named(last.entries)) ELSE NotListed

(* An unusable or empty answer is replaced by the built-in list. *)
ListOrBuiltin(type, reachable, list) ==
  Listed(IF reachable /\ list # <<>> THEN list ELSE Builtin[type])

AnthropicModels(row, r) ==
  ListOrBuiltin("anthropic", row.base /\ Usable(r), Named(r.entries))

BedrockModels(row, r) ==
  ListOrBuiltin("bedrock", row.region /\ Usable(r), Textual(r.entries))

FetchedModels(row, first, second) ==
  CASE row.type = "bedrock" -> BedrockModels(row, first)
    [] row.type = "anthropic" -> AnthropicModels(row, first)
    [] OTHER -> OpenAIModels(row, first, second)

(* The row, then the cache unless a refresh is asked for: a hit ends it.   *)
ReadForFetch(a, c, refresh) ==
  /\ Begins(a)
  /\ \/ NotLoaded(a, c, "fetch")
     \/ /\ c \in DOMAIN chan
        /\ IF ~refresh /\ c \in DOMAIN cache
             THEN Set(a, Done("fetch", TRUE))
             ELSE Set(a, [pc |-> "list", ch |-> c, row |-> chan[c]])
        /\ UNCHANGED <<tables, nextChan, nextPrice, faults>>

List(a, first, second) ==
  /\ Continues(a, "list")
  /\ LET fetched == FetchedModels(op[a].row, first, second)
     IN Set(a, IF fetched.ok
                 THEN [pc |-> "persist", ch |-> op[a].ch, row |-> op[a].row,
                       list |-> fetched.list]
                 ELSE Done("fetch", FALSE))
  /\ UNCHANGED <<tables, nextChan, nextPrice, faults>>

(* Mutant: the whole row is saved, as Update does. *)
PersistRow(a) ==
  /\ Continues(a, "persist")
  /\ \/ Fails(a, "fetch")
     \/ /\ chan' = With(chan, op[a].ch, [op[a].row EXCEPT !.models = op[a].list])
        /\ Set(a, [pc |-> "cache", ch |-> op[a].ch, list |-> op[a].list])
        /\ UNCHANGED <<price, cache, nextChan, nextPrice, faults>>

(* persistModels: only the models column, and no row is no error. *)
Persist(a) ==
  /\ Continues(a, "persist")
  /\ \/ Fails(a, "fetch")
     \/ /\ chan' = IF op[a].ch \in DOMAIN chan
                     THEN [chan EXCEPT ![op[a].ch].models = op[a].list]
                     ELSE chan
        /\ Set(a, [pc |-> "cache", ch |-> op[a].ch, list |-> op[a].list])
        /\ UNCHANGED <<price, cache, nextChan, nextPrice, faults>>

(* cacheModels is best effort. *)
CacheModels(a) ==
  /\ Continues(a, "cache")
  /\ \/ cache' = With(cache, op[a].ch, op[a].list) /\ UNCHANGED faults
     \/ Fault /\ UNCHANGED cache
  /\ Set(a, Done("fetch", TRUE))
  /\ UNCHANGED <<chan, price, nextChan, nextPrice>>

(* The ten minutes of a cached list are over. *)
Expire(c) ==
  /\ c \in DOMAIN cache
  /\ cache' = Without(cache, {c})
  /\ UNCHANGED <<chan, price, nextChan, nextPrice, op, wrote, ops, faults>>

-----------------------------------------------------------------------------
(* TestChannel: one probe with the first model of the row, nothing is      *)
(* stored.  An unreachable upstream is a result, not an error; a key that  *)
(* does not decrypt is an error.                                           *)

PickTestModel(row) == IF row.models = <<>> THEN "fallback" ELSE row.models[1]
Reachable(row) == IF row.type = "bedrock" THEN row.region ELSE row.base

TestChannel(a, c, up) ==
  /\ Begins(a)
  /\ \/ NotLoaded(a, c, "test")
     \/ c \in DOMAIN chan /\ Refuses(a, "test")
     \/ /\ c \in DOMAIN chan
        /\ Set(a, [pc |-> "done", kind |-> "test", ok |-> TRUE,
                    model |-> PickTestModel(chan[c]),
                    reached |-> Reachable(chan[c]) /\ up])
        /\ UNCHANGED <<tables, nextChan, nextPrice, faults>>

-----------------------------------------------------------------------------
(* Prices. *)

Positive(rate) == rate.input > 0 /\ rate.output > 0
RateAccepted(rate) == Positive(rate) /\ rate.read >= 0 /\ rate.write >= 0

Priced(table, c, m) == {p \in DOMAIN table : table[p].ch = c /\ table[p].model = m}

(* The channel is not looked up: it may not exist. *)
ReadForPrice(a, c, m, rate) ==
  /\ Begins(a)
  /\ \/ ~RateAccepted(rate) /\ Refuses(a, "price")
     \/ Fails(a, "price")
     \/ /\ RateAccepted(rate)
        /\ LET row == [ch |-> c, model |-> m, rate |-> rate]
               found == Priced(price, c, m)
           IN Set(a, IF found = {}
                       THEN [pc |-> "insert", row |-> row]
                       ELSE [pc |-> "update", row |-> row,
                             id |-> CHOOSE p \in found : TRUE])
        /\ UNCHANGED <<tables, nextChan, nextPrice, faults>>

(* Mutant: no unique index. *)
InsertPriceBlind(a) ==
  /\ Continues(a, "insert")
  /\ \/ Fails(a, "price")
     \/ /\ nextPrice <= MaxPrices
        /\ price' = With(price, nextPrice, op[a].row)
        /\ nextPrice' = nextPrice + 1
        /\ Set(a, Done("price", TRUE))
        /\ UNCHANGED <<chan, cache, nextChan, faults>>

(* The unique index on channel and model refuses a second row. *)
InsertPrice(a) ==
  /\ Continues(a, "insert")
  /\ LET row == op[a].row
     IN \/ Fails(a, "price")
        \/ Priced(price, row.ch, row.model) # {} /\ Refuses(a, "price")
        \/ /\ Priced(price, row.ch, row.model) = {} /\ nextPrice <= MaxPrices
           /\ price' = With(price, nextPrice, row)
           /\ nextPrice' = nextPrice + 1
           /\ Set(a, Done("price", TRUE))
           /\ UNCHANGED <<chan, cache, nextChan, faults>>

(* Save by id: a row deleted since is inserted again under its old id. *)
SavePrice(a) ==
  /\ Continues(a, "update")
  /\ LET row == op[a].row
     IN \/ Fails(a, "price")
        \/ /\ Priced(price, row.ch, row.model) \subseteq {op[a].id}
           /\ price' = With(price, op[a].id, row)
           /\ Set(a, Done("price", TRUE))
           /\ UNCHANGED <<chan, cache, nextChan, nextPrice, faults>>
        \/ /\ ~Priced(price, row.ch, row.model) \subseteq {op[a].id}
           /\ Refuses(a, "price")

DeletePrice(a, p) ==
  /\ Begins(a)
  /\ \/ p \notin DOMAIN price /\ Refuses(a, "unprice")
     \/ Fails(a, "unprice")
     \/ /\ p \in DOMAIN price
        /\ price' = Without(price, {p})
        /\ Set(a, Done("unprice", TRUE))
        /\ UNCHANGED <<chan, cache, nextChan, nextPrice, faults>>

-----------------------------------------------------------------------------

Step(a) ==
  \/ \E in \in Bodies : Create(a, in)
  \/ WriteProfile(a) \/ SaveUpdate(a)
  \/ \E c \in 1..MaxChannels :
       \/ \E in \in Bodies : ReadForUpdate(a, c, in)
       \/ Delete(a, c)
       \/ \E refresh \in BOOLEAN : ReadForFetch(a, c, refresh)
       \/ \E up \in BOOLEAN : TestChannel(a, c, up)
       \/ \E m \in Models, rate \in Rates : ReadForPrice(a, c, m, rate)
  \/ \E first, second \in Replies : List(a, first, second)
  \/ Persist(a) \/ CacheModels(a)
  \/ InsertPrice(a) \/ SavePrice(a)
  \/ \E p \in 1..MaxPrices : DeletePrice(a, p)

(* The history of what the request under way has changed. *)
Wrote(a) ==
  wrote' = [wrote EXCEPT ![a] =
    \/ tables' # tables
    \/ op[a].pc \notin {"idle", "done"} /\ wrote[a]]

CatalogNext ==
  \/ \E a \in Admins : Step(a) /\ Wrote(a)
  \/ \E c \in 1..MaxChannels : Expire(c)

-----------------------------------------------------------------------------
(* A request that an administrator is told has failed has changed nothing: *)
(* not the tables, not the cache, whatever statement failed.  The one      *)
(* exception is a channel whose insert succeeded and whose                 *)
(* use_inference_profile could not be corrected: Create reports an error   *)
(* and the channel exists.                                                 *)
RefusalLeavesNoTrace ==
  \A a \in Admins :
    (op[a].pc = "done" /\ ~op[a].ok /\ wrote[a]) => op[a].kind = "create"

Settings(row) == [row EXCEPT !.models = <<>>]

(* A channel comes into being, comes back after its deletion, or changes   *)
(* in anything but its models only in a statement of Create or Update:     *)
(* FetchModels, which works on a row read before a call upstream that      *)
(* takes seconds, neither undoes an edit nor revives a deleted channel.    *)
OnlyEditsChangeSettings ==
  [][\A c \in DOMAIN chan' :
       (c \in DOMAIN chan => Settings(chan'[c]) # Settings(chan[c]))
       => \E a \in Admins :
            /\ \A b \in Admins \ {a} : op'[b] = op[b]
            /\ \/ op[a].pc \in {"profile", "save"} /\ op'[a].pc = "done"
               \/ ops' # ops /\ (op'[a].pc = "profile" \/ op'[a] = Done("create", TRUE))
    ]_catalogVars

=============================================================================
