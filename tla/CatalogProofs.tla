---------------------------- MODULE CatalogProofs ----------------------------
(***************************************************************************)
(* Safety of the catalog and of the test chat for any number of            *)
(* administrators, channels, prices and faults.                            *)
(***************************************************************************)
EXTENDS TestChat, SetInduction

-----------------------------------------------------------------------------
(* Administrators. *)

(* A request that may still be refused has written nothing yet.            *)
Unwritten == {"save", "list", "persist", "insert", "update"}
Pcs == Unwritten \cup {"idle", "profile", "cache", "done"}

(* What a request has become, and whether it has written.                  *)
Honest(x, written) ==
  /\ x.pc \in Pcs
  /\ x.pc \in Unwritten => ~ written
  /\ x.pc = "done" /\ ~ x.ok /\ written => x.kind = "create"

RequestsInv ==
  /\ DOMAIN op = Admins /\ wrote \in [Admins -> BOOLEAN]
  /\ \A a \in Admins : Honest(op[a], wrote[a])

(* The outcomes of a request.                                              *)
LEMMA OutcomesHonest ==
  /\ \A kind, written : Honest(Done(kind, TRUE), written)
  /\ \A kind : Honest(Done(kind, FALSE), FALSE)
  /\ \A written : Honest(Done("create", FALSE), written)
BY DEF Honest, Done, Pcs, Unwritten

(* A request of a that moves on honestly leaves all requests honest.       *)
LEMMA MovedHonestly ==
  ASSUME RequestsInv, NEW a \in Admins, Wrote(a), NEW x, Set(a, x), Honest(x, wrote'[a])
  PROVE  RequestsInv'
<1>1. DOMAIN op' = Admins /\ op'[a] = x /\ \A c \in Admins \ {a} : op'[c] = op[c]
  BY DEF RequestsInv, Set
<1>2. wrote' \in [Admins -> BOOLEAN] /\ \A c \in Admins \ {a} : wrote'[c] = wrote[c]
  BY DEF RequestsInv, Wrote
<1> QED
  BY <1>1, <1>2 DEF RequestsInv

(* A request that begins, or has not written yet, has written after its    *)
(* step if the step did.                                                   *)
Clean(a) == op[a].pc \in {"idle", "done"} \cup Unwritten

LEMMA WroteNow ==
  ASSUME RequestsInv, NEW a \in Admins, Wrote(a), Clean(a), tables' = tables
  PROVE  wrote'[a] = FALSE
BY DEF RequestsInv, Wrote, Honest, Unwritten, Clean

(* It may be refused, ...                                                  *)
LEMMA RefusedHonestly ==
  ASSUME RequestsInv, NEW a \in Admins, Wrote(a), Clean(a), NEW kind,
         Refuses(a, kind) \/ Fails(a, kind)
  PROVE  RequestsInv'
<1>1. Set(a, Done(kind, FALSE)) /\ tables' = tables
  BY DEF Refuses, Fails
<1> QED
  BY <1>1, WroteNow, MovedHonestly, OutcomesHonest

(* ... go on without writing, ...                                          *)
LEMMA WentOnHonestly ==
  ASSUME RequestsInv, NEW a \in Admins, Wrote(a), Clean(a), NEW x, x.pc \in Unwritten,
         Set(a, x), tables' = tables
  PROVE  RequestsInv'
<1>1. Honest(x, FALSE)
  BY DEF Honest, Pcs, Unwritten
<1> QED
  BY <1>1, WroteNow, MovedHonestly

(* ... succeed, or go on where writing is expected.                        *)
LEMMA SucceededHonestly ==
  ASSUME RequestsInv, NEW a \in Admins, Wrote(a), NEW x, Set(a, x),
         \/ x.pc \in {"profile", "cache"}
         \/ x.pc = "done" /\ x.ok
  PROVE  RequestsInv'
<1>1. \A written : Honest(x, written)
  BY DEF Honest, Pcs, Unwritten
<1> QED
  BY <1>1, MovedHonestly

(* Channels: Create, Update, Delete and the test of a channel.             *)
LEMMA ChannelsHonest ==
  ASSUME RequestsInv, NEW a \in Admins, Wrote(a),
         \/ \E in \in Bodies : Create(a, in)
         \/ WriteProfile(a) \/ SaveUpdate(a)
         \/ \E c \in 1..MaxChannels :
              \/ \E in \in Bodies : ReadForUpdate(a, c, in)
              \/ Delete(a, c)
              \/ \E up \in BOOLEAN : TestChannel(a, c, up)
  PROVE  RequestsInv'
<1>1. ASSUME Begins(a) PROVE Clean(a)
  BY <1>1 DEF Begins, Clean
<1>2. \A kind : Done(kind, TRUE).pc = "done" /\ Done(kind, TRUE).ok
  BY DEF Done
<1>3. ASSUME NEW in \in Bodies, Create(a, in) PROVE RequestsInv'
  <2>1. CASE \E kind : Refuses(a, kind) \/ Fails(a, kind)
    BY <1>1, <1>3, <2>1, RefusedHonestly DEF Create
  <2>2. CASE Set(a, [pc |-> "profile", ch |-> nextChan])
    BY <2>2, SucceededHonestly
  <2>3. CASE Set(a, Done("create", TRUE))
    BY <1>2, <2>3, SucceededHonestly
  <2> QED
    BY <1>3, <2>1, <2>2, <2>3 DEF Create
<1>4. ASSUME WriteProfile(a) PROVE RequestsInv'
  <2>1. CASE Fails(a, "create")
    BY <2>1, MovedHonestly, OutcomesHonest DEF Fails
  <2>2. CASE Set(a, Done("create", TRUE))
    BY <1>2, <2>2, SucceededHonestly
  <2> QED
    BY <1>4, <2>1, <2>2 DEF WriteProfile
<1>5. ASSUME SaveUpdate(a) PROVE RequestsInv'
  <2>1. Clean(a)
    BY <1>5 DEF SaveUpdate, Continues, Clean, Unwritten
  <2>2. CASE Fails(a, "update")
    BY <2>1, <2>2, RefusedHonestly
  <2>3. CASE Set(a, Done("update", TRUE))
    BY <1>2, <2>3, SucceededHonestly
  <2> QED
    BY <1>5, <2>2, <2>3 DEF SaveUpdate
<1>6. ASSUME NEW c \in 1..MaxChannels, NEW in \in Bodies, ReadForUpdate(a, c, in)
      PROVE  RequestsInv'
  <2>1. CASE \E kind : Refuses(a, kind) \/ Fails(a, kind)
    BY <1>1, <1>6, <2>1, RefusedHonestly DEF ReadForUpdate
  <2>2. CASE Set(a, [pc |-> "save", ch |-> c, row |-> ApplyInput(chan[c], in)])
             /\ tables' = tables
    BY <1>1, <1>6, <2>2, WentOnHonestly DEF ReadForUpdate, Unwritten
  <2> QED
    BY <1>6, <2>1, <2>2 DEF ReadForUpdate, NotLoaded
<1>7. ASSUME NEW c \in 1..MaxChannels, Delete(a, c) PROVE RequestsInv'
  <2>1. CASE \E kind : Refuses(a, kind) \/ Fails(a, kind)
    BY <1>1, <1>7, <2>1, RefusedHonestly DEF Delete
  <2>2. CASE Set(a, Done("delete", TRUE))
    BY <1>2, <2>2, SucceededHonestly
  <2> QED
    BY <1>7, <2>1, <2>2 DEF Delete, NotLoaded
<1>8. ASSUME NEW c \in 1..MaxChannels, NEW up \in BOOLEAN, TestChannel(a, c, up)
      PROVE  RequestsInv'
  <2>1. CASE \E kind : Refuses(a, kind) \/ Fails(a, kind)
    BY <1>1, <1>8, <2>1, RefusedHonestly DEF TestChannel
  <2>2. CASE Set(a, [pc |-> "done", kind |-> "test", ok |-> TRUE,
                     model |-> PickTestModel(chan[c]),
                     reached |-> Reachable(chan[c]) /\ up])
    BY <2>2, SucceededHonestly
  <2> QED
    BY <1>8, <2>1, <2>2 DEF TestChannel, NotLoaded
<1> QED
  BY <1>3, <1>4, <1>5, <1>6, <1>7, <1>8

(* Model lists.                                                            *)
LEMMA ListsHonest ==
  ASSUME RequestsInv, NEW a \in Admins, Wrote(a),
         \/ \E c \in 1..MaxChannels, refresh \in BOOLEAN : ReadForFetch(a, c, refresh)
         \/ \E first, second \in Replies : List(a, first, second)
         \/ Persist(a) \/ CacheModels(a)
  PROVE  RequestsInv'
<1>1. \A kind : Done(kind, TRUE).pc = "done" /\ Done(kind, TRUE).ok
  BY DEF Done
<1>2. ASSUME NEW c \in 1..MaxChannels, NEW refresh \in BOOLEAN, ReadForFetch(a, c, refresh)
      PROVE  RequestsInv'
  <2>0. Clean(a)
    BY <1>2 DEF ReadForFetch, Begins, Clean
  <2>1. CASE \E kind : Refuses(a, kind) \/ Fails(a, kind)
    BY <2>0, <2>1, RefusedHonestly
  <2>2. CASE Set(a, Done("fetch", TRUE))
    BY <1>1, <2>2, SucceededHonestly
  <2>3. CASE Set(a, [pc |-> "list", ch |-> c, row |-> chan[c]]) /\ tables' = tables
    BY <2>0, <2>3, WentOnHonestly DEF Unwritten
  <2> QED
    BY <1>2, <2>1, <2>2, <2>3 DEF ReadForFetch, NotLoaded
<1>3. ASSUME NEW first \in Replies, NEW second \in Replies, List(a, first, second)
      PROVE  RequestsInv'
  <2> DEFINE fetched == FetchedModels(op[a].row, first, second)
             going == [pc |-> "persist", ch |-> op[a].ch, row |-> op[a].row,
                       list |-> fetched.list]
  <2>0. Clean(a) /\ tables' = tables /\ (Set(a, going) \/ Set(a, Done("fetch", FALSE)))
    BY <1>3 DEF List, Continues, Clean, Unwritten
  <2>1. CASE Set(a, going)
    <3>1. going.pc \in Unwritten
      BY DEF Unwritten
    <3> HIDE DEF going
    <3> QED
      BY <2>0, <2>1, <3>1, WentOnHonestly
  <2>2. CASE Set(a, Done("fetch", FALSE))
    BY <2>0, <2>2, WroteNow, MovedHonestly, OutcomesHonest
  <2> QED
    BY <2>0, <2>1, <2>2
<1>4. ASSUME Persist(a) PROVE RequestsInv'
  <2>1. CASE Fails(a, "fetch")
    <3>1. Clean(a)
      BY <1>4 DEF Persist, Continues, Clean, Unwritten
    <3> QED
      BY <2>1, <3>1, RefusedHonestly
  <2>2. CASE Set(a, [pc |-> "cache", ch |-> op[a].ch, list |-> op[a].list])
    BY <2>2, SucceededHonestly
  <2> QED
    BY <1>4, <2>1, <2>2 DEF Persist
<1>5. ASSUME CacheModels(a) PROVE RequestsInv'
  <2>1. Set(a, Done("fetch", TRUE))
    BY <1>5 DEF CacheModels
  <2> QED
    BY <1>1, <2>1, SucceededHonestly
<1> QED
  BY <1>2, <1>3, <1>4, <1>5

(* Prices.                                                                 *)
LEMMA PricesHonest ==
  ASSUME RequestsInv, NEW a \in Admins, Wrote(a),
         \/ \E c \in 1..MaxChannels, m \in Models, rate \in Rates :
              ReadForPrice(a, c, m, rate)
         \/ InsertPrice(a) \/ SavePrice(a)
         \/ \E p \in 1..MaxPrices : DeletePrice(a, p)
  PROVE  RequestsInv'
<1>1. \A kind : Done(kind, TRUE).pc = "done" /\ Done(kind, TRUE).ok
  BY DEF Done
<1>2. Clean(a)
  BY DEF ReadForPrice, InsertPrice, SavePrice, DeletePrice, Begins, Continues, Clean, Unwritten
<1>3. CASE \E kind : Refuses(a, kind) \/ Fails(a, kind)
  BY <1>2, <1>3, RefusedHonestly
<1>4. CASE \E kind : Set(a, Done(kind, TRUE))
  BY <1>1, <1>4, SucceededHonestly
<1>5. CASE \E x : x.pc \in {"insert", "update"} /\ Set(a, x) /\ tables' = tables
  BY <1>2, <1>5, WentOnHonestly DEF Unwritten
<1>6. ASSUME NEW c \in 1..MaxChannels, NEW m \in Models, NEW rate \in Rates,
             ReadForPrice(a, c, m, rate)
      PROVE  \/ \E kind : Refuses(a, kind) \/ Fails(a, kind)
             \/ \E x : x.pc \in {"insert", "update"} /\ Set(a, x) /\ tables' = tables
  BY <1>6 DEF ReadForPrice
<1> QED
  BY <1>3, <1>4, <1>5, <1>6 DEF InsertPrice, SavePrice, DeletePrice

(* Every step of the catalog or of a test leaves all requests honest.      *)
LEMMA InitHonest == Init => RequestsInv
BY DEF Init, CatalogInit, RequestsInv, Honest, Idle, Pcs, Unwritten

LEMMA StepHonest == RequestsInv /\ [Next]_vars => RequestsInv'
<1> SUFFICES ASSUME RequestsInv, [Next]_vars PROVE RequestsInv'
  OBVIOUS
<1>1. ASSUME NEW a \in Admins, Step(a), Wrote(a) PROVE RequestsInv'
  BY <1>1, ChannelsHonest, ListsHonest, PricesHonest DEF Step
<1>2. CASE UNCHANGED <<op, wrote>>
  BY <1>2 DEF RequestsInv
<1>3. ASSUME NEW c \in 1..MaxChannels, Expire(c) PROVE UNCHANGED <<op, wrote>>
  BY <1>3 DEF Expire
<1>4. ASSUME UNCHANGED vars PROVE UNCHANGED <<op, wrote>>
  BY <1>4 DEF vars, catalogVars
<1> QED
  BY <1>1, <1>2, <1>3, <1>4 DEF Next, CatalogNext

(* An administrator who is told that a request has failed finds everything *)
(* as it was, whichever statement failed; only a channel whose profile     *)
(* could not be corrected stays.                                           *)
THEOREM NoTrace == Spec => []RefusalLeavesNoTrace
<1>1. RequestsInv => RefusalLeavesNoTrace
  BY DEF RequestsInv, Honest, RefusalLeavesNoTrace
<1> QED
  BY <1>1, InitHonest, StepHonest, PTL DEF Spec

-----------------------------------------------------------------------------
(* Settings. *)

(* No channel appears, and none changes but in its models.                 *)
SettingsKept ==
  \A c \in DOMAIN chan' :
    c \in DOMAIN chan /\ Settings(chan'[c]) = Settings(chan[c])

LEMMA ModelsAreNoSetting ==
  ASSUME NEW c \in DOMAIN chan, NEW list, chan' = [chan EXCEPT ![c].models = list]
  PROVE  SettingsKept
BY DEF SettingsKept, Settings

LEMMA RemovalKeeps ==
  ASSUME NEW gone, chan' = Without(chan, gone)
  PROVE  SettingsKept
BY DEF SettingsKept, Without, Restrict

(* A statement of Create or Update.                                        *)
Edits(a) ==
  /\ \A b \in Admins \ {a} : op'[b] = op[b]
  /\ \/ op[a].pc \in {"profile", "save"} /\ op'[a].pc = "done"
     \/ ops' # ops /\ (op'[a].pc = "profile" \/ op'[a] = Done("create", TRUE))

(* A statement begins a request or continues one.                          *)
LEMMA BeginsOrContinues ==
  ASSUME NEW a \in Admins, Step(a)
  PROVE  Begins(a) \/ \E pc : Continues(a, pc)
BY DEF Step, Create, WriteProfile, SaveUpdate, ReadForUpdate, Delete, ReadForFetch,
       TestChannel, ReadForPrice, List, Persist, CacheModels, InsertPrice, SavePrice,
       DeletePrice

OpsInv == ops \in Nat

LEMMA InitOps == Init => OpsInv
BY DEF Init, CatalogInit, OpsInv

LEMMA StepOps == OpsInv /\ [Next]_vars => OpsInv'
<1> SUFFICES ASSUME OpsInv, [Next]_vars PROVE OpsInv'
  OBVIOUS
<1>1. ASSUME NEW a \in Admins, Step(a) PROVE OpsInv'
  BY <1>1, BeginsOrContinues DEF Begins, Continues, OpsInv
<1>2. ASSUME NEW c \in 1..MaxChannels, Expire(c) PROVE UNCHANGED ops
  BY <1>2 DEF Expire
<1>3. ASSUME UNCHANGED vars PROVE UNCHANGED ops
  BY <1>3 DEF vars, catalogVars
<1> QED
  BY <1>1, <1>2, <1>3 DEF Next, CatalogNext, OpsInv

(* Only a statement of Create or Update touches a setting.                 *)
LEMMA EditsOnly ==
  ASSUME RequestsInv, OpsInv, NEW a \in Admins, Step(a)
  PROVE  UNCHANGED chan \/ SettingsKept \/ Edits(a)
<1>0. \A x : Set(a, x) => op'[a] = x /\ \A b \in Admins \ {a} : op'[b] = op[b]
  BY DEF Set, RequestsInv
<1>1. \A kind : Done(kind, TRUE).pc = "done"
  BY DEF Done
<1>2. Begins(a) => ops' # ops
  BY DEF Begins, OpsInv
<1>3. \A kind : Refuses(a, kind) \/ Fails(a, kind) => UNCHANGED chan
  BY DEF Refuses, Fails, tables
<1>4. ASSUME NEW in \in Bodies, Create(a, in) PROVE UNCHANGED chan \/ Edits(a)
  <2>1. CASE Set(a, [pc |-> "profile", ch |-> nextChan])
    <3>1. op'[a].pc = "profile" /\ \A b \in Admins \ {a} : op'[b] = op[b]
      BY <1>0, <2>1
    <3> QED
      BY <1>2, <1>4, <3>1 DEF Create, Edits
  <2>2. CASE Set(a, Done("create", TRUE))
    BY <1>0, <1>2, <1>4, <2>2 DEF Create, Edits
  <2> QED
    BY <1>3, <1>4, <2>1, <2>2 DEF Create
<1>5. ASSUME WriteProfile(a) \/ SaveUpdate(a) PROVE UNCHANGED chan \/ Edits(a)
  BY <1>0, <1>1, <1>3, <1>5 DEF WriteProfile, SaveUpdate, Continues, Edits
<1>6. ASSUME NEW c \in 1..MaxChannels, Delete(a, c) PROVE UNCHANGED chan \/ SettingsKept
  BY <1>3, <1>6, RemovalKeeps DEF Delete, NotLoaded
<1>7. ASSUME Persist(a) PROVE UNCHANGED chan \/ SettingsKept
  BY <1>3, <1>7, ModelsAreNoSetting DEF Persist
<1>8. ASSUME \/ \E c \in 1..MaxChannels :
                  \/ \E in \in Bodies : ReadForUpdate(a, c, in)
                  \/ \E refresh \in BOOLEAN : ReadForFetch(a, c, refresh)
                  \/ \E up \in BOOLEAN : TestChannel(a, c, up)
                  \/ \E m \in Models, rate \in Rates : ReadForPrice(a, c, m, rate)
             \/ \E first, second \in Replies : List(a, first, second)
             \/ CacheModels(a) \/ InsertPrice(a) \/ SavePrice(a)
             \/ \E p \in 1..MaxPrices : DeletePrice(a, p)
      PROVE  UNCHANGED chan
  BY <1>3, <1>8 DEF ReadForUpdate, ReadForFetch, TestChannel, ReadForPrice, List,
                    CacheModels, InsertPrice, SavePrice, DeletePrice, NotLoaded, tables
<1> QED
  BY <1>4, <1>5, <1>6, <1>7, <1>8 DEF Step

(* A channel appears or changes in anything but its models only in a       *)
(* statement of Create or Update, whatever FetchModels, deletions and      *)
(* other administrators do meanwhile.                                      *)
THEOREM SettingsAreEdited == Spec => OnlyEditsChangeSettings
<1> DEFINE Edited ==
      \A c \in DOMAIN chan' :
       (c \in DOMAIN chan => Settings(chan'[c]) # Settings(chan[c]))
       => \E a \in Admins :
            /\ \A b \in Admins \ {a} : op'[b] = op[b]
            /\ \/ op[a].pc \in {"profile", "save"} /\ op'[a].pc = "done"
               \/ ops' # ops /\ (op'[a].pc = "profile" \/ op'[a] = Done("create", TRUE))
<1>1. RequestsInv /\ OpsInv /\ [Next]_vars => [Edited]_catalogVars
  <2> SUFFICES ASSUME RequestsInv, OpsInv, Next PROVE Edited \/ UNCHANGED catalogVars
    BY DEF vars
  <2>1. CASE SettingsKept \/ UNCHANGED chan
    BY <2>1 DEF SettingsKept
  <2>2. ASSUME NEW a \in Admins, Edits(a) PROVE Edited
    BY <2>2 DEF Edits
  <2>3. ASSUME NEW c \in 1..MaxChannels, Expire(c) PROVE UNCHANGED chan
    BY <2>3 DEF Expire
  <2>4. CASE TestStep /\ UNCHANGED <<tables, nextChan, nextPrice, op, wrote, ops>>
    BY <2>1, <2>4 DEF tables
  <2> QED
    BY <2>1, <2>2, <2>3, <2>4, EditsOnly DEF Next, CatalogNext
<1> QED
  BY <1>1, InitHonest, StepHonest, InitOps, StepOps, PTL DEF Spec, OnlyEditsChangeSettings

-----------------------------------------------------------------------------
(* Prices. *)

(* What has been stored, and what is about to be, is a price.              *)
PricesInv ==
  /\ OnePrice
  /\ \A p \in DOMAIN price : price[p].rate \in Rate
  /\ \A a \in Admins : op[a].pc \in {"insert", "update"} => op[a].row.rate \in Rate

(* A row that is written where no other row has its channel and model.     *)
LEMMA OnePriceWritten ==
  ASSUME OnePrice, NEW id, NEW row, price' = With(price, id, row),
         Priced(price, row.ch, row.model) \subseteq {id}
  PROVE  OnePrice'
BY DEF OnePrice, Priced, With

LEMMA RatesWritten ==
  ASSUME PricesInv, NEW id, NEW row, price' = With(price, id, row), row.rate \in Rate
  PROVE  (\A p \in DOMAIN price : price[p].rate \in Rate)'
BY DEF PricesInv, With

LEMMA PricesRemoved ==
  ASSUME PricesInv, NEW gone, price' = Without(price, gone)
  PROVE  OnePrice' /\ (\A p \in DOMAIN price : price[p].rate \in Rate)'
BY DEF PricesInv, OnePrice, Without, Restrict

(* The next statement of a request writes a row it has validated.          *)
Ready(x) == x.pc \in {"insert", "update"} => x.row.rate \in Rate

LEMMA StaysReady ==
  ASSUME RequestsInv, PricesInv, NEW a \in Admins, NEW x, Set(a, x), Ready(x),
         OnePrice', (\A p \in DOMAIN price : price[p].rate \in Rate)'
  PROVE  PricesInv'
BY DEF RequestsInv, PricesInv, Set, Ready

LEMMA StepPrices ==
  ASSUME RequestsInv, PricesInv, NEW a \in Admins, Step(a)
  PROVE  PricesInv'
<1> DEFINE Stored == (OnePrice /\ \A p \in DOMAIN price : price[p].rate \in Rate)'
<1>0. \A x : Set(a, x) /\ Ready(x) /\ Stored => PricesInv'
  BY StaysReady
<1>1. UNCHANGED price => Stored
  BY DEF PricesInv, OnePrice
<1>2. \A gone : price' = Without(price, gone) => Stored
  BY PricesRemoved
<1>3. \A id, row : /\ price' = With(price, id, row) /\ row.rate \in Rate
                   /\ Priced(price, row.ch, row.model) \subseteq {id}
                   => Stored
  BY OnePriceWritten, RatesWritten DEF PricesInv
<1>4. \A kind, ok : Ready(Done(kind, ok))
  BY DEF Ready, Done
<1>5. \A x : x.pc \notin {"insert", "update"} => Ready(x)
  BY DEF Ready
<1> HIDE DEF Stored
<1>6. \A kind : Refuses(a, kind) \/ Fails(a, kind) => PricesInv'
  BY <1>0, <1>1, <1>4 DEF Refuses, Fails, tables
<1>7. ASSUME InsertPrice(a) PROVE PricesInv'
  <2>1. op[a].row.rate \in Rate
    BY <1>7 DEF InsertPrice, Continues, PricesInv
  <2> QED
    BY <1>0, <1>3, <1>4, <1>6, <1>7, <2>1 DEF InsertPrice
<1>8. ASSUME SavePrice(a) PROVE PricesInv'
  <2>1. op[a].row.rate \in Rate
    BY <1>8 DEF SavePrice, Continues, PricesInv
  <2> QED
    BY <1>0, <1>3, <1>4, <1>6, <1>8, <2>1 DEF SavePrice
<1>9. ASSUME NEW c \in 1..MaxChannels, NEW m \in Models, NEW rate \in Rates,
             ReadForPrice(a, c, m, rate)
      PROVE  PricesInv'
  <2> DEFINE row == [ch |-> c, model |-> m, rate |-> rate]
             found == Priced(price, c, m)
             inserting == [pc |-> "insert", row |-> row]
             updating == [pc |-> "update", row |-> row, id |-> CHOOSE p \in found : TRUE]
  <2>1. RateAccepted(rate) => rate \in Rate
    BY RatesAssumption DEF RateAccepted, Positive, Rate
  <2>2. CASE RateAccepted(rate) /\ (Set(a, inserting) \/ Set(a, updating)) /\ UNCHANGED price
    <3>1. Ready(inserting) /\ Ready(updating)
      BY <2>1, <2>2 DEF Ready
    <3> QED
      BY <1>0, <1>1, <2>2, <3>1
  <2> QED
    BY <1>6, <1>9, <2>2 DEF ReadForPrice, tables
<1>10. ASSUME NEW p \in 1..MaxPrices, DeletePrice(a, p) PROVE PricesInv'
  BY <1>0, <1>2, <1>4, <1>6, <1>10 DEF DeletePrice
<1>11. ASSUME NEW c \in 1..MaxChannels, Delete(a, c) PROVE PricesInv'
  BY <1>0, <1>2, <1>4, <1>6, <1>11 DEF Delete, NotLoaded
<1>12. CASE \E x : x.pc \notin {"insert", "update"} /\ Set(a, x) /\ UNCHANGED price
  BY <1>0, <1>1, <1>5, <1>12
<1>13. \A kind, ok : Done(kind, ok).pc \notin {"insert", "update"}
  BY DEF Done
<1>14. ASSUME \/ \E in \in Bodies : Create(a, in)
              \/ WriteProfile(a) \/ SaveUpdate(a)
       PROVE  PricesInv'
  BY <1>6, <1>12, <1>13, <1>14 DEF Create, WriteProfile, SaveUpdate
<1>15. ASSUME NEW c \in 1..MaxChannels,
              \/ \E in \in Bodies : ReadForUpdate(a, c, in)
              \/ \E refresh \in BOOLEAN : ReadForFetch(a, c, refresh)
              \/ \E up \in BOOLEAN : TestChannel(a, c, up)
       PROVE  PricesInv'
  BY <1>6, <1>12, <1>13, <1>15
     DEF ReadForUpdate, ReadForFetch, TestChannel, NotLoaded, tables
<1>16. ASSUME NEW first \in Replies, NEW second \in Replies, List(a, first, second)
       PROVE  PricesInv'
  BY <1>12, <1>13, <1>16 DEF List, tables
<1>17. ASSUME Persist(a) \/ CacheModels(a) PROVE PricesInv'
  BY <1>6, <1>12, <1>13, <1>17 DEF Persist, CacheModels
<1> QED
  BY <1>7, <1>8, <1>9, <1>10, <1>11, <1>14, <1>15, <1>16, <1>17 DEF Step

LEMMA PricesKept ==
  ASSUME PricesInv, UNCHANGED <<price, op>>
  PROVE  PricesInv'
BY DEF PricesInv, OnePrice

(* The catalog, in any step of the system.                                 *)
CatalogInv == RequestsInv /\ OpsInv /\ PricesInv

LEMMA InitCatalog == Init => CatalogInv
BY InitHonest, InitOps
   DEF Init, CatalogInit, CatalogInv, PricesInv, OnePrice, Idle

LEMMA StepCatalog == CatalogInv /\ [Next]_vars => CatalogInv'
<1> SUFFICES ASSUME CatalogInv, [Next]_vars PROVE PricesInv'
  BY StepHonest, StepOps DEF CatalogInv
<1>1. ASSUME NEW c \in 1..MaxChannels, Expire(c) PROVE UNCHANGED <<price, op>>
  BY <1>1 DEF Expire
<1>2. CASE UNCHANGED vars
  BY <1>2, PricesKept DEF vars, catalogVars, tables, CatalogInv
<1>3. CASE UNCHANGED <<tables, nextChan, nextPrice, op, wrote, ops>>
  BY <1>3, PricesKept DEF tables, CatalogInv
<1> QED
  BY <1>1, <1>2, <1>3, PricesKept, StepPrices DEF Next, CatalogNext, CatalogInv

(* A channel's model never has two prices, although two administrators may *)
(* set it at the same time and a price may be deleted under an update.     *)
THEOREM PriceIsUnique == Spec => []OnePrice
<1>1. CatalogInv => OnePrice
  BY DEF CatalogInv, PricesInv
<1> QED
  BY <1>1, InitCatalog, StepCatalog, PTL DEF Spec

-----------------------------------------------------------------------------
(* What the upstream reported. *)

Counts == {"prompt", "completion", "read", "write"}

LEMMA NothingReported == \A k : LastOf(<<>>, k) = 0
BY DEF LastOf

(* A count that is not zero replaces the one before.                       *)
LEMMA LastOfAppend ==
  ASSUME NEW said \in Seq(Usage), NEW u \in Usage, NEW k \in Counts
  PROVE  LastOf(Append(said, u), k) = IF u[k] # 0 THEN u[k] ELSE LastOf(said, k)
<1> DEFINE more == Append(said, u)
           told == {i \in DOMAIN said : said[i][k] # 0}
           toldMore == {i \in DOMAIN more : more[i][k] # 0}
           n == Len(said) + 1
<1>1. /\ DOMAIN more = 1..n /\ DOMAIN said = 1..(n - 1) /\ n \in Nat
      /\ more[n] = u /\ \A i \in 1..(n - 1) : more[i] = said[i]
  OBVIOUS
<1>2. CASE u[k] # 0
  <2>1. n \in toldMore /\ \A j \in toldMore : j <= n
    BY <1>1, <1>2
  <2>2. \A i \in toldMore : (\A j \in toldMore : j <= i) => i = n
    BY <1>1, <2>1
  <2>3. Max(toldMore) = n
    BY <2>1, <2>2, <1>1 DEF Max
  <2>4. LastOf(more, k) = more[n][k]
    BY <2>1, <2>3 DEF LastOf
  <2> QED
    BY <1>1, <1>2, <2>4
<1>3. CASE u[k] = 0
  <2>1. toldMore = told /\ \A i \in told : more[i] = said[i]
    BY <1>1, <1>3
  <2>2. LastOf(more, k) = IF told = {} THEN 0 ELSE more[Max(told)][k]
    BY <2>1 DEF LastOf
  <2>3. ASSUME told # {} PROVE Max(told) \in told
    <3>1. told \subseteq 0 .. n
      BY <1>1
    <3> HIDE DEF told
    <3> QED
      BY <1>1, <2>3, <3>1, Greatest DEF Max
  <2> QED
    BY <1>3, <2>1, <2>2, <2>3 DEF LastOf
<1> QED
  BY <1>2, <1>3

-----------------------------------------------------------------------------
(* The test chat. *)

(* Nothing has gone wrong yet, and nothing but usage has been recorded.    *)
Sound(t) == t.status = "success" /\ t.http = 200 /\ ~ t.broke /\ t.note = "none"

(* The counts are what the upstream reported, with estimate more tokens.   *)
UsageIs(u, said, estimate) ==
  /\ u \in Usage
  /\ u.prompt = LastOf(said, "prompt")
  /\ u.completion = LastOf(said, "completion") + estimate
  /\ u.read = LastOf(said, "read") /\ u.write = LastOf(said, "write")

Estimate == IF heard = <<>> /\ test.text THEN 1 ELSE 0

(* What the fields of a test say of the call, statement by statement.      *)
Asked ==
  test.pc = "price" => /\ Sound(test) /\ heard = <<>> /\ ~ test.text /\ test.usage = None
                       /\ ~ test.reported
Called ==
  test.pc = "call" => /\ Sound(test) /\ heard = <<>> /\ ~ test.text /\ test.usage = None
                      /\ ~ test.reported
Pumping ==
  test.pc = "pump" => /\ Sound(test) /\ test.sent = 200 /\ UsageIs(test.usage, heard, 0)
                      /\ test.reported <=> heard # <<>>
Ending ==
  test.pc = "log" => /\ UsageIs(test.usage, heard, Estimate)
                     /\ test.status \in {"success", "error"}
                     /\ test.status = "error" <=> test.broke
                     /\ test.http # test.sent => test.broke /\ test.sent = 200

IsAttempt(t) ==
  DOMAIN t = {"pc", "ch", "model", "stream", "rate", "status", "http", "sent", "usage",
              "reported", "text", "note", "broke"}

UnderWay == {"price", "call", "pump", "log"}

TestInv ==
  /\ heard \in Seq(Usage)
  /\ test.pc \in UnderWay \cup {"idle", "done"}
  /\ test.pc = "idle" => heard = <<>>
  /\ test.pc \in UnderWay => IsAttempt(test) /\ test.rate \in Rate
  /\ test.pc # "done" => log = <<>>
  /\ Asked /\ Called /\ Pumping /\ Ending
  /\ TestIsLogged

(* Rounded up to the next unit, and never below zero.                      *)
Units(spent) == IF spent <= 0 THEN 0 ELSE (spent + Million - 1) \div Million

LEMMA RoundedUp ==
  ASSUME NEW spent \in Int
  PROVE  /\ Units(spent) >= 0 /\ spent <= Units(spent) * Million
         /\ Units(spent) > 0 => (Units(spent) - 1) * Million < spent
<1>1. CASE spent <= 0
  BY <1>1, MillionAssumption DEF Units
<1>2. CASE spent > 0
  <2> DEFINE cost == (spent + Million - 1) \div Million
  <2>1. cost \in Nat /\ spent <= cost * Million /\ (cost - 1) * Million < spent
    BY <1>2, MillionAssumption
  <2> QED
    BY <1>2, <2>1 DEF Units
<1> QED
  BY <1>1, <1>2

LEMMA ProductsAreNumbers == \A m, n \in Int : m * n \in Int
OBVIOUS

(* The cost of the row is that of the reported counts.                     *)
LEMMA CostOfReported ==
  ASSUME NEW rate \in Rate, NEW u, UsageIs(u, heard, Estimate)
  PROVE  /\ Cost(rate, u) >= 0 /\ Spent(rate) <= Cost(rate, u) * Million
         /\ Cost(rate, u) > 0 => (Cost(rate, u) - 1) * Million < Spent(rate)
<1>1. u.prompt \in Int /\ u.completion \in Int /\ u.read \in Int /\ u.write \in Int
  BY DEF UsageIs, Usage
<1>2. rate.input \in Int /\ rate.output \in Int /\ rate.read \in Int /\ rate.write \in Int
  BY DEF Rate
<1> DEFINE spent == u.prompt * rate.input + u.completion * rate.output
                      + u.read * rate.read + u.write * rate.write
<1>3. spent \in Int
  <2> DEFINE a == u.prompt * rate.input
             b == u.completion * rate.output
             c == u.read * rate.read
             d == u.write * rate.write
  <2>1. a \in Int /\ b \in Int /\ c \in Int /\ d \in Int
    BY <1>1, <1>2, ProductsAreNumbers
  <2> HIDE DEF a, b, c, d
  <2>2. a + b + c + d \in Int
    BY <2>1
  <2> QED
    BY <2>2 DEF a, b, c, d
<1>4. Spent(rate) = spent
  BY DEF Spent, UsageIs, Estimate, Reported
<1>5. Cost(rate, u) = Units(spent)
  BY DEF Cost, Units
<1> HIDE DEF spent
<1> QED
  BY <1>3, <1>4, <1>5, RoundedUp

LEMMA NoneIsReported == UsageIs(None, <<>>, 0)
BY NothingReported DEF UsageIs, None, Usage

(* The price found is a price. *)
LEMMA LookupIsRate == ASSUME PricesInv, NEW c, NEW m PROVE Lookup(c, m) \in Rate
<1>1. Free \in Rate
  BY DEF Free, Rate
<1> DEFINE found == {p \in Priced(price, c, m) : Positive(price[p].rate)}
<1>2. found \subseteq DOMAIN price
  BY DEF Priced
<1>3. CASE found # {}
  <2>1. (CHOOSE p \in found : TRUE) \in DOMAIN price
    BY <1>2, <1>3
  <2> QED
    BY <1>3, <2>1 DEF Lookup, PricesInv
<1> QED
  BY <1>1, <1>3 DEF Lookup

LEMMA InitTest == Init => TestInv
BY DEF Init, NoTest, TestInv, UnderWay, Asked, Called, Pumping, Ending, TestIsLogged

(* A test that fails is an attempt with an outcome. *)
LEMMA FailedEnds ==
  ASSUME TestInv, test.pc \in {"price", "call"}, NEW code, test' = Failed(test, code),
         UNCHANGED <<heard, log>>
  PROVE  TestInv'
<1>1. IsAttempt(test) /\ test.rate \in Rate /\ heard = <<>> /\ ~ test.text
      /\ test.usage = None /\ log = <<>>
  BY DEF TestInv, UnderWay, Asked, Called
<1>2. /\ IsAttempt(test') /\ test'.pc = "log" /\ test'.rate = test.rate
      /\ test'.status = "error" /\ test'.broke /\ test'.http = code /\ test'.sent = code
      /\ test'.usage = test.usage /\ test'.text = test.text
  BY <1>1 DEF Failed, IsAttempt
<1>3. (heard = <<>>)' /\ UsageIs(test.usage, heard, Estimate)'
  BY <1>1, <1>2, NoneIsReported DEF UsageIs, Estimate, Reported
<1> QED
  BY <1>1, <1>2, <1>3 DEF TestInv, UnderWay, Asked, Called, Pumping, Ending, TestIsLogged

LEMMA AskStep ==
  ASSUME TestInv, NEW c, NEW asked, NEW s, Ask(c, asked, s)
  PROVE  TestInv'
<1>1. heard = <<>> /\ log = <<>> /\ UNCHANGED <<heard, log>>
  BY DEF Ask, TestInv
<1>2. CASE \E code : test' = Answered(code)
  <2>1. test'.pc = "done" /\ ~ test'.attempted
    BY <1>2 DEF Answered
  <2> QED
    BY <1>1, <2>1 DEF TestInv, UnderWay, Asked, Called, Pumping, Ending, TestIsLogged,
                      LoggedOnce
<1>3. CASE \E m : test' = Attempt(c, m, s)
  <2>1. /\ IsAttempt(test') /\ test'.pc = "price" /\ Sound(test') /\ ~ test'.text
        /\ test'.usage = None /\ test'.rate \in Rate /\ ~ test'.reported
    BY <1>3 DEF Attempt, IsAttempt, Sound, Free, Rate
  <2> QED
    BY <1>1, <2>1 DEF TestInv, UnderWay, Asked, Called, Pumping, Ending, TestIsLogged
<1> QED
  BY <1>2, <1>3 DEF Ask

LEMMA PriceGateStep ==
  ASSUME TestInv, PricesInv, PriceGate
  PROVE  TestInv'
<1>1. CASE test' = Failed(test, 500)
  BY <1>1, FailedEnds DEF PriceGate
<1>2. CASE test' = [test EXCEPT !.rate = Lookup(test.ch, test.model), !.pc = "call"]
  <2>1. IsAttempt(test) /\ Sound(test) /\ heard = <<>> /\ ~ test.text /\ test.usage = None
        /\ log = <<>> /\ ~ test.reported
    BY DEF PriceGate, TestInv, UnderWay, Asked
  <2>2. /\ IsAttempt(test') /\ test'.pc = "call" /\ Sound(test') /\ ~ test'.text
        /\ test'.usage = None /\ test'.reported = test.reported
        /\ test'.rate = Lookup(test.ch, test.model)
    BY <1>2, <2>1 DEF IsAttempt, Sound
  <2> QED
    BY <2>1, <2>2, LookupIsRate
       DEF PriceGate, TestInv, UnderWay, Asked, Called, Pumping, Ending, TestIsLogged
<1> QED
  BY <1>1, <1>2 DEF PriceGate

LEMMA CallFailsStep ==
  ASSUME TestInv, CallFails
  PROVE  TestInv'
BY FailedEnds DEF CallFails

LEMMA CallStarted ==
  ASSUME TestInv, test.pc = "call"
  PROVE  /\ IsAttempt(test) /\ test.rate \in Rate /\ Sound(test) /\ ~ test.text
         /\ test.usage = None /\ ~ test.reported /\ heard = <<>> /\ log = <<>>
BY DEF TestInv, UnderWay, Called

(* One more usage: its counts are the last ones that are not zero. *)
LEMMA OneMoreUsage ==
  ASSUME NEW said \in Seq(Usage), NEW u \in Usage, NEW v, UsageIs(v, said, 0)
  PROVE  /\ Append(said, u) \in Seq(Usage) /\ Append(said, u) # <<>>
         /\ UsageIs(MergeUsage(v, u), Append(said, u), 0)
<1>1. Append(said, u) \in Seq(Usage) /\ Append(said, u) # <<>>
  <2>1. Append(said, u) \in Seq(Usage) /\ Len(Append(said, u)) = Len(said) + 1
    OBVIOUS
  <2>2. Len(said) + 1 # 0 /\ Len(<<>>) = 0
    OBVIOUS
  <2> QED
    BY <2>1, <2>2
<1>2. \A k \in Counts : LastOf(Append(said, u), k) = IF u[k] # 0 THEN u[k] ELSE LastOf(said, k)
  BY LastOfAppend
<1>3. DOMAIN v = Counts /\ \A k \in Counts : u[k] \in Int /\ v[k] \in Int
  BY DEF UsageIs, Usage, Counts
<1> DEFINE w == MergeUsage(v, u)
<1>4. w = [k \in Counts |-> IF u[k] # 0 THEN u[k] ELSE v[k]]
  BY <1>3 DEF MergeUsage
<1>5. w \in Usage
  BY <1>3, <1>4 DEF Usage, Counts
<1>6. \A k \in Counts : w[k] = IF u[k] # 0 THEN u[k] ELSE v[k]
  BY <1>4
<1> HIDE DEF w
<1>7. UsageIs(w, Append(said, u), 0)
  <2>1. /\ v.prompt = LastOf(said, "prompt") /\ v.completion = LastOf(said, "completion") + 0
        /\ v.read = LastOf(said, "read") /\ v.write = LastOf(said, "write")
    BY DEF UsageIs
  <2>2. "prompt" \in Counts /\ "completion" \in Counts /\ "read" \in Counts /\ "write" \in Counts
    BY DEF Counts
  <2>3. /\ w.prompt = LastOf(Append(said, u), "prompt")
        /\ w.read = LastOf(Append(said, u), "read")
        /\ w.write = LastOf(Append(said, u), "write")
    BY <1>2, <1>6, <2>1, <2>2
  <2>4. w.completion = LastOf(Append(said, u), "completion") + 0
    BY <1>2, <1>3, <1>6, <2>1, <2>2
  <2> QED
    BY <1>5, <2>3, <2>4 DEF UsageIs
<1> QED
  BY <1>1, <1>7 DEF w

LEMMA AnswerStep ==
  ASSUME TestInv, NEW u \in Usages, Answer(u)
  PROVE  TestInv'
<1>1. /\ IsAttempt(test) /\ test.rate \in Rate /\ Sound(test) /\ ~ test.text
      /\ test.usage = None /\ heard = <<>> /\ log = <<>> /\ u \in Usage
  BY CallStarted, UsageAssumption DEF Answer
<1>2. /\ IsAttempt(test') /\ test'.pc = "log" /\ test'.rate = test.rate /\ Sound(test')
      /\ test'.sent = 200 /\ test'.usage = u
  BY <1>1 DEF Answer, IsAttempt, Sound
<1>3. /\ heard' \in Seq(Usage) /\ heard' # <<>>
      /\ UsageIs(MergeUsage(None, u), heard', 0)
  <2>1. heard' = Append(heard, u) /\ UsageIs(None, heard, 0) /\ heard \in Seq(Usage)
    BY <1>1, NoneIsReported DEF Answer, TestInv
  <2> QED
    BY <1>1, <2>1, OneMoreUsage
<1>4. MergeUsage(None, u) = u
  BY <1>1 DEF MergeUsage, None, Usage
<1>5. UsageIs(test.usage, heard, Estimate)'
  BY <1>2, <1>3, <1>4 DEF UsageIs, Estimate
<1> QED
  BY <1>1, <1>2, <1>3, <1>5
     DEF Answer, TestInv, UnderWay, Asked, Called, Pumping, Ending, TestIsLogged, Sound

LEMMA OpenStreamStep ==
  ASSUME TestInv, OpenStream
  PROVE  TestInv'
<1>1. /\ IsAttempt(test) /\ test.rate \in Rate /\ Sound(test) /\ test.usage = None
      /\ ~ test.reported /\ heard = <<>> /\ log = <<>>
  BY CallStarted DEF OpenStream
<1>2. /\ IsAttempt(test') /\ test'.pc = "pump" /\ test'.rate = test.rate /\ Sound(test')
      /\ test'.sent = 200 /\ test'.usage = None /\ ~ test'.reported
  BY <1>1 DEF OpenStream, IsAttempt, Sound
<1>3. UsageIs(test.usage, heard, 0)'
  BY <1>1, <1>2, NoneIsReported DEF OpenStream, UsageIs, Reported
<1> QED
  BY <1>1, <1>2, <1>3
     DEF OpenStream, TestInv, UnderWay, Asked, Called, Pumping, Ending, TestIsLogged

LEMMA PumpStarted ==
  ASSUME TestInv, test.pc = "pump"
  PROVE  /\ IsAttempt(test) /\ test.rate \in Rate /\ Sound(test) /\ test.sent = 200
         /\ UsageIs(test.usage, heard, 0) /\ (test.reported <=> heard # <<>>) /\ log = <<>>
         /\ heard \in Seq(Usage)
BY DEF TestInv, UnderWay, Pumping

LEMMA PumpTextStep ==
  ASSUME TestInv, PumpText
  PROVE  TestInv'
<1>1. /\ IsAttempt(test) /\ test.rate \in Rate /\ Sound(test) /\ test.sent = 200
      /\ UsageIs(test.usage, heard, 0) /\ (test.reported <=> heard # <<>>) /\ log = <<>>
  BY PumpStarted DEF PumpText
<1>2. /\ IsAttempt(test') /\ test'.pc = "pump" /\ test'.rate = test.rate /\ Sound(test')
      /\ test'.sent = 200 /\ test'.usage = test.usage /\ test'.reported = test.reported
  BY <1>1 DEF PumpText, IsAttempt, Sound
<1>3. UsageIs(test.usage, heard, 0)'
  BY <1>1, <1>2 DEF PumpText, UsageIs, Reported
<1> QED
  BY <1>1, <1>2, <1>3
     DEF PumpText, TestInv, UnderWay, Asked, Called, Pumping, Ending, TestIsLogged

LEMMA PumpUsageStep ==
  ASSUME TestInv, NEW u \in Usages, PumpUsage(u)
  PROVE  TestInv'
<1>1. /\ IsAttempt(test) /\ test.rate \in Rate /\ Sound(test) /\ test.sent = 200
      /\ UsageIs(test.usage, heard, 0) /\ log = <<>> /\ heard \in Seq(Usage) /\ u \in Usage
  BY PumpStarted, UsageAssumption DEF PumpUsage
<1>2. /\ IsAttempt(test') /\ test'.pc = "pump" /\ test'.rate = test.rate /\ Sound(test')
      /\ test'.sent = 200 /\ test'.usage = MergeUsage(test.usage, u) /\ test'.reported
  BY <1>1 DEF PumpUsage, IsAttempt, Sound
<1>3. /\ heard' \in Seq(Usage) /\ heard' # <<>>
      /\ UsageIs(MergeUsage(test.usage, u), heard', 0)
  <2>1. heard' = Append(heard, u)
    BY DEF PumpUsage
  <2> QED
    BY <1>1, <2>1, OneMoreUsage
<1> QED
  BY <1>1, <1>2, <1>3
     DEF PumpUsage, TestInv, UnderWay, Asked, Called, Pumping, Ending, TestIsLogged

(* The end of a stream keeps the outcome and estimates what was not        *)
(* reported.                                                               *)
LEMMA SettledEnds ==
  ASSUME TestInv, test.pc = "pump", NEW t, IsAttempt(t), test' = Settled(t),
         UNCHANGED <<heard, log>>, t.rate = test.rate, t.usage = test.usage,
         t.reported = test.reported, t.text = test.text, t.sent = test.sent,
         \/ t.status = "error" /\ t.broke
         \/ t.status = "success" /\ ~ t.broke /\ t.http = 200
  PROVE  TestInv'
<1>1. /\ test.rate \in Rate /\ test.sent = 200 /\ UsageIs(test.usage, heard, 0)
      /\ (test.reported <=> heard # <<>>) /\ log = <<>>
  BY PumpStarted
<1>2. /\ IsAttempt(test') /\ test'.pc = "log" /\ test'.rate = t.rate /\ test'.sent = t.sent
      /\ test'.status = t.status /\ test'.broke = t.broke /\ test'.http = t.http
      /\ test'.text = t.text
      /\ test'.usage = [t.usage EXCEPT !.completion = IF ~ t.reported /\ t.text THEN 1 ELSE @]
  BY DEF Settled, IsAttempt
<1>3. UsageIs(test.usage, heard, Estimate)'
  <2>1. CASE heard = <<>> /\ test.text
    <3>1. test'.usage = [test.usage EXCEPT !.completion = 1]
      BY <1>1, <1>2, <2>1
    <3>2. Estimate' = 1 /\ heard' = <<>>
      BY <1>2, <2>1 DEF Estimate
    <3>3. test.usage \in Usage /\ UsageIs(test.usage, <<>>, 0)
      BY <1>1, <2>1 DEF UsageIs
    <3>4. /\ test'.usage \in Usage /\ test'.usage.completion = 1
          /\ test'.usage.prompt = test.usage.prompt /\ test'.usage.read = test.usage.read
          /\ test'.usage.write = test.usage.write
      BY <3>1, <3>3 DEF Usage
    <3>5. LastOf(<<>>, "completion") + 1 = 1
      BY NothingReported
    <3>6. UsageIs(test'.usage, <<>>, 1)
      BY <3>3, <3>4, <3>5 DEF UsageIs
    <3> QED
      BY <3>2, <3>6
  <2>2. CASE ~ (heard = <<>> /\ test.text)
    <3>1. test'.usage = test.usage
      BY <1>1, <1>2, <2>2 DEF UsageIs, Usage
    <3>2. Estimate' = 0 /\ heard' = heard
      BY <1>2, <2>2 DEF Estimate
    <3> QED
      BY <1>1, <3>1, <3>2 DEF UsageIs
  <2> QED
    BY <2>1, <2>2
<1> QED
  BY <1>1, <1>2, <1>3 DEF TestInv, UnderWay, Asked, Called, Pumping, Ending, TestIsLogged

LEMMA PumpEndsStep ==
  ASSUME TestInv, PumpEnds \/ PumpFails
  PROVE  TestInv'
<1>1. /\ test.pc = "pump" /\ IsAttempt(test) /\ Sound(test) /\ UNCHANGED <<heard, log>>
  BY PumpStarted DEF PumpEnds, PumpFails
<1>2. CASE PumpEnds
  BY <1>1, <1>2, SettledEnds DEF PumpEnds, Sound
<1>3. CASE PumpFails
  <2>1. PICK code : test' = Settled([test EXCEPT !.status = "error", !.http = code,
                                                !.broke = TRUE])
    BY <1>3 DEF PumpFails
  <2> DEFINE t == [test EXCEPT !.status = "error", !.http = code, !.broke = TRUE]
  <2>2. /\ IsAttempt(t) /\ t.rate = test.rate /\ t.usage = test.usage
        /\ t.reported = test.reported /\ t.text = test.text /\ t.sent = test.sent
        /\ t.status = "error" /\ t.broke
    BY <1>1 DEF IsAttempt
  <2>3. test' = Settled(t)
    BY <2>1
  <2> HIDE DEF t
  <2> QED
    BY <1>1, <2>2, <2>3, SettledEnds
<1> QED
  BY <1>2, <1>3

(* The row written at the end tells what the test has been. *)
LEMMA RowTells ==
  ASSUME NEW t, t.rate \in Rate, UsageIs(t.usage, heard, Estimate),
         t.status \in {"success", "error"}, t.status = "error" <=> t.broke,
         t.http # t.sent => t.broke /\ t.sent = 200
  PROVE  /\ Row(t).status = "error" <=> t.broke
         /\ Row(t).http # t.sent => t.broke /\ t.sent = 200
         /\ IF t.broke \/ t.rate = Free
              THEN Row(t).cost = NoCost
              ELSE /\ Row(t).cost >= 0 /\ Spent(t.rate) <= Row(t).cost * Million
                   /\ Row(t).cost > 0 => (Row(t).cost - 1) * Million < Spent(t.rate)
<1>1. /\ Row(t).status = t.status /\ Row(t).http = t.http
      /\ Row(t).cost = IF t.rate # Free /\ t.status = "success"
                         THEN Cost(t.rate, t.usage) ELSE NoCost
  BY DEF Row
<1>2. LET cost == Cost(t.rate, t.usage)
      IN /\ cost >= 0 /\ Spent(t.rate) <= cost * Million
         /\ cost > 0 => (cost - 1) * Million < Spent(t.rate)
  BY CostOfReported
<1> QED
  BY <1>1, <1>2

LEMMA WriteTestLogStep ==
  ASSUME TestInv, WriteTestLog
  PROVE  TestInv'
<1>1. /\ test.rate \in Rate /\ UsageIs(test.usage, heard, Estimate) /\ log = <<>>
      /\ test.status \in {"success", "error"} /\ (test.status = "error" <=> test.broke)
      /\ (test.http # test.sent => test.broke /\ test.sent = 200) /\ heard' = heard
  BY DEF WriteTestLog, TestInv, UnderWay, Ending
<1>2. /\ test'.pc = "done" /\ test'.attempted /\ test'.lost = (log' = log)
      /\ test'.rate = test.rate /\ test'.text = test.text /\ test'.broke = test.broke
      /\ test'.sent = test.sent
  BY DEF WriteTestLog, Logged
<1>3. log' = <<>> \/ log' = <<Row(test)>>
  BY <1>1 DEF WriteTestLog
<1>4. LoggedOnce'
  BY <1>1, <1>2, <1>3 DEF LoggedOnce
<1>5. Spent(test.rate)' = Spent(test.rate)
  BY <1>1, <1>2 DEF Spent, Reported
<1>6. CASE log' = <<Row(test)>>
  <2>1. log'[1] = Row(test)
    BY <1>6
  <2>2. LoggedAsAnswered(log[1])'
    BY <1>1, <1>2, <2>1, RowTells DEF LoggedAsAnswered
  <2>3. LoggedAtCost(log[1])'
    BY <1>1, <1>2, <1>5, <2>1, RowTells DEF LoggedAtCost
  <2> QED
    BY <1>1, <1>2, <1>4, <2>2, <2>3
       DEF TestInv, UnderWay, Asked, Called, Pumping, Ending, TestIsLogged
<1>7. CASE log' = <<>>
  BY <1>1, <1>2, <1>4, <1>7
     DEF TestInv, UnderWay, Asked, Called, Pumping, Ending, TestIsLogged
<1> QED
  BY <1>3, <1>6, <1>7

LEMMA StepTest == TestInv /\ CatalogInv /\ [Next]_vars => TestInv'
<1> SUFFICES ASSUME TestInv, CatalogInv, [Next]_vars PROVE TestInv'
  OBVIOUS
<1>1. CASE UNCHANGED testVars
  <2>1. (Asked /\ Called /\ Pumping /\ Ending)' /\ Estimate' = Estimate
    BY <1>1 DEF testVars, TestInv, Asked, Called, Pumping, Ending, Estimate
  <2>2. TestIsLogged'
    BY <1>1 DEF testVars, TestInv, TestIsLogged, LoggedOnce, LoggedAsAnswered, LoggedAtCost,
                Spent, Reported
  <2> QED
    BY <1>1, <2>1, <2>2 DEF testVars, TestInv
<1>2. CASE TestStep
  BY <1>2, AskStep, PriceGateStep, CallFailsStep, AnswerStep, OpenStreamStep, PumpTextStep,
     PumpUsageStep, PumpEndsStep, WriteTestLogStep
     DEF TestStep, CatalogInv
<1> QED
  BY <1>1, <1>2 DEF Next, vars

(* A finished test has exactly one row unless the store refused it, which  *)
(* names the outcome and what the reported tokens cost at the price found  *)
(* when the test began, whichever exit the handler took, in however many   *)
(* parts the usage arrived, and whatever administrators did meanwhile.     *)
THEOREM TestsAreLogged == Spec => []TestIsLogged
<1>1. TestInv => TestIsLogged
  BY DEF TestInv
<1> QED
  BY <1>1, InitCatalog, InitTest, StepCatalog, StepTest, PTL DEF Spec
-----------------------------------------------------------------------------
(* Model lists. *)

(* The ids of the first n entries that are wanted, for every n up to most. *)
Collects(ids, most, entries, wanted) ==
  ids = [n \in 0..most |->
          IF n = 0 THEN <<>>
          ELSE IF entries[n] \in wanted THEN Append(ids[n - 1], entries[n].id)
          ELSE ids[n - 1]]

(* The recursion of IdsOf has a solution. *)
LEMMA CollectionsExist ==
  ASSUME NEW entries, NEW wanted
  PROVE  \A most \in Nat : \E ids : Collects(ids, most, entries, wanted)
<1> DEFINE P == {most \in Nat : \E ids : Collects(ids, most, entries, wanted)}
<1>1. 0 \in P
  <2>1. Collects([n \in 0..0 |-> <<>>], 0, entries, wanted)
    BY DEF Collects
  <2> QED
    BY <2>1
<1>2. ASSUME NEW most \in Nat, most \in P PROVE most + 1 \in P
  <2>1. PICK ids : Collects(ids, most, entries, wanted)
    BY <1>2
  <2> DEFINE next == IF entries[most + 1] \in wanted
                       THEN Append(ids[most], entries[most + 1].id) ELSE ids[most]
             more == [n \in 0..(most + 1) |-> IF n = most + 1 THEN next ELSE ids[n]]
  <2>2. /\ more[most + 1] = next /\ \A n \in 0..most : more[n] = ids[n]
        /\ more = [n \in 0..(most + 1) |-> more[n]]
    OBVIOUS
  <2>3. \A n \in 0..most :
          ids[n] = IF n = 0 THEN <<>>
                   ELSE IF entries[n] \in wanted THEN Append(ids[n - 1], entries[n].id)
                   ELSE ids[n - 1]
    BY <2>1 DEF Collects
  <2>4. more[most + 1] = IF entries[most + 1] \in wanted
                           THEN Append(more[most], entries[most + 1].id) ELSE more[most]
    BY <2>2
  <2> HIDE DEF next, more
  <2>5. \A n \in 0..(most + 1) :
          more[n] = IF n = 0 THEN <<>>
                    ELSE IF entries[n] \in wanted THEN Append(more[n - 1], entries[n].id)
                    ELSE more[n - 1]
    <3> TAKE n \in 0..(most + 1)
    <3>1. CASE n = most + 1
      <4>1. n # 0 /\ n - 1 = most
        BY <3>1
      <4> QED
        BY <2>4, <3>1, <4>1
    <3>2. CASE n = 0
      <4>1. 0 \in 0..most
        OBVIOUS
      <4> QED
        BY <2>2, <2>3, <3>2, <4>1
    <3>3. CASE n # 0 /\ n # most + 1
      <4>1. n \in 0..most /\ n - 1 \in 0..most
        BY <3>3
      <4> QED
        BY <2>2, <2>3, <3>3, <4>1
    <3> QED
      BY <3>1, <3>2, <3>3
  <2>6. Collects(more, most + 1, entries, wanted)
    BY <2>2, <2>5 DEF Collects
  <2> QED
    BY <2>6
<1> HIDE DEF P
<1>3. Nat \subseteq P
  BY <1>1, <1>2, NumberInduction
<1> QED
  BY <1>3 DEF P

(* A list of ids holds ids of wanted entries, and nothing else.            *)
LEMMA IdsAreWanted ==
  ASSUME NEW entries, Len(entries) \in Nat, NEW wanted, NEW S,
         \A i \in 1..Len(entries) : entries[i] \in wanted => entries[i].id \in S
  PROVE  IdsOf(entries, wanted) \in Seq(S)
<1> DEFINE most == Len(entries)
           ids == CHOOSE ids : Collects(ids, most, entries, wanted)
           P == {n \in Nat : n <= most => ids[n] \in Seq(S)}
<1>0. most \in Nat
  OBVIOUS
<1>1. Collects(ids, most, entries, wanted)
  <2>1. \E c : Collects(c, most, entries, wanted)
    BY <1>0, CollectionsExist
  <2> QED
    BY <2>1
<1>2. IdsOf(entries, wanted) = ids[most]
  BY DEF IdsOf, Collects
<1> HIDE DEF ids
<1>3. \A n \in 0..most :
        ids[n] = IF n = 0 THEN <<>>
                 ELSE IF entries[n] \in wanted THEN Append(ids[n - 1], entries[n].id)
                 ELSE ids[n - 1]
  BY <1>1 DEF Collects
<1>4. 0 \in P
  <2>1. ids[0] = <<>>
    BY <1>0, <1>3
  <2>2. <<>> \in Seq(S)
    OBVIOUS
  <2> QED
    BY <2>1, <2>2
<1>5. ASSUME NEW n \in Nat, n \in P PROVE n + 1 \in P
  <2>1. CASE n + 1 <= most
    <3>1. n + 1 \in 0..most /\ n + 1 # 0 /\ (n + 1) - 1 = n /\ n + 1 \in 1..most
      BY <1>0, <2>1
    <3>2. ids[n + 1] = IF entries[n + 1] \in wanted
                         THEN Append(ids[n], entries[n + 1].id) ELSE ids[n]
      BY <1>3, <3>1
    <3>3. ids[n] \in Seq(S)
      BY <1>0, <1>5, <2>1
    <3>4. entries[n + 1] \in wanted => entries[n + 1].id \in S
      BY <3>1
    <3>5. ASSUME NEW s \in Seq(S), NEW x \in S PROVE Append(s, x) \in Seq(S)
      OBVIOUS
    <3>6. ids[n + 1] \in Seq(S)
      <4>1. CASE entries[n + 1] \in wanted
        BY <3>2, <3>3, <3>4, <3>5, <4>1
      <4>2. CASE entries[n + 1] \notin wanted
        BY <3>2, <3>3, <4>2
      <4> QED
        BY <4>1, <4>2
    <3> QED
      BY <3>6
  <2> QED
    BY <2>1
<1> HIDE DEF P
<1>6. Nat \subseteq P
  BY <1>4, <1>5, NumberInduction
<1> QED
  BY <1>0, <1>2, <1>6 DEF P

(* Whatever an upstream replies, a list that is fetched is listable.       *)
LEMMA RepliesAreListable ==
  ASSUME NEW r \in Replies
  PROVE  Named(r.entries) \in Seq(Listable) /\ Textual(r.entries) \in Seq(Listable)
<1>1. r.entries \in Seq([id : STRING, modes : STRING])
  BY DecodingAssumption
<1>2. Len(r.entries) \in Nat /\ DOMAIN r.entries = 1..Len(r.entries)
  BY <1>1
<1>3. \A i \in 1..Len(r.entries) : r.entries[i].id # "" => r.entries[i].id \in Listable
  <2> TAKE i \in 1..Len(r.entries)
  <2>1. r.entries[i] \in Range(r.entries)
    BY <1>2 DEF Range
  <2>2. r.entries[i] \in UNION {Range(q.entries) : q \in Replies}
    BY <2>1
  <2> QED
    BY <2>2 DEF Listable, Offered
<1> DEFINE named == {e \in Range(r.entries) : e.id # ""}
           textual == {e \in Range(r.entries) : e.id # "" /\ e.modes # "other"}
<1>4. \A e \in named \cup textual : e.id # ""
  OBVIOUS
<1>5. Named(r.entries) = IdsOf(r.entries, named) /\ Textual(r.entries) = IdsOf(r.entries, textual)
  BY DEF Named, Textual
<1> HIDE DEF named, textual
<1>6. IdsOf(r.entries, named) \in Seq(Listable)
  BY <1>2, <1>3, <1>4, IdsAreWanted
<1>7. IdsOf(r.entries, textual) \in Seq(Listable)
  BY <1>2, <1>3, <1>4, IdsAreWanted
<1> QED
  BY <1>5, <1>6, <1>7

(* Nor is a built-in one anything else, ...                                *)
LEMMA BuiltinIsListable ==
  Builtin["bedrock"] \in Seq(Listable) /\ Builtin["anthropic"] \in Seq(Listable)
<1> DEFINE b == <<"b1", "b2">>
           a == <<"a1">>
<1>1. Builtin.bedrock = b /\ Builtin.anthropic = a
  BY DEF Builtin
<1>2. b \in Seq(Range(b)) /\ a \in Seq(Range(a))
  BY DEF Range
<1>3. Range(b) \subseteq Listable /\ Range(a) \subseteq Listable
  BY <1>1 DEF Listable
<1> HIDE DEF a, b
<1> QED
  BY <1>1, <1>2, <1>3

(* ... nor the list that a fetch ends with.                                *)
LEMMA FetchedIsListable ==
  ASSUME NEW row, NEW first \in Replies, NEW second \in Replies
  PROVE  FetchedModels(row, first, second).list \in Seq(Listable)
<1>1. \A list : Listed(list).list = list
  BY DEF Listed
<1>2. NotListed.list \in Seq(Listable)
  BY DEF NotListed
<1>3. AnthropicModels(row, first).list \in Seq(Listable)
  BY <1>1, RepliesAreListable, BuiltinIsListable DEF AnthropicModels, ListOrBuiltin
<1>4. BedrockModels(row, first).list \in Seq(Listable)
  BY <1>1, RepliesAreListable, BuiltinIsListable DEF BedrockModels, ListOrBuiltin
<1>5. OpenAIModels(row, first, second).list \in Seq(Listable)
  BY <1>1, <1>2, RepliesAreListable DEF OpenAIModels
<1> QED
  BY <1>3, <1>4, <1>5 DEF FetchedModels

-----------------------------------------------------------------------------
(* Values of their kinds. *)

ChannelRow ==
  [type : Types, base : BOOLEAN, region : BOOLEAN, models : Seq(Listable), profile : BOOLEAN]
PriceRow == [ch : 1..MaxChannels, model : Models, rate : Rate]

(* The tables and their sequences. *)
ChannelsTyped ==
  /\ nextChan \in Nat \ {0}
  /\ \A c \in DOMAIN chan : c \in 1..MaxChannels /\ chan[c] \in ChannelRow
PricesTyped ==
  /\ nextPrice \in Nat \ {0}
  /\ \A p \in DOMAIN price : p \in 1..MaxPrices /\ price[p] \in PriceRow
ListsTyped == \A c \in DOMAIN cache : cache[c] \in Seq(Listable)

(* What a request has read or decided and its next statement will write. *)
Typed(x) ==
  /\ x.pc = "save" => x.ch \in 1..MaxChannels /\ x.row \in ChannelRow
  /\ x.pc \in {"persist", "cache"} => x.list \in Seq(Listable)
  /\ x.pc \in {"insert", "update"} => x.row \in PriceRow
  /\ x.pc = "update" => x.id \in 1..MaxPrices

RequestsTyped == \A a \in Admins : Typed(op[a])

(* The models of a body are listable. *)
LEMMA GivenIsListable ==
  ASSUME NEW in \in Bodies, "models" \in DOMAIN in
  PROVE  in.models \in Seq(Listable)
<1>1. in.models \in Seq(STRING)
  BY DecodingAssumption DEF Fields
<1>2. Range(in.models) \subseteq Listable
  BY DEF Listable, Given
<1>3. \A i \in 1..Len(in.models) : in.models[i] \in Listable
  BY <1>1, <1>2 DEF Range
<1> QED
  BY <1>1, <1>3

(* The decoded fields of a body, when it is acceptable, are those of a row. *)
LEMMA BodyTyped ==
  ASSUME NEW in \in Bodies, Acceptable(in)
  PROVE  /\ DOMAIN in \subseteq {"name", "type", "base", "region", "models", "profile"}
         /\ "type" \in DOMAIN in => in.type \in Types
         /\ "base" \in DOMAIN in => in.base \in BOOLEAN
         /\ "region" \in DOMAIN in => in.region \in BOOLEAN
         /\ "models" \in DOMAIN in => in.models \in Seq(Listable)
         /\ "profile" \in DOMAIN in => in.profile \in BOOLEAN
BY DecodingAssumption, GivenIsListable DEF Fields, Acceptable

(* A record with these columns and values of their kinds is a row.         *)
Columns == {"type", "base", "region", "models", "profile"}

LEMMA RowTyped ==
  ASSUME NEW row, row = [f \in Columns |-> row[f]],
         row.type \in Types, row.base \in BOOLEAN, row.region \in BOOLEAN,
         row.models \in Seq(Listable), row.profile \in BOOLEAN
  PROVE  row \in ChannelRow
BY DEF Columns, ChannelRow

(* Update and Create make rows of rows, and of the defaults. *)
LEMMA UpdatedTyped ==
  ASSUME NEW in \in Bodies, Acceptable(in), NEW row \in ChannelRow
  PROVE  ApplyInput(row, in) \in ChannelRow
<1> DEFINE new == ApplyInput(row, in)
<1>1. DOMAIN row = Columns /\ DOMAIN row \cup (DOMAIN in \ {"name"}) = Columns
  BY BodyTyped DEF ChannelRow, Columns
<1>2. new = [f \in Columns |-> IF f \in DOMAIN in THEN in[f] ELSE row[f]]
  BY <1>1 DEF ApplyInput
<1>3. /\ row.type \in Types /\ row.base \in BOOLEAN /\ row.region \in BOOLEAN
      /\ row.models \in Seq(Listable) /\ row.profile \in BOOLEAN
  BY DEF ChannelRow
<1>4. /\ new.type \in Types /\ new.base \in BOOLEAN /\ new.region \in BOOLEAN
      /\ new.models \in Seq(Listable) /\ new.profile \in BOOLEAN
  BY <1>2, <1>3, BodyTyped DEF Columns
<1>5. new = [f \in Columns |-> new[f]]
  BY <1>2
<1> HIDE DEF new
<1>6. new \in ChannelRow
  BY <1>4, <1>5, RowTyped
<1> QED
  BY <1>6 DEF new

LEMMA CreatedTyped ==
  ASSUME NEW in \in Bodies, Acceptable(in), "type" \in DOMAIN in
  PROVE  [ApplyInput(NewChannel, in) EXCEPT !.profile = TRUE] \in ChannelRow
<1> DEFINE new == [ApplyInput(NewChannel, in) EXCEPT !.profile = TRUE]
           made == ApplyInput(NewChannel, in)
<1>1. /\ DOMAIN NewChannel = {"base", "region", "models", "profile"}
      /\ NewChannel.base \in BOOLEAN /\ NewChannel.region \in BOOLEAN
      /\ NewChannel.models = <<>>
  BY DEF NewChannel
<1>2. DOMAIN NewChannel \cup (DOMAIN in \ {"name"}) = Columns
  BY <1>1, BodyTyped DEF Columns
<1>3. made = [f \in Columns |-> IF f \in DOMAIN in THEN in[f] ELSE NewChannel[f]]
  BY <1>2 DEF ApplyInput
<1>4. <<>> \in Seq(Listable)
  OBVIOUS
<1>5. /\ made.type \in Types /\ made.base \in BOOLEAN /\ made.region \in BOOLEAN
      /\ made.models \in Seq(Listable)
  BY <1>1, <1>3, <1>4, BodyTyped DEF Columns
<1>6. DOMAIN made = Columns
  BY <1>3
<1>7. new = [made EXCEPT !.profile = TRUE]
  OBVIOUS
<1> HIDE DEF made, new
<1>8. /\ new = [f \in Columns |-> new[f]] /\ new.profile = TRUE /\ new.type = made.type
      /\ new.base = made.base /\ new.region = made.region /\ new.models = made.models
  BY <1>6, <1>7 DEF Columns
<1>9. new \in ChannelRow
  BY <1>5, <1>8, RowTyped
<1> QED
  BY <1>9 DEF new

(* A statement of a request stores values of their kinds, ... *)
LEMMA ChannelsStay ==
  ASSUME RequestsTyped, ChannelsTyped, NEW a \in Admins, Step(a)
  PROVE  ChannelsTyped'
<1>1. CASE UNCHANGED <<chan, nextChan>>
  BY <1>1 DEF ChannelsTyped
<1>2. \A kind : Refuses(a, kind) \/ Fails(a, kind) => UNCHANGED <<chan, nextChan>>
  BY DEF Refuses, Fails, tables
<1>3. ASSUME NEW id \in 1..MaxChannels, NEW row \in ChannelRow, chan' = With(chan, id, row),
             nextChan' \in Nat \ {0}
      PROVE  ChannelsTyped'
  BY <1>3 DEF ChannelsTyped, With
<1>4. ASSUME NEW gone, chan' = Without(chan, gone), UNCHANGED nextChan
      PROVE  ChannelsTyped'
  BY <1>4 DEF ChannelsTyped, Without, Restrict
<1>5. ASSUME NEW in \in Bodies, Create(a, in) PROVE ChannelsTyped'
  <2> DEFINE row == [ApplyInput(NewChannel, in) EXCEPT !.profile = TRUE]
  <2>1. CASE /\ Acceptable(in) /\ {"name", "type"} \subseteq DOMAIN in
             /\ nextChan <= MaxChannels /\ chan' = With(chan, nextChan, row)
             /\ nextChan' = nextChan + 1
    <3>1. row \in ChannelRow
      BY <2>1, CreatedTyped
    <3>2. nextChan \in 1..MaxChannels /\ nextChan' \in Nat \ {0}
      BY <2>1, BoundsAssumption DEF ChannelsTyped
    <3>3. chan' = With(chan, nextChan, row)
      BY <2>1
    <3> HIDE DEF row
    <3> QED
      BY <1>3, <3>1, <3>2, <3>3
  <2> QED
    BY <1>1, <1>2, <1>5, <2>1 DEF Create
<1>6. ASSUME WriteProfile(a) PROVE ChannelsTyped'
  <2>1. CASE /\ op[a].ch \in DOMAIN chan /\ UNCHANGED nextChan
             /\ chan' = [chan EXCEPT ![op[a].ch].profile = FALSE]
    BY <2>1 DEF ChannelsTyped, ChannelRow
  <2> QED
    BY <1>1, <1>2, <1>6, <2>1 DEF WriteProfile
<1>7. ASSUME SaveUpdate(a) PROVE ChannelsTyped'
  <2>1. op[a].ch \in 1..MaxChannels /\ op[a].row \in ChannelRow
    BY <1>7 DEF SaveUpdate, Continues, RequestsTyped, Typed
  <2>2. CASE chan' = With(chan, op[a].ch, op[a].row) /\ UNCHANGED nextChan
    BY <1>3, <2>1, <2>2 DEF ChannelsTyped
  <2> QED
    BY <1>1, <1>2, <1>7, <2>2 DEF SaveUpdate
<1>8. ASSUME NEW c \in 1..MaxChannels, Delete(a, c) PROVE ChannelsTyped'
  BY <1>1, <1>2, <1>4, <1>8 DEF Delete, NotLoaded
<1>9. ASSUME Persist(a) PROVE ChannelsTyped'
  <2>1. op[a].list \in Seq(Listable)
    BY <1>9 DEF Persist, Continues, RequestsTyped, Typed
  <2>2. CASE /\ op[a].ch \in DOMAIN chan /\ UNCHANGED nextChan
             /\ chan' = [chan EXCEPT ![op[a].ch].models = op[a].list]
    BY <2>1, <2>2 DEF ChannelsTyped, ChannelRow
  <2> QED
    BY <1>1, <1>2, <1>9, <2>2 DEF Persist
<1>10. ASSUME \/ \E c \in 1..MaxChannels :
                   \/ \E in \in Bodies : ReadForUpdate(a, c, in)
                   \/ \E refresh \in BOOLEAN : ReadForFetch(a, c, refresh)
                   \/ \E up \in BOOLEAN : TestChannel(a, c, up)
                   \/ \E m \in Models, rate \in Rates : ReadForPrice(a, c, m, rate)
              \/ \E first, second \in Replies : List(a, first, second)
              \/ CacheModels(a) \/ InsertPrice(a) \/ SavePrice(a)
              \/ \E p \in 1..MaxPrices : DeletePrice(a, p)
       PROVE  UNCHANGED <<chan, nextChan>>
  BY <1>2, <1>10 DEF ReadForUpdate, ReadForFetch, TestChannel, ReadForPrice, List,
                     CacheModels, InsertPrice, SavePrice, DeletePrice, NotLoaded, tables
<1> QED
  BY <1>1, <1>5, <1>6, <1>7, <1>8, <1>9, <1>10 DEF Step

(* ... prices, ... *)
LEMMA PricesStay ==
  ASSUME RequestsTyped, PricesTyped, NEW a \in Admins, Step(a)
  PROVE  PricesTyped'
<1>1. CASE UNCHANGED <<price, nextPrice>>
  BY <1>1 DEF PricesTyped
<1>2. \A kind : Refuses(a, kind) \/ Fails(a, kind) => UNCHANGED <<price, nextPrice>>
  BY DEF Refuses, Fails, tables
<1>3. ASSUME NEW id \in 1..MaxPrices, NEW row \in PriceRow, price' = With(price, id, row),
             nextPrice' \in Nat \ {0}
      PROVE  PricesTyped'
  BY <1>3 DEF PricesTyped, With
<1>4. ASSUME NEW gone, price' = Without(price, gone), UNCHANGED nextPrice
      PROVE  PricesTyped'
  BY <1>4 DEF PricesTyped, Without, Restrict
<1>5. ASSUME InsertPrice(a) PROVE PricesTyped'
  <2>1. op[a].row \in PriceRow
    BY <1>5 DEF InsertPrice, Continues, RequestsTyped, Typed
  <2>2. CASE /\ nextPrice <= MaxPrices /\ price' = With(price, nextPrice, op[a].row)
             /\ nextPrice' = nextPrice + 1
    <3>1. nextPrice \in 1..MaxPrices /\ nextPrice' \in Nat \ {0}
      BY <2>2, BoundsAssumption DEF PricesTyped
    <3> QED
      BY <1>3, <2>1, <2>2, <3>1
  <2> QED
    BY <1>1, <1>2, <1>5, <2>2 DEF InsertPrice
<1>6. ASSUME SavePrice(a) PROVE PricesTyped'
  <2>1. op[a].row \in PriceRow /\ op[a].id \in 1..MaxPrices
    BY <1>6 DEF SavePrice, Continues, RequestsTyped, Typed
  <2>2. CASE price' = With(price, op[a].id, op[a].row) /\ UNCHANGED nextPrice
    BY <1>3, <2>1, <2>2 DEF PricesTyped
  <2> QED
    BY <1>1, <1>2, <1>6, <2>2 DEF SavePrice
<1>7. ASSUME NEW c \in 1..MaxChannels, Delete(a, c) PROVE PricesTyped'
  BY <1>1, <1>2, <1>4, <1>7 DEF Delete, NotLoaded
<1>8. ASSUME NEW p \in 1..MaxPrices, DeletePrice(a, p) PROVE PricesTyped'
  BY <1>1, <1>2, <1>4, <1>8 DEF DeletePrice
<1>9. ASSUME \/ \E in \in Bodies : Create(a, in)
             \/ WriteProfile(a) \/ SaveUpdate(a)
             \/ \E c \in 1..MaxChannels :
                  \/ \E in \in Bodies : ReadForUpdate(a, c, in)
                  \/ \E refresh \in BOOLEAN : ReadForFetch(a, c, refresh)
                  \/ \E up \in BOOLEAN : TestChannel(a, c, up)
                  \/ \E m \in Models, rate \in Rates : ReadForPrice(a, c, m, rate)
             \/ \E first, second \in Replies : List(a, first, second)
             \/ Persist(a) \/ CacheModels(a)
      PROVE  UNCHANGED <<price, nextPrice>>
  BY <1>2, <1>9 DEF Create, WriteProfile, SaveUpdate, ReadForUpdate, ReadForFetch, TestChannel,
                    ReadForPrice, List, Persist, CacheModels, NotLoaded, tables
<1> QED
  BY <1>1, <1>5, <1>6, <1>7, <1>8, <1>9 DEF Step

(* ... cached lists, ... *)
LEMMA ListsStay ==
  ASSUME RequestsTyped, ListsTyped, NEW a \in Admins, Step(a)
  PROVE  ListsTyped'
<1>1. CASE UNCHANGED cache
  BY <1>1 DEF ListsTyped
<1>2. \A kind : Refuses(a, kind) \/ Fails(a, kind) => UNCHANGED cache
  BY DEF Refuses, Fails, tables
<1>3. ASSUME CacheModels(a) PROVE ListsTyped'
  <2>1. op[a].list \in Seq(Listable)
    BY <1>3 DEF CacheModels, Continues, RequestsTyped, Typed
  <2>2. CASE cache' = With(cache, op[a].ch, op[a].list)
    BY <2>1, <2>2 DEF ListsTyped, With
  <2> QED
    BY <1>1, <1>3, <2>2 DEF CacheModels
<1>4. ASSUME \/ \E in \in Bodies : Create(a, in)
             \/ WriteProfile(a) \/ SaveUpdate(a)
             \/ \E c \in 1..MaxChannels :
                  \/ \E in \in Bodies : ReadForUpdate(a, c, in)
                  \/ Delete(a, c)
                  \/ \E refresh \in BOOLEAN : ReadForFetch(a, c, refresh)
                  \/ \E up \in BOOLEAN : TestChannel(a, c, up)
                  \/ \E m \in Models, rate \in Rates : ReadForPrice(a, c, m, rate)
             \/ \E first, second \in Replies : List(a, first, second)
             \/ Persist(a) \/ InsertPrice(a) \/ SavePrice(a)
             \/ \E p \in 1..MaxPrices : DeletePrice(a, p)
      PROVE  UNCHANGED cache
  BY <1>2, <1>4 DEF Create, WriteProfile, SaveUpdate, ReadForUpdate, Delete, ReadForFetch,
                    TestChannel, ReadForPrice, List, Persist, InsertPrice, SavePrice,
                    DeletePrice, NotLoaded, tables
<1> QED
  BY <1>1, <1>3, <1>4 DEF Step

(* ... and leaves the request with values of their kinds to store next.    *)
LEMMA RequestsStay ==
  ASSUME DOMAIN op = Admins, RequestsTyped, ChannelsTyped, PricesTyped,
         NEW a \in Admins, Step(a)
  PROVE  RequestsTyped'
<1>1. ASSUME NEW x, Set(a, x), Typed(x) PROVE RequestsTyped'
  BY <1>1 DEF Set, RequestsTyped
<1>2. \A x : x.pc \in {"done", "profile", "list"} => Typed(x)
  BY DEF Typed
<1>3. \A kind, ok : Done(kind, ok).pc = "done"
  BY DEF Done
<1>4. ASSUME NEW kind, Refuses(a, kind) \/ Fails(a, kind) PROVE RequestsTyped'
  <2>1. Set(a, Done(kind, FALSE))
    BY <1>4 DEF Refuses, Fails
  <2>2. Typed(Done(kind, FALSE))
    BY DEF Done, Typed
  <2> QED
    BY <1>1, <2>1, <2>2
<1>5. \A kind, ok : Set(a, Done(kind, ok)) => RequestsTyped'
  BY <1>1, <1>2, <1>3
<1>6. ASSUME NEW x, Set(a, x), x.pc \in {"done", "profile", "list"} PROVE RequestsTyped'
  BY <1>1, <1>2, <1>6
<1>7. ASSUME \/ \E in \in Bodies : Create(a, in)
             \/ WriteProfile(a) \/ SaveUpdate(a)
             \/ \E c \in 1..MaxChannels :
                  \/ Delete(a, c)
                  \/ \E refresh \in BOOLEAN : ReadForFetch(a, c, refresh)
                  \/ \E up \in BOOLEAN : TestChannel(a, c, up)
             \/ CacheModels(a) \/ InsertPrice(a) \/ SavePrice(a)
             \/ \E p \in 1..MaxPrices : DeletePrice(a, p)
      PROVE  RequestsTyped'
  BY <1>4, <1>5, <1>6, <1>7
     DEF Create, WriteProfile, SaveUpdate, Delete, ReadForFetch, TestChannel, CacheModels,
         InsertPrice, SavePrice, DeletePrice, NotLoaded
<1>8. ASSUME NEW c \in 1..MaxChannels, NEW in \in Bodies, ReadForUpdate(a, c, in)
      PROVE  RequestsTyped'
  <2> DEFINE row == ApplyInput(chan[c], in)
             x == [pc |-> "save", ch |-> c, row |-> row]
  <2>1. CASE c \in DOMAIN chan /\ Acceptable(in) /\ Set(a, x)
    <3>1. row \in ChannelRow
      BY <2>1, UpdatedTyped DEF ChannelsTyped
    <3> HIDE DEF row
    <3>2. Typed(x)
      BY <3>1 DEF Typed
    <3>3. Set(a, x)
      BY <2>1
    <3> HIDE DEF x
    <3> QED
      BY <1>1, <3>2, <3>3
  <2> QED
    BY <1>4, <1>8, <2>1 DEF ReadForUpdate, NotLoaded
<1>9. ASSUME NEW first \in Replies, NEW second \in Replies, List(a, first, second)
      PROVE  RequestsTyped'
  <2> DEFINE fetched == FetchedModels(op[a].row, first, second)
             x == [pc |-> "persist", ch |-> op[a].ch, row |-> op[a].row,
                   list |-> fetched.list]
  <2>1. CASE Set(a, x)
    <3>1. fetched.list \in Seq(Listable)
      BY FetchedIsListable
    <3> HIDE DEF fetched
    <3>2. Typed(x)
      BY <3>1 DEF Typed
    <3>3. Set(a, x)
      BY <2>1
    <3> HIDE DEF x
    <3> QED
      BY <1>1, <3>2, <3>3
  <2>2. Set(a, x) \/ Set(a, Done("fetch", FALSE))
    BY <1>9 DEF List
  <2> QED
    BY <1>5, <2>1, <2>2
<1>10. ASSUME Persist(a) PROVE RequestsTyped'
  <2> DEFINE x == [pc |-> "cache", ch |-> op[a].ch, list |-> op[a].list]
  <2>1. op[a].list \in Seq(Listable)
    BY <1>10 DEF Persist, Continues, RequestsTyped, Typed
  <2>2. Typed(x)
    BY <2>1 DEF Typed
  <2> QED
    BY <1>1, <1>4, <1>10, <2>2 DEF Persist
<1>11. ASSUME NEW c \in 1..MaxChannels, NEW m \in Models, NEW rate \in Rates,
              ReadForPrice(a, c, m, rate)
       PROVE  RequestsTyped'
  <2> DEFINE row == [ch |-> c, model |-> m, rate |-> rate]
             found == Priced(price, c, m)
             inserting == [pc |-> "insert", row |-> row]
             id == CHOOSE p \in found : TRUE
             updating == [pc |-> "update", row |-> row, id |-> id]
  <2>1. CASE RateAccepted(rate) /\ found = {} /\ Set(a, inserting)
    <3>1. row \in PriceRow
      BY <2>1, RatesAssumption DEF PriceRow, RateAccepted, Positive, Rate
    <3>2. Typed(inserting)
      BY <3>1 DEF Typed
    <3> QED
      BY <1>1, <2>1, <3>2
  <2>2. CASE RateAccepted(rate) /\ found # {} /\ Set(a, updating)
    <3>1. row \in PriceRow
      BY <2>2, RatesAssumption DEF PriceRow, RateAccepted, Positive, Rate
    <3>2. found \subseteq 1..MaxPrices
      BY DEF Priced, PricesTyped
    <3>3. id \in 1..MaxPrices
      BY <2>2, <3>2
    <3> HIDE DEF id, row, found
    <3>4. Typed(updating)
      BY <3>1, <3>3 DEF Typed
    <3>5. Set(a, updating)
      BY <2>2 DEF id, row, found
    <3> HIDE DEF updating
    <3> QED
      BY <1>1, <3>4, <3>5
  <2> QED
    BY <1>4, <1>11, <2>1, <2>2 DEF ReadForPrice
<1> QED
  BY <1>7, <1>8, <1>9, <1>10, <1>11 DEF Step

(* Everything has its kind, in any step of the system. *)
KindsInv == ChannelsTyped /\ PricesTyped /\ ListsTyped /\ RequestsTyped

(* The invariant holds at first and is kept. *)
LEMMA InitKinds == Init => KindsInv
BY DEF Init, CatalogInit, KindsInv, ChannelsTyped, PricesTyped, ListsTyped, RequestsTyped,
       Typed, Idle

LEMMA StepKinds == KindsInv /\ CatalogInv /\ [Next]_vars => KindsInv'
<1> SUFFICES ASSUME KindsInv, CatalogInv, [Next]_vars PROVE KindsInv'
  OBVIOUS
<1>1. ASSUME NEW a \in Admins, Step(a) PROVE KindsInv'
  BY <1>1, ChannelsStay, PricesStay, ListsStay, RequestsStay
     DEF KindsInv, CatalogInv, RequestsInv
<1>2. CASE UNCHANGED <<chan, price, cache, nextChan, nextPrice, op>>
  BY <1>2 DEF KindsInv, ChannelsTyped, PricesTyped, ListsTyped, RequestsTyped
<1>3. ASSUME NEW c \in 1..MaxChannels, Expire(c) PROVE KindsInv'
  BY <1>3 DEF Expire, Without, Restrict, KindsInv, ChannelsTyped, PricesTyped, ListsTyped,
              RequestsTyped
<1>4. CASE UNCHANGED vars
  BY <1>2, <1>4 DEF vars, catalogVars, tables
<1>5. CASE UNCHANGED <<tables, nextChan, nextPrice, op, wrote, ops>>
  BY <1>2, <1>5 DEF tables
<1> QED
  BY <1>1, <1>3, <1>4, <1>5 DEF Next, CatalogNext

(* A test writes one row at most. *)
OneRow == Len(log) <= 1

(* The row is the only one, since a test that is logged is done. *)
LEMMA InitRow == Init => OneRow
BY DEF Init, OneRow

LEMMA StepRow == OneRow /\ TestInv /\ [Next]_vars => OneRow'
<1> SUFFICES ASSUME OneRow, TestInv, [Next]_vars PROVE OneRow'
  OBVIOUS
<1>1. CASE UNCHANGED log
  BY <1>1 DEF OneRow
<1>2. CASE WriteTestLog
  <2>1. log = <<>>
    BY <1>2 DEF WriteTestLog, TestInv
  <2>2. log' = <<Row(test)>> \/ log' = <<>>
    BY <1>2, <2>1 DEF WriteTestLog
  <2> QED
    <3>1. ASSUME NEW row, log' = <<row>> PROVE OneRow'
      BY <3>1 DEF OneRow
    <3>2. CASE log' = <<>>
      BY <3>2 DEF OneRow
    <3> QED
      BY <2>2, <3>1, <3>2
<1> QED
  BY <1>1, <1>2
     DEF Next, TestStep, vars, testVars, Ask, PriceGate, CallFails, OpenStream, Answer,
         PumpUsage, PumpText, PumpEnds, PumpFails

(* Whatever administrators send and upstreams reply, a model has one price *)
(* in a channel, every row, list and request has values of their kinds, no *)
(* list names a model of no origin, and a test has one row at most.        *)
THEOREM CatalogTyped == Spec => []TypeOK
<1>1. CatalogInv /\ TestInv /\ KindsInv /\ OneRow => TypeOK
  <2> SUFFICES ASSUME CatalogInv, TestInv, KindsInv, OneRow PROVE TypeOK
    OBVIOUS
  <2>1. OnePrice /\ Len(log) <= 1
    BY DEF CatalogInv, PricesInv, OneRow
  <2>2. \A a \in Admins : op[a].pc \in Pcs
    BY DEF CatalogInv, RequestsInv, Honest
  <2>3. test.pc \in {"idle", "price", "call", "pump", "log", "done"}
    BY DEF TestInv, UnderWay
  <2> QED
    BY <2>1, <2>2, <2>3
       DEF TypeOK, KindsInv, ChannelsTyped, PricesTyped, ListsTyped, ChannelRow, PriceRow,
           Pcs, Unwritten
<1> QED
  BY <1>1, InitCatalog, InitTest, InitKinds, InitRow, StepCatalog, StepTest, StepKinds,
     StepRow, PTL DEF Spec
=============================================================================
