------------------------------- MODULE Quota -------------------------------
(***************************************************************************)
(* The two-level quota accounting of internal/service/quota_service.go.    *)
(*                                                                         *)
(* Every inference request (a member of Calls, one goroutine of one        *)
(* replica) is admitted twice against what is left at its token and at its *)
(* user, served, and then charged to both.  Usage lives in three places:   *)
(* the used_quota columns of PostgreSQL, the Redis counters, and the set   *)
(* of "dirty" ids that each replica keeps in memory for its write-back     *)
(* loop.  No lock spans two of them, so each store command is one step and *)
(* steps of calls, flushes, resets and token edits interleave.             *)
(***************************************************************************)
EXTENDS Integers, FiniteSets

CONSTANTS
  Replicas,         \* server processes sharing one database and one Redis
  Tokens, Users,    \* rows of the tokens and users tables
  Owner,            \* Owner[t]: the user a token belongs to
  Limit,            \* Limit[e]: the quota column, -1 = unlimited
  InitialUsed,      \* used_quota when the model starts
  Calls, ReplicaOf, TokenOf,  \* requests: who serves them, with which key
  Estimates,        \* possible pre-flight prompt costs (0 = unpriced model)
  Costs,            \* possible final costs (0 = free, failed or aborted)
  Resets, ResetReplica, ResetUser,  \* ResetUserUsage calls
  Edits, EditToken, \* TokenService.Update calls
  Modes,            \* {TRUE}: Redis configured; {FALSE}: rdb == nil
  MaxLosses,        \* bound: times Redis loses keys
  MaxCrashes,       \* bound: process crashes
  MaxCallErrors,    \* bound: store errors met by requests
  MaxFlushErrors    \* bound: store errors met by the write-back loop

Entities == Tokens \cup Users

Unlimited == -1   \* QuotaUnlimited
NoKey == -1       \* redis.Nil: the counter key does not exist
NoRow == "none"   \* no flush of a row in progress

ASSUME QuotaAssumption ==
  /\ Tokens \cap Users = {} /\ NoRow \notin Entities
  /\ Owner \in [Tokens -> Users]
  /\ Limit \in [Entities -> Int]
  /\ InitialUsed \in [Entities -> Nat]
  /\ ReplicaOf \in [Calls -> Replicas] /\ TokenOf \in [Calls -> Tokens]
  /\ Estimates \subseteq Nat /\ Costs \subseteq Nat
  /\ ResetReplica \in [Resets -> Replicas] /\ ResetUser \in [Resets -> Users]
  /\ EditToken \in [Edits -> Tokens]
  /\ Modes \subseteq BOOLEAN
  /\ MaxLosses \in Nat /\ MaxCrashes \in Nat
  /\ MaxCallErrors \in Nat /\ MaxFlushErrors \in Nat

VARIABLES
  dbUsed,    \* used_quota columns
  redis,     \* s.rdb # nil, fixed at start-up
  counter,   \* Redis: quota:token:used:<id> and quota:user:used:<id>, or NoKey
  dirty,     \* dirtyTokens and dirtyUsers of each replica
  todo,      \* ids snapshotted by the running WriteBack and not yet visited
  cur, val,  \* the id being flushed and the counter value read for it
  at,        \* control point of each call
  use,       \* what the call is doing: middleware guard, price gate, consume
  ent,       \* level being looked up: the call's token or its user
  seed,      \* used_quota as read, to seed a missing counter
  left,      \* remaining at the token level, while the user's is looked up
  cost,      \* estimated cost during the gate, actual cost afterwards
  resetAt,   \* control point of each ResetUserUsage
  editAt, editUsed,  \* TokenService.Update: control point, used_quota it read
  faults,    \* how many of each fault have happened
  charged,   \* history: initial usage plus everything added to an entity
  forgiven,  \* history: the part of it erased by the last reset
  dry        \* history: was a level of the call exhausted when it arrived?

store == <<dbUsed, counter>>
flush == <<dirty, todo, cur, val>>
call == <<at, use, ent, seed, left, cost>>
admin == <<resetAt, editAt, editUsed>>
history == <<charged, forgiven, dry>>
vars == <<dbUsed, redis, counter, dirty, todo, cur, val, at, use, ent, seed,
          left, cost, resetAt, editAt, editUsed, faults, charged, forgiven,
          dry>>

UserOf(c) == Owner[TokenOf[c]]

(* What an entity has really used since its last reset. *)
Owed(e) == charged[e] - forgiven[e]

Exhausted(e) == Limit[e] >= 0 /\ Owed(e) >= Limit[e]

-----------------------------------------------------------------------------
(* remaining and minRemaining *)

Remaining(quota, used) ==
  IF quota < 0 THEN Unlimited ELSE IF quota - used < 0 THEN 0 ELSE quota - used

(* Mutant: the looser of the two levels. *)
LooserRemaining(a, b) == IF a < 0 \/ b < 0 THEN Unlimited ELSE IF a < b THEN b ELSE a

MinRemaining(a, b) ==
  IF a < 0 THEN IF b < 0 THEN Unlimited ELSE b
  ELSE IF b < 0 \/ a < b THEN a ELSE b

Init ==
  /\ dbUsed = InitialUsed
  /\ redis \in Modes
  /\ counter = [e \in Entities |-> NoKey]
  /\ dirty = [r \in Replicas |-> {}]
  /\ todo = [r \in Replicas |-> {}]
  /\ cur = [r \in Replicas |-> NoRow]
  /\ val = [r \in Replicas |-> 0]
  /\ at = [c \in Calls |-> "idle"]
  /\ use = [c \in Calls |-> "guard"]
  /\ ent = [c \in Calls |-> TokenOf[c]]
  /\ seed = [c \in Calls |-> 0]
  /\ left = [c \in Calls |-> 0]
  /\ cost = [c \in Calls |-> 0]
  /\ resetAt = [x \in Resets |-> "idle"]
  /\ editAt = [x \in Edits |-> "idle"]
  /\ editUsed = [x \in Edits |-> 0]
  /\ faults = [loss |-> 0, crash |-> 0, call |-> 0, flush |-> 0]
  /\ charged = InitialUsed
  /\ forgiven = [e \in Entities |-> 0]
  /\ dry = [c \in Calls |-> FALSE]

-----------------------------------------------------------------------------
(* A request.  Looking up a level reads its row, then its counter, and if  *)
(* the counter is missing seeds it from the row and reads it back.         *)

(* The request reaches the Quota middleware. *)
Arrive(c) ==
  /\ at[c] = "idle"
  /\ at' = [at EXCEPT ![c] = "row"]
  /\ dry' = [dry EXCEPT ![c] = Exhausted(TokenOf[c]) \/ Exhausted(UserOf(c))]
  /\ UNCHANGED <<redis, store, flush, use, ent, seed, left, cost, admin, faults,
                 charged, forgiven>>

(* CheckRemaining answered the middleware: 402, or on to routing and the   *)
(* price gate of the chosen channel, which has an estimate to compare with.*)
GuardDecides(c, left2) ==
  /\ use[c] = "guard"
  /\ IF left2 = 0
       THEN /\ at' = [at EXCEPT ![c] = "rejected"]
            /\ UNCHANGED <<use, cost>>
       ELSE /\ use' = [use EXCEPT ![c] = "gate"]
            /\ at' = [at EXCEPT ![c] = "row"]
            /\ \E est \in Estimates : cost' = [cost EXCEPT ![c] = est]

(* CheckRemaining answered gateModelPrice: 402, or the upstream call.      *)
GateDecides(c, left2) ==
  /\ use[c] = "gate"
  /\ at' = [at EXCEPT ![c] = IF left2 >= 0 /\ left2 < cost[c]
                             THEN "rejected" ELSE "serving"]
  /\ cost' = [cost EXCEPT ![c] = 0]
  /\ UNCHANGED use

(* Consume has backfilled both counters. *)
ReadyToCharge(c) ==
  /\ use[c] = "consume"
  /\ at' = [at EXCEPT ![c] = "incrToken"]
  /\ UNCHANGED <<use, cost>>

(* The used count u of level ent[c] is known: the token's leads to the     *)
(* user's, and the user's to the decision the lookups were made for.       *)
Known(c, u) ==
  LET here == Remaining(Limit[ent[c]], u)
      left2 == MinRemaining(left[c], here)
  IN \/ /\ ent[c] = TokenOf[c]
        /\ ent' = [ent EXCEPT ![c] = UserOf(c)]
        /\ at' = [at EXCEPT ![c] = "row"]
        /\ left' = [left EXCEPT ![c] = IF use[c] = "consume" THEN 0 ELSE here]
        /\ UNCHANGED <<use, cost>>
     \/ /\ ent[c] = UserOf(c)
        /\ ent' = [ent EXCEPT ![c] = TokenOf[c]]
        /\ left' = [left EXCEPT ![c] = 0]
        /\ GuardDecides(c, left2) \/ GateDecides(c, left2) \/ ReadyToCharge(c)

ReadRow(c) ==
  /\ at[c] = "row"
  /\ IF redis
       THEN /\ seed' = [seed EXCEPT ![c] = dbUsed[ent[c]]]
            /\ at' = [at EXCEPT ![c] = "get"]
            /\ UNCHANGED <<use, ent, left, cost>>
       ELSE Known(c, dbUsed[ent[c]]) /\ UNCHANGED seed
  /\ UNCHANGED <<redis, store, flush, admin, faults, history>>

GetCounter(c) ==
  /\ at[c] = "get"
  /\ IF counter[ent[c]] = NoKey
       THEN /\ at' = [at EXCEPT ![c] = "seed"]
            /\ UNCHANGED <<use, ent, seed, left, cost>>
       ELSE /\ Known(c, counter[ent[c]])
            /\ seed' = [seed EXCEPT ![c] = 0]
  /\ UNCHANGED <<redis, store, flush, admin, faults, history>>

(* Mutant: SET instead of SETNX. *)
SeedCounterBySet(c) ==
  /\ at[c] = "seed"
  /\ counter' = [counter EXCEPT ![ent[c]] = seed[c]]
  /\ seed' = [seed EXCEPT ![c] = 0]
  /\ at' = [at EXCEPT ![c] = "reget"]
  /\ UNCHANGED <<redis, dbUsed, flush, use, ent, left, cost, admin, faults,
                 history>>

(* Mutant: a missing counter starts at 0 instead of the column's value. *)
SeedCounterAtZero(c) ==
  /\ at[c] = "seed"
  /\ counter' = [counter EXCEPT ![ent[c]] = IF @ = NoKey THEN 0 ELSE @]
  /\ seed' = [seed EXCEPT ![c] = 0]
  /\ at' = [at EXCEPT ![c] = "reget"]
  /\ UNCHANGED <<redis, dbUsed, flush, use, ent, left, cost, admin, faults,
                 history>>

(* SETNX: a concurrent writer that created the key first wins. *)
SeedCounter(c) ==
  /\ at[c] = "seed"
  /\ counter' = IF counter[ent[c]] = NoKey
                THEN [counter EXCEPT ![ent[c]] = seed[c]] ELSE counter
  /\ seed' = [seed EXCEPT ![c] = 0]
  /\ at' = [at EXCEPT ![c] = "reget"]
  /\ UNCHANGED <<redis, dbUsed, flush, use, ent, left, cost, admin, faults,
                 history>>

(* The read-back; a key lost since the SETNX is redis.Nil, an error here. *)
ReadBack(c) ==
  /\ at[c] = "reget"
  /\ IF counter[ent[c]] = NoKey
       THEN /\ at' = [at EXCEPT ![c] = "failed"]
            /\ UNCHANGED <<use, ent, left, cost>>
       ELSE Known(c, counter[ent[c]])
  /\ UNCHANGED <<redis, store, flush, seed, admin, faults, history>>

(* The upstream call ended.  A zero cost (unpriced model, failed request)  *)
(* consumes nothing; otherwise finish() calls Consume.                     *)
Served(c, n) ==
  /\ at[c] = "serving"
  /\ IF n = 0
       THEN at' = [at EXCEPT ![c] = "done"] /\ UNCHANGED <<use, cost>>
       ELSE /\ use' = [use EXCEPT ![c] = "consume"]
            /\ at' = [at EXCEPT ![c] = IF redis THEN "row" ELSE "incrToken"]
            /\ cost' = [cost EXCEPT ![c] = n]
  /\ UNCHANGED <<redis, store, flush, ent, seed, left, admin, faults, history>>

(* A retryable upstream failure: the next candidate channel has a price of *)
(* its own and passes the gate again.                                      *)
NextCandidate(c) ==
  /\ at[c] = "serving"
  /\ at' = [at EXCEPT ![c] = "row"]
  /\ \E est \in Estimates : cost' = [cost EXCEPT ![c] = est]
  /\ UNCHANGED <<redis, store, flush, use, ent, seed, left, admin, faults, history>>

(* INCRBY creates a missing key at n; without Redis the column is          *)
(* incremented in place.                                                   *)
Charge(e, n) ==
  /\ charged' = [charged EXCEPT ![e] = @ + n]
  /\ IF redis
       THEN /\ counter' = [counter EXCEPT ![e] = IF @ = NoKey THEN n ELSE @ + n]
            /\ UNCHANGED dbUsed
       ELSE /\ dbUsed' = [dbUsed EXCEPT ![e] = @ + n]
            /\ UNCHANGED counter

ChargeToken(c) ==
  /\ at[c] = "incrToken"
  /\ Charge(TokenOf[c], cost[c])
  /\ at' = [at EXCEPT ![c] = "incrUser"]
  /\ UNCHANGED <<redis, flush, use, ent, seed, left, cost, admin, faults,
                 forgiven, dry>>

ChargeUser(c) ==
  /\ at[c] = "incrUser"
  /\ Charge(UserOf(c), cost[c])
  /\ at' = [at EXCEPT ![c] = IF redis THEN "mark" ELSE "done"]
  /\ UNCHANGED <<redis, flush, use, ent, seed, left, cost, admin, faults,
                 forgiven, dry>>

(* Mutant: only the token is marked. *)
MarkDirtyTokenOnly(c) ==
  /\ at[c] = "mark"
  /\ dirty' = [dirty EXCEPT ![ReplicaOf[c]] = @ \cup {TokenOf[c]}]
  /\ at' = [at EXCEPT ![c] = "done"]
  /\ UNCHANGED <<redis, store, todo, cur, val, use, ent, seed, left, cost, admin,
                 faults, history>>

MarkDirty(c) ==
  /\ at[c] = "mark"
  /\ dirty' = [dirty EXCEPT ![ReplicaOf[c]] = @ \cup {TokenOf[c], UserOf(c)}]
  /\ at' = [at EXCEPT ![c] = "done"]
  /\ UNCHANGED <<redis, store, todo, cur, val, use, ent, seed, left, cost, admin,
                 faults, history>>

(* A store command of the request fails.  CheckRemaining answers 500, and  *)
(* finish() drops Consume's error: nothing done so far is undone, and the  *)
(* ids are not marked dirty.                                               *)
CallFails(c) ==
  /\ at[c] \in {"row", "get", "seed", "reget", "incrToken", "incrUser"}
  /\ faults.call < MaxCallErrors
  /\ faults' = [faults EXCEPT !.call = @ + 1]
  /\ at' = [at EXCEPT ![c] = "failed"]
  /\ UNCHANGED <<redis, store, flush, use, ent, seed, left, cost, admin, history>>

Progress(c) ==
  \/ ReadRow(c) \/ GetCounter(c) \/ SeedCounter(c) \/ ReadBack(c)
  \/ \E n \in Costs : Served(c, n)
  \/ ChargeToken(c) \/ ChargeUser(c) \/ MarkDirty(c)

-----------------------------------------------------------------------------
(* WriteBack: one goroutine per replica, on a ticker. *)

Snapshot(r) ==
  /\ redis /\ todo[r] = {} /\ cur[r] = NoRow /\ dirty[r] # {}
  /\ todo' = [todo EXCEPT ![r] = dirty[r]]
  /\ dirty' = [dirty EXCEPT ![r] = {}]
  /\ UNCHANGED <<redis, store, cur, val, call, admin, faults, history>>

(* Mutant: redis.Nil is not told apart from a value. *)
FlushGetNilAsValue(r, e) ==
  /\ cur[r] = NoRow /\ e \in todo[r]
  /\ e \in Users => todo[r] \cap Tokens = {}
  /\ todo' = [todo EXCEPT ![r] = @ \ {e}]
  /\ cur' = [cur EXCEPT ![r] = e]
  /\ val' = [val EXCEPT ![r] = counter[e]]
  /\ UNCHANGED <<redis, store, dirty, call, admin, faults, history>>

(* Tokens are visited before users, in map order.  A missing key is        *)
(* skipped; the id is no longer dirty.                                     *)
FlushGet(r, e) ==
  /\ cur[r] = NoRow /\ e \in todo[r]
  /\ e \in Users => todo[r] \cap Tokens = {}
  /\ todo' = [todo EXCEPT ![r] = @ \ {e}]
  /\ IF counter[e] = NoKey
       THEN UNCHANGED <<cur, val>>
       ELSE /\ cur' = [cur EXCEPT ![r] = e]
            /\ val' = [val EXCEPT ![r] = counter[e]]
  /\ UNCHANGED <<redis, store, dirty, call, admin, faults, history>>

(* Mutant: the counter is added to the column, as if it were a delta. *)
FlushUpdateAdds(r) ==
  /\ cur[r] # NoRow
  /\ dbUsed' = [dbUsed EXCEPT ![cur[r]] = @ + val[r]]
  /\ cur' = [cur EXCEPT ![r] = NoRow]
  /\ val' = [val EXCEPT ![r] = 0]
  /\ UNCHANGED <<redis, counter, dirty, todo, call, admin, faults, history>>

FlushUpdate(r) ==
  /\ cur[r] # NoRow
  /\ dbUsed' = [dbUsed EXCEPT ![cur[r]] = val[r]]
  /\ cur' = [cur EXCEPT ![r] = NoRow]
  /\ val' = [val EXCEPT ![r] = 0]
  /\ UNCHANGED <<redis, counter, dirty, todo, call, admin, faults, history>>

(* requeueToken, requeueUser *)
FlushGetFails(r, e) ==
  /\ cur[r] = NoRow /\ e \in todo[r]
  /\ e \in Users => todo[r] \cap Tokens = {}
  /\ faults.flush < MaxFlushErrors
  /\ faults' = [faults EXCEPT !.flush = @ + 1]
  /\ todo' = [todo EXCEPT ![r] = @ \ {e}]
  /\ dirty' = [dirty EXCEPT ![r] = @ \cup {e}]
  /\ UNCHANGED <<redis, store, cur, val, call, admin, history>>

(* Mutant: a failed UPDATE is not requeued. *)
FlushUpdateFailsDrops(r) ==
  /\ cur[r] # NoRow
  /\ faults.flush < MaxFlushErrors
  /\ faults' = [faults EXCEPT !.flush = @ + 1]
  /\ cur' = [cur EXCEPT ![r] = NoRow]
  /\ val' = [val EXCEPT ![r] = 0]
  /\ UNCHANGED <<redis, store, dirty, todo, call, admin, history>>

FlushUpdateFails(r) ==
  /\ cur[r] # NoRow
  /\ faults.flush < MaxFlushErrors
  /\ faults' = [faults EXCEPT !.flush = @ + 1]
  /\ dirty' = [dirty EXCEPT ![r] = @ \cup {cur[r]}]
  /\ cur' = [cur EXCEPT ![r] = NoRow]
  /\ val' = [val EXCEPT ![r] = 0]
  /\ UNCHANGED <<redis, store, todo, call, admin, history>>

WriteBack(r) ==
  Snapshot(r) \/ FlushUpdate(r) \/ \E e \in Entities : FlushGet(r, e)

-----------------------------------------------------------------------------
(* ResetUserUsage: zero the column, forget the dirty flag, delete the key. *)

ZeroRow(x) ==
  LET u == ResetUser[x] IN
  /\ resetAt[x] = "idle"
  /\ dbUsed' = [dbUsed EXCEPT ![u] = 0]
  /\ forgiven' = [forgiven EXCEPT ![u] = charged[u]]
  /\ resetAt' = [resetAt EXCEPT ![x] = "forget"]
  /\ UNCHANGED <<redis, counter, flush, call, editAt, editUsed, faults, charged,
                 dry>>

ForgetDirty(x) ==
  /\ resetAt[x] = "forget"
  /\ dirty' = [dirty EXCEPT ![ResetReplica[x]] = @ \ {ResetUser[x]}]
  /\ resetAt' = [resetAt EXCEPT ![x] = IF redis THEN "del" ELSE "done"]
  /\ UNCHANGED <<redis, store, todo, cur, val, call, editAt, editUsed, faults,
                 history>>

DelKey(x) ==
  /\ resetAt[x] = "del"
  /\ counter' = [counter EXCEPT ![ResetUser[x]] = NoKey]
  /\ resetAt' = [resetAt EXCEPT ![x] = "done"]
  /\ UNCHANGED <<redis, dbUsed, flush, call, editAt, editUsed, faults, history>>

ResetUserUsage(x) == ZeroRow(x) \/ ForgetDirty(x) \/ DelKey(x)

(* TokenService.Update reads the whole row and Saves the whole row. *)
EditRead(x) ==
  /\ editAt[x] = "idle"
  /\ editUsed' = [editUsed EXCEPT ![x] = dbUsed[EditToken[x]]]
  /\ editAt' = [editAt EXCEPT ![x] = "save"]
  /\ UNCHANGED <<redis, store, flush, call, resetAt, faults, history>>

EditSave(x) ==
  /\ editAt[x] = "save"
  /\ dbUsed' = [dbUsed EXCEPT ![EditToken[x]] = editUsed[x]]
  /\ editAt' = [editAt EXCEPT ![x] = "done"]
  /\ UNCHANGED <<redis, counter, flush, call, resetAt, editUsed, faults, history>>

-----------------------------------------------------------------------------
(* The environment. *)

(* Redis loses one key (its counterTTL ends: INCRBY does not renew it) or  *)
(* all of them (a restart that wipes it).                                  *)
RedisLoses(keys) ==
  /\ redis /\ faults.loss < MaxLosses
  /\ faults' = [faults EXCEPT !.loss = @ + 1]
  /\ counter' = [e \in Entities |-> IF e \in keys THEN NoKey ELSE counter[e]]
  /\ UNCHANGED <<redis, dbUsed, flush, call, admin, history>>

(* A process dies and is restarted: its requests, its resets, its dirty    *)
(* sets and its running flush are gone.                                    *)
Crash(r) ==
  /\ faults.crash < MaxCrashes
  /\ faults' = [faults EXCEPT !.crash = @ + 1]
  /\ dirty' = [dirty EXCEPT ![r] = {}]
  /\ todo' = [todo EXCEPT ![r] = {}]
  /\ cur' = [cur EXCEPT ![r] = NoRow]
  /\ val' = [val EXCEPT ![r] = 0]
  /\ at' = [c \in Calls |-> IF ReplicaOf[c] = r /\ at[c] # "idle" THEN "lost" ELSE at[c]]
  /\ resetAt' = [x \in Resets |-> IF ResetReplica[x] = r /\ resetAt[x] # "idle"
                                  THEN "lost" ELSE resetAt[x]]
  /\ UNCHANGED <<redis, store, use, ent, seed, left, cost, editAt, editUsed,
                 history>>

Next ==
  \/ \E c \in Calls : Arrive(c) \/ Progress(c) \/ NextCandidate(c) \/ CallFails(c)
  \/ \E r \in Replicas : \/ WriteBack(r) \/ FlushUpdateFails(r) \/ Crash(r)
                         \/ \E e \in Entities : FlushGetFails(r, e)
  \/ \E x \in Resets : ResetUserUsage(x)
  \/ \E x \in Edits : EditRead(x) \/ EditSave(x)
  \/ \E keys \in {Entities} \cup {{e} : e \in Entities} : RedisLoses(keys)

Spec == Init /\ [][Next]_vars

(* Go schedules every runnable goroutine, store commands and upstream      *)
(* calls have timeouts, and the ticker keeps firing.  Requests need not    *)
(* arrive, and nobody has to reset or edit anything.                       *)
Fairness ==
  /\ \A c \in Calls : WF_vars(Progress(c))
  /\ \A r \in Replicas : WF_vars(WriteBack(r))

FairSpec == Spec /\ Fairness

-----------------------------------------------------------------------------
(* Properties. *)

(* The types of the variables.                                             *)
TypeOK ==
  /\ dbUsed \in [Entities -> Nat]
  /\ redis \in BOOLEAN
  /\ counter \in [Entities -> Nat \cup {NoKey}]
  /\ dirty \in [Replicas -> SUBSET Entities]
  /\ todo \in [Replicas -> SUBSET Entities]
  /\ cur \in [Replicas -> Entities \cup {NoRow}]
  /\ val \in [Replicas -> Nat]
  /\ at \in [Calls -> {"idle", "row", "get", "seed", "reget", "serving",
                       "incrToken", "incrUser", "mark", "done", "rejected",
                       "failed", "lost"}]
  /\ use \in [Calls -> {"guard", "gate", "consume"}]
  /\ ent \in [Calls -> Entities]
  /\ \A c \in Calls : ent[c] \in {TokenOf[c], UserOf(c)}
  /\ seed \in [Calls -> Nat]
  /\ left \in [Calls -> Nat \cup {Unlimited}]
  /\ cost \in [Calls -> Nat]
  /\ resetAt \in [Resets -> {"idle", "forget", "del", "done", "lost"}]
  /\ editAt \in [Edits -> {"idle", "save", "done"}]
  /\ editUsed \in [Edits -> Nat]
  /\ faults \in [{"loss", "crash", "call", "flush"} -> Nat]
  /\ charged \in [Entities -> Nat]
  /\ forgiven \in [Entities -> Nat]
  /\ dry \in [Calls -> BOOLEAN]

(* What CheckRemaining would see as used: the counter, or the column that  *)
(* would seed it.                                                          *)
LiveUsage(e) == IF redis /\ counter[e] # NoKey THEN counter[e] ELSE dbUsed[e]

(* Nobody is ever billed for more than was consumed: no copy of a usage    *)
(* count (column, counter, value about to seed a counter, value about to   *)
(* be flushed or saved) exceeds what the entity has ever consumed, however *)
(* backfills, increments, flushes, resets, edits, crashes and Redis losses *)
(* interleave.                                                             *)
NoPhantomUsage ==
  /\ \A e \in Entities : dbUsed[e] <= charged[e] /\ counter[e] <= charged[e]
  /\ \A c \in Calls : seed[c] <= charged[ent[c]]
  /\ \A r \in Replicas : cur[r] # NoRow => val[r] <= charged[cur[r]]
  /\ \A x \in Edits : editUsed[x] <= charged[EditToken[x]]

(* Nothing has erased the live usage of e yet: Redis has lost no key and   *)
(* no reset of e has begun.  (Without Redis, a token edit that has begun   *)
(* may also write an old used_quota back.)                                 *)
Undisturbed(e) ==
  /\ faults.loss = 0
  /\ \A x \in Resets : ResetUser[x] = e => resetAt[x] = "idle"
  /\ redis \/ \A x \in Edits : EditToken[x] = e => editAt[x] = "idle"

(* The real-time counter is exact: while Redis keeps its keys and nobody   *)
(* resets usage, CheckRemaining sees exactly what was consumed, on every   *)
(* replica, whatever crashes, flushes, token edits and store errors happen *)
(* in between (usedCounter's SETNX backfill and Consume's INCRBY).         *)
LiveExact == \A e \in Entities : Undisturbed(e) => LiveUsage(e) = Owed(e)

(* A request that arrives when its token or user has used up its quota is  *)
(* never sent upstream: the two-level guard of middleware.Quota sees every *)
(* earlier charge.                                                         *)
ExhaustedRejected ==
  \A c \in Calls :
    dry[c] /\ Undisturbed(TokenOf[c]) /\ Undisturbed(UserOf(c))
      => at[c] # "serving" /\ use[c] # "consume"

(* A charge between its INCRBY and its dirty mark. *)
Unmarked(e) ==
  \E c \in Calls :
    \/ at[c] = "incrUser" /\ e = TokenOf[c]
    \/ at[c] = "mark" /\ e \in {TokenOf[c], UserOf(c)}

(* A counter ahead of its column is always on its way there: about to be   *)
(* marked, marked, snapshotted, or read and about to be written.  This is  *)
(* what "new consumption during the flush is captured on the next pass"    *)
(* (WriteBack) needs.                                                      *)
NothingForgotten ==
  \A e \in Entities :
    counter[e] # NoKey /\ counter[e] # dbUsed[e] =>
      \/ Unmarked(e)
      \/ \E r \in Replicas : e \in dirty[r] \cup todo[r]
      \/ \E r \in Replicas : cur[r] = e /\ val[r] = counter[e]

(* The durable column never moves backwards, except by a reset.            *)
DurableNeverRegresses ==
  [][\A e \in Entities : dbUsed'[e] >= dbUsed[e] \/ forgiven'[e] # forgiven[e]]_vars

(* Everything consumed reaches the database and stays there.               *)
EventuallyDurable == <>[](\A e \in Entities : dbUsed[e] = Owed(e))

(* TokenService.Update: "Only non-nil input fields change", and TokenInput *)
(* has no used_quota field: saving an edit leaves used_quota alone.        *)
EditKeepsUsage ==
  [][\A x \in Edits : EditSave(x) => UNCHANGED dbUsed]_vars
=============================================================================
