---------------------------- MODULE QuotaProofs ----------------------------
(* Safety of the quota accounting for every number of replicas, requests,  *)
(* keys, resets, edits and faults.                                         *)
EXTENDS Quota, TLAPS

(* What a request's lookup may change. *)
CallVarsOK ==
  /\ at \in [Calls -> {"idle", "row", "get", "seed", "reget", "serving",
                       "incrToken", "incrUser", "mark", "done", "rejected",
                       "failed", "lost"}]
  /\ use \in [Calls -> {"guard", "gate", "consume"}]
  /\ ent \in [Calls -> Entities]
  /\ \A c \in Calls : ent[c] \in {TokenOf[c], UserOf(c)}
  /\ left \in [Calls -> Nat \cup {Unlimited}]
  /\ cost \in [Calls -> Nat]

(* A request's token and user are two different entities. *)
LEMMA CallEntities ==
  ASSUME NEW c \in Calls
  PROVE  /\ TokenOf[c] \in Entities /\ UserOf(c) \in Entities
         /\ TokenOf[c] \in Tokens /\ UserOf(c) \in Users
         /\ TokenOf[c] # UserOf(c)
BY QuotaAssumption DEF Entities, UserOf

(* remaining answers a natural number or the unlimited sentinel. *)
LEMMA RemainingType ==
  ASSUME NEW q \in Int, NEW u \in Int
  PROVE  Remaining(q, u) \in Nat \cup {Unlimited}
BY DEF Remaining, Unlimited

LEMMA MinRemainingType ==
  ASSUME NEW a \in Nat \cup {Unlimited}, NEW b \in Nat \cup {Unlimited}
  PROVE  MinRemaining(a, b) \in Nat \cup {Unlimited}
BY DEF MinRemaining, Unlimited

(* Finishing a lookup keeps the request's variables well typed. *)
LEMMA KnownType ==
  ASSUME CallVarsOK, NEW c \in Calls, NEW u \in Nat, Known(c, u)
  PROVE  CallVarsOK'
<1> DEFINE here == Remaining(Limit[ent[c]], u)
<1>1. here \in Nat \cup {Unlimited}
  BY RemainingType, QuotaAssumption DEF CallVarsOK
<1>2. UserOf(c) \in Entities /\ TokenOf[c] \in Entities
  BY CallEntities
<1>3. \A d \in Calls : UserOf(d)' = UserOf(d)
  BY DEF UserOf
<1> HIDE DEF here
<1>4. /\ ent' \in [Calls -> Entities]
      /\ \A d \in Calls : ent'[d] \in {TokenOf[d], UserOf(d)}
  BY <1>2 DEF CallVarsOK, Known, GuardDecides, GateDecides, ReadyToCharge
<1>5. left' \in [Calls -> Nat \cup {Unlimited}]
  BY <1>1 DEF CallVarsOK, Known, GuardDecides, GateDecides, ReadyToCharge, Unlimited, here
<1>6. use' \in [Calls -> {"guard", "gate", "consume"}]
  BY DEF CallVarsOK, Known, GuardDecides, GateDecides, ReadyToCharge
<1>7. cost' \in [Calls -> Nat]
  BY QuotaAssumption DEF CallVarsOK, Known, GuardDecides, GateDecides, ReadyToCharge
<1>8. at' \in [Calls -> {"idle", "row", "get", "seed", "reget", "serving",
                       "incrToken", "incrUser", "mark", "done", "rejected",
                       "failed", "lost"}]
  BY DEF CallVarsOK, Known, GuardDecides, GateDecides, ReadyToCharge
<1> QED
  BY <1>3, <1>4, <1>5, <1>6, <1>7, <1>8 DEF CallVarsOK

(* Charging an entity keeps the stores and the history well typed. *)
LEMMA ChargeType ==
  ASSUME TypeOK, NEW e \in Entities, NEW n \in Nat, Charge(e, n)
  PROVE  /\ dbUsed' \in [Entities -> Nat]
         /\ counter' \in [Entities -> Nat \cup {NoKey}]
         /\ charged' \in [Entities -> Nat]
BY DEF TypeOK, Charge, NoKey

LEMMA TypeInit == Init => TypeOK
<1> SUFFICES ASSUME Init PROVE TypeOK
  OBVIOUS
<1>1. redis \in BOOLEAN
  BY QuotaAssumption DEF Init
<1> QED
  BY <1>1, QuotaAssumption, CallEntities DEF Init, TypeOK, NoKey, Unlimited

LEMMA TypeStep == TypeOK /\ [Next]_vars => TypeOK'
<1> SUFFICES ASSUME TypeOK, [Next]_vars PROVE TypeOK'
  OBVIOUS
<1> USE DEF TypeOK, store, flush, call, admin, history
<1>1. ASSUME NEW c \in Calls, Arrive(c) PROVE TypeOK'
  BY <1>1 DEF Arrive, Exhausted, UserOf
<1>2. ASSUME NEW c \in Calls, ReadRow(c) PROVE TypeOK'
  <2>1. CASE redis
    BY <1>2, <2>1 DEF ReadRow, UserOf
  <2>2. CASE ~redis
    <3>1. Known(c, dbUsed[ent[c]]) /\ dbUsed[ent[c]] \in Nat
      BY <1>2, <2>2 DEF ReadRow
    <3>2. CallVarsOK'
      BY <3>1, KnownType DEF CallVarsOK
    <3> QED
      BY <1>2, <2>2, <3>2 DEF ReadRow, CallVarsOK, UserOf
  <2> QED
    BY <2>1, <2>2
<1>3. ASSUME NEW c \in Calls, GetCounter(c) PROVE TypeOK'
  <2>1. CASE counter[ent[c]] = NoKey
    BY <1>3, <2>1 DEF GetCounter, UserOf
  <2>2. CASE counter[ent[c]] # NoKey
    <3>1. Known(c, counter[ent[c]]) /\ counter[ent[c]] \in Nat
      BY <1>3, <2>2 DEF GetCounter
    <3>2. CallVarsOK'
      BY <3>1, KnownType DEF CallVarsOK
    <3>3. seed' \in [Calls -> Nat]
      BY <1>3, <2>2 DEF GetCounter
    <3>4. UNCHANGED <<redis, store, flush, admin, faults, history>>
      BY <1>3 DEF GetCounter
    <3> QED
      BY <3>2, <3>3, <3>4 DEF CallVarsOK, UserOf
  <2> QED
    BY <2>1, <2>2
<1>4. ASSUME NEW c \in Calls, SeedCounter(c) PROVE TypeOK'
  BY <1>4 DEF SeedCounter, UserOf
<1>5. ASSUME NEW c \in Calls, ReadBack(c) PROVE TypeOK'
  <2>1. CASE counter[ent[c]] = NoKey
    BY <1>5, <2>1 DEF ReadBack, UserOf
  <2>2. CASE counter[ent[c]] # NoKey
    <3>1. Known(c, counter[ent[c]]) /\ counter[ent[c]] \in Nat
      BY <1>5, <2>2 DEF ReadBack
    <3>2. CallVarsOK'
      BY <3>1, KnownType DEF CallVarsOK
    <3> QED
      BY <1>5, <2>2, <3>2 DEF ReadBack, CallVarsOK, UserOf
  <2> QED
    BY <2>1, <2>2
<1>6. ASSUME NEW c \in Calls, NEW n \in Costs, Served(c, n) PROVE TypeOK'
  <2>1. n \in Nat
    BY <1>6, QuotaAssumption
  <2>2. CASE n = 0
    BY <1>6, <2>2 DEF Served, UserOf
  <2>3. CASE n # 0
    BY <1>6, <2>1, <2>3 DEF Served, UserOf
  <2> QED
    BY <2>2, <2>3
<1>7. ASSUME NEW c \in Calls, ChargeToken(c) PROVE TypeOK'
  <2>1. /\ dbUsed' \in [Entities -> Nat]
        /\ counter' \in [Entities -> Nat \cup {NoKey}]
        /\ charged' \in [Entities -> Nat]
    BY <1>7, ChargeType, CallEntities DEF ChargeToken
  <2> QED
    BY <1>7, <2>1 DEF ChargeToken, UserOf
<1>8. ASSUME NEW c \in Calls, ChargeUser(c) PROVE TypeOK'
  <2>1. /\ dbUsed' \in [Entities -> Nat]
        /\ counter' \in [Entities -> Nat \cup {NoKey}]
        /\ charged' \in [Entities -> Nat]
    BY <1>8, ChargeType, CallEntities DEF ChargeUser
  <2> QED
    BY <1>8, <2>1 DEF ChargeUser, UserOf
<1>9. ASSUME NEW c \in Calls, MarkDirty(c) PROVE TypeOK'
  <2>1. {TokenOf[c], UserOf(c)} \subseteq Entities
    BY CallEntities
  <2>2. dirty' \in [Replicas -> SUBSET Entities]
    BY <1>9, <2>1 DEF MarkDirty
  <2> QED
    BY <1>9, <2>2 DEF MarkDirty, UserOf
<1>n. ASSUME NEW c \in Calls, NextCandidate(c) PROVE TypeOK'
  BY <1>n, QuotaAssumption DEF NextCandidate, UserOf
<1>10. ASSUME NEW c \in Calls, CallFails(c) PROVE TypeOK'
  BY <1>10 DEF CallFails, UserOf
<1>11. ASSUME NEW r \in Replicas, Snapshot(r) PROVE TypeOK'
  BY <1>11 DEF Snapshot, UserOf
<1>12. ASSUME NEW r \in Replicas, NEW e \in Entities, FlushGet(r, e) PROVE TypeOK'
  BY <1>12 DEF FlushGet, UserOf
<1>13. ASSUME NEW r \in Replicas, FlushUpdate(r) PROVE TypeOK'
  BY <1>13 DEF FlushUpdate, UserOf
<1>14. ASSUME NEW r \in Replicas, NEW e \in Entities, FlushGetFails(r, e)
       PROVE TypeOK'
  BY <1>14 DEF FlushGetFails, UserOf
<1>15. ASSUME NEW r \in Replicas, FlushUpdateFails(r) PROVE TypeOK'
  BY <1>15 DEF FlushUpdateFails, UserOf
<1>16. ASSUME NEW r \in Replicas, Crash(r) PROVE TypeOK'
  BY <1>16 DEF Crash, UserOf
<1>17. ASSUME NEW x \in Resets, ZeroRow(x) PROVE TypeOK'
  BY <1>17, QuotaAssumption DEF ZeroRow, UserOf, Entities
<1>18. ASSUME NEW x \in Resets, ForgetDirty(x) PROVE TypeOK'
  BY <1>18 DEF ForgetDirty, UserOf
<1>19. ASSUME NEW x \in Resets, DelKey(x) PROVE TypeOK'
  BY <1>19 DEF DelKey, UserOf
<1>20. ASSUME NEW x \in Edits, EditRead(x) PROVE TypeOK'
  BY <1>20, QuotaAssumption DEF EditRead, UserOf, Entities
<1>21. ASSUME NEW x \in Edits, EditSave(x) PROVE TypeOK'
  BY <1>21 DEF EditSave, UserOf
<1>22. ASSUME NEW keys, RedisLoses(keys) PROVE TypeOK'
  BY <1>22 DEF RedisLoses, UserOf
<1>23. CASE UNCHANGED vars
  BY <1>23 DEF vars, UserOf
<1> QED
  BY <1>1, <1>2, <1>3, <1>4, <1>5, <1>6, <1>7, <1>n, <1>8, <1>9, <1>10, <1>11, <1>12,
     <1>13, <1>14, <1>15, <1>16, <1>17, <1>18, <1>19, <1>20, <1>21, <1>22, <1>23
     DEF Next, Progress, WriteBack, ResetUserUsage

(* Every variable keeps its type in every execution.                       *)
THEOREM TypeCorrect == Spec => []TypeOK
<1>1. Init => TypeOK
  BY TypeInit
<1>2. TypeOK /\ [Next]_vars => TypeOK'
  BY TypeStep
<1> QED
  BY <1>1, <1>2, PTL DEF Spec

-----------------------------------------------------------------------------
(* No over-billing.  The inductive invariant adds that a request outside   *)
(* the GET and the SETNX of a lookup holds no stale seed.                  *)

NoStaleSeed ==
  \A c \in Calls : at[c] \in {"idle", "row", "reget", "serving"} => seed[c] = 0

PhantomInv == TypeOK /\ NoPhantomUsage /\ NoStaleSeed

(* Finishing a lookup concerns only the request that made it. *)
LEMMA KnownLocal ==
  ASSUME CallVarsOK, NEW c \in Calls, NEW u, Known(c, u)
  PROVE  /\ ent'[c] \in Entities
         /\ \A d \in Calls \ {c} : /\ at'[d] = at[d] /\ use'[d] = use[d]
                                   /\ ent'[d] = ent[d] /\ left'[d] = left[d]
<1>1. UserOf(c) \in Entities /\ TokenOf[c] \in Entities
  BY CallEntities
<1>2. ent'[c] \in Entities
  BY <1>1 DEF CallVarsOK, Known, GuardDecides, GateDecides, ReadyToCharge
<1>3. \A d \in Calls \ {c} : ent'[d] = ent[d] /\ left'[d] = left[d]
  BY DEF CallVarsOK, Known, GuardDecides, GateDecides, ReadyToCharge
<1>4. \A d \in Calls \ {c} : at'[d] = at[d] /\ use'[d] = use[d]
  BY DEF CallVarsOK, Known, GuardDecides, GateDecides, ReadyToCharge
<1> QED
  BY <1>2, <1>3, <1>4

(* A charge raises one entity's history, and its live count by no more. *)
LEMMA ChargeBounds ==
  ASSUME TypeOK, NEW e \in Entities, NEW n \in Nat, Charge(e, n), NoPhantomUsage
  PROVE  \A d \in Entities : /\ charged[d] <= charged'[d]
                             /\ dbUsed'[d] <= charged'[d] /\ counter'[d] <= charged'[d]
BY DEF TypeOK, Charge, NoKey, NoPhantomUsage

LEMMA PhantomInit == Init => PhantomInv
<1> SUFFICES ASSUME Init PROVE PhantomInv
  OBVIOUS
<1>1. TypeOK
  BY TypeInit
<1>2. NoPhantomUsage
  BY <1>1, QuotaAssumption, CallEntities
     DEF Init, NoPhantomUsage, NoKey, TypeOK, Entities
<1> QED
  BY <1>1, <1>2 DEF Init, PhantomInv, NoStaleSeed

LEMMA PhantomStep == PhantomInv /\ [Next]_vars => PhantomInv'
<1> SUFFICES ASSUME TypeOK, NoPhantomUsage, NoStaleSeed, [Next]_vars
             PROVE  NoPhantomUsage' /\ NoStaleSeed'
  BY TypeStep DEF PhantomInv
<1>t. /\ \A c \in Calls : TokenOf[c] \in Entities /\ UserOf(c) \in Entities
      /\ \A x \in Edits : EditToken[x] \in Entities
      /\ \A x \in Resets : ResetUser[x] \in Entities
  BY CallEntities, QuotaAssumption DEF Entities
<1> USE DEF NoPhantomUsage, NoStaleSeed, store, flush, call, admin, history
<1>1. ASSUME NEW c \in Calls, Arrive(c) PROVE NoPhantomUsage' /\ NoStaleSeed'
  BY <1>1 DEF Arrive, TypeOK, PhantomInv
<1>k. ASSUME NEW c \in Calls, NEW u, Known(c, u), seed' = [seed EXCEPT ![c] = 0],
             UNCHANGED <<store, flush, admin, history>>
      PROVE  NoPhantomUsage' /\ NoStaleSeed'
  <2>1. CallVarsOK
    BY DEF TypeOK, CallVarsOK
  <2>2. /\ ent'[c] \in Entities
        /\ \A d \in Calls \ {c} : at'[d] = at[d] /\ ent'[d] = ent[d]
    BY <2>1, <1>k, KnownLocal
  <2> QED
    BY <2>2, <1>k DEF TypeOK
<1>2. ASSUME NEW c \in Calls, ReadRow(c) PROVE NoPhantomUsage' /\ NoStaleSeed'
  <2>1. CASE redis
    BY <1>2, <2>1 DEF ReadRow, TypeOK
  <2>2. CASE ~redis
    <3>1. seed' = [seed EXCEPT ![c] = 0]
      BY <1>2, <2>2 DEF ReadRow, TypeOK
    <3> QED
      BY <1>2, <2>2, <3>1, <1>k DEF ReadRow
  <2> QED
    BY <2>1, <2>2
<1>3. ASSUME NEW c \in Calls, GetCounter(c) PROVE NoPhantomUsage' /\ NoStaleSeed'
  <2>1. CASE counter[ent[c]] = NoKey
    BY <1>3, <2>1 DEF GetCounter, TypeOK
  <2>2. CASE counter[ent[c]] # NoKey
    BY <1>3, <2>2, <1>k DEF GetCounter
  <2> QED
    BY <2>1, <2>2
<1>4. ASSUME NEW c \in Calls, SeedCounter(c) PROVE NoPhantomUsage' /\ NoStaleSeed'
  BY <1>4 DEF SeedCounter, TypeOK
<1>5. ASSUME NEW c \in Calls, ReadBack(c) PROVE NoPhantomUsage' /\ NoStaleSeed'
  <2>1. CASE counter[ent[c]] = NoKey
    BY <1>5, <2>1 DEF ReadBack, TypeOK
  <2>2. CASE counter[ent[c]] # NoKey
    <3>1. seed' = [seed EXCEPT ![c] = 0]
      BY <1>5 DEF ReadBack, TypeOK
    <3> QED
      BY <1>5, <2>2, <3>1, <1>k DEF ReadBack
  <2> QED
    BY <2>1, <2>2
<1>6. ASSUME NEW c \in Calls, NEW n \in Costs, Served(c, n)
      PROVE  NoPhantomUsage' /\ NoStaleSeed'
  <2>1. /\ UNCHANGED <<store, flush, ent, seed, admin, history>>
        /\ \A d \in Calls : d # c => at'[d] = at[d]
    BY <1>6 DEF Served, TypeOK
  <2>2. seed[c] = 0
    BY <1>6 DEF Served
  <2> QED
    BY <2>1, <2>2
<1>7. ASSUME NEW c \in Calls, ChargeToken(c) PROVE NoPhantomUsage' /\ NoStaleSeed'
  <2>1. \A d \in Entities : /\ charged[d] <= charged'[d]
                            /\ dbUsed'[d] <= charged'[d] /\ counter'[d] <= charged'[d]
    BY <1>7, <1>t, ChargeBounds DEF ChargeToken, TypeOK
  <2>2. charged' \in [Entities -> Nat]
    BY <1>7, <1>t, ChargeType DEF ChargeToken, TypeOK
  <2> QED
    BY <1>7, <2>1, <2>2, <1>t DEF ChargeToken, TypeOK
<1>8. ASSUME NEW c \in Calls, ChargeUser(c) PROVE NoPhantomUsage' /\ NoStaleSeed'
  <2>1. \A d \in Entities : /\ charged[d] <= charged'[d]
                            /\ dbUsed'[d] <= charged'[d] /\ counter'[d] <= charged'[d]
    BY <1>8, <1>t, ChargeBounds DEF ChargeUser, TypeOK
  <2>2. charged' \in [Entities -> Nat]
    BY <1>8, <1>t, ChargeType DEF ChargeUser, TypeOK
  <2> QED
    BY <1>8, <2>1, <2>2, <1>t DEF ChargeUser, TypeOK
<1>9. ASSUME NEW c \in Calls, MarkDirty(c) PROVE NoPhantomUsage' /\ NoStaleSeed'
  BY <1>9 DEF MarkDirty, TypeOK
<1>n. ASSUME NEW c \in Calls, NextCandidate(c) PROVE NoPhantomUsage' /\ NoStaleSeed'
  BY <1>n DEF NextCandidate, TypeOK
<1>10. ASSUME NEW c \in Calls, CallFails(c) PROVE NoPhantomUsage' /\ NoStaleSeed'
  BY <1>10 DEF CallFails, TypeOK
<1>11. ASSUME NEW r \in Replicas, Snapshot(r) PROVE NoPhantomUsage' /\ NoStaleSeed'
  BY <1>11 DEF Snapshot
<1>12. ASSUME NEW r \in Replicas, NEW e \in Entities, FlushGet(r, e)
       PROVE  NoPhantomUsage' /\ NoStaleSeed'
  BY <1>12 DEF FlushGet, TypeOK
<1>13. ASSUME NEW r \in Replicas, FlushUpdate(r) PROVE NoPhantomUsage' /\ NoStaleSeed'
  BY <1>13 DEF FlushUpdate, TypeOK
<1>14. ASSUME NEW r \in Replicas, NEW e \in Entities, FlushGetFails(r, e)
       PROVE  NoPhantomUsage' /\ NoStaleSeed'
  BY <1>14 DEF FlushGetFails
<1>15. ASSUME NEW r \in Replicas, FlushUpdateFails(r)
       PROVE  NoPhantomUsage' /\ NoStaleSeed'
  BY <1>15 DEF FlushUpdateFails, TypeOK
<1>16. ASSUME NEW r \in Replicas, Crash(r) PROVE NoPhantomUsage' /\ NoStaleSeed'
  BY <1>16 DEF Crash, TypeOK
<1>17. ASSUME NEW x \in Resets, ZeroRow(x) PROVE NoPhantomUsage' /\ NoStaleSeed'
  BY <1>17, <1>t DEF ZeroRow, TypeOK
<1>18. ASSUME NEW x \in Resets, ForgetDirty(x) PROVE NoPhantomUsage' /\ NoStaleSeed'
  BY <1>18 DEF ForgetDirty
<1>19. ASSUME NEW x \in Resets, DelKey(x) PROVE NoPhantomUsage' /\ NoStaleSeed'
  BY <1>19, <1>t DEF DelKey, TypeOK, NoKey
<1>20. ASSUME NEW x \in Edits, EditRead(x) PROVE NoPhantomUsage' /\ NoStaleSeed'
  BY <1>20, <1>t DEF EditRead, TypeOK
<1>21. ASSUME NEW x \in Edits, EditSave(x) PROVE NoPhantomUsage' /\ NoStaleSeed'
  BY <1>21, <1>t DEF EditSave, TypeOK
<1>22. ASSUME NEW keys, RedisLoses(keys) PROVE NoPhantomUsage' /\ NoStaleSeed'
  BY <1>22 DEF RedisLoses, TypeOK, NoKey
<1>23. CASE UNCHANGED vars
  BY <1>23 DEF vars
<1> QED
  BY <1>1, <1>2, <1>3, <1>4, <1>5, <1>6, <1>7, <1>n, <1>8, <1>9, <1>10, <1>11, <1>12,
     <1>13, <1>14, <1>15, <1>16, <1>17, <1>18, <1>19, <1>20, <1>21, <1>22, <1>23
     DEF Next, Progress, WriteBack, ResetUserUsage

(* Nobody is ever billed for more than was consumed, for any number of     *)
(* replicas and requests and any interleaving of flushes, resets, edits,   *)
(* crashes, store errors and Redis losses.                                 *)
THEOREM NeverOverBilled == Spec => []NoPhantomUsage
<1>1. Init => PhantomInv
  BY PhantomInit
<1>2. PhantomInv /\ [Next]_vars => PhantomInv'
  BY PhantomStep
<1>3. PhantomInv => NoPhantomUsage
  BY DEF PhantomInv
<1> QED
  BY <1>1, <1>2, <1>3, PTL DEF Spec

-----------------------------------------------------------------------------
(* Exactness of the live counter.  While e is undisturbed its counter,     *)
(* once created, is never lost, so it only has to be created right: as     *)
(* long as it is missing, the column and every copy of the column still    *)
(* hold the exact value, and nobody is past the point that relies on it.   *)

(* Request c relies on the counter of e existing. *)
PastLookup(c, e) ==
  \/ at[c] = "reget" /\ ent[c] = e
  \/ /\ e = TokenOf[c]
     /\ \/ /\ use[c] = "consume" /\ ent[c] = UserOf(c)
           /\ at[c] \in {"row", "get", "seed", "reget"}
        \/ at[c] = "incrToken"
  \/ e = UserOf(c) /\ at[c] \in {"incrToken", "incrUser"}

(* Nothing that could create a wrong counter for e is under way. *)
CleanStart(e) ==
  /\ \A c \in Calls : at[c] \in {"get", "seed"} /\ ent[c] = e => seed[c] = charged[e]
  /\ \A c \in Calls : ~PastLookup(c, e)
  /\ \A r \in Replicas : cur[r] # e
  /\ \A x \in Edits :
       editAt[x] = "save" /\ EditToken[x] = e => editUsed[x] = charged[e]

ExactOn(e) ==
  /\ forgiven[e] = 0
  /\ counter[e] # NoKey => counter[e] = charged[e]
  /\ counter[e] = NoKey => dbUsed[e] = charged[e]
  /\ redis /\ counter[e] = NoKey => CleanStart(e)

(* A request that has not started, or is being served, is between lookups. *)
BetweenLookups ==
  \A c \in Calls : /\ at[c] \in {"idle", "serving"} => ent[c] = TokenOf[c]
                   /\ at[c] = "idle" => use[c] = "guard"

(* Without Redis nothing touches a counter. *)
DBOnly ==
  ~redis =>
    /\ \A e \in Entities : counter[e] = NoKey
    /\ \A r \in Replicas : todo[r] = {} /\ cur[r] = NoRow
    /\ \A c \in Calls : at[c] \notin {"get", "seed", "reget"}

ExactInv ==
  TypeOK /\ DBOnly /\ BetweenLookups /\ \A e \in Entities : Undisturbed(e) => ExactOn(e)

(* An entity that is undisturbed after a step was so before it.            *)
LEMMA UndisturbedBack ==
  ASSUME TypeOK, [Next]_vars, NEW e \in Entities, Undisturbed(e)'
  PROVE  Undisturbed(e)
<1> USE DEF Undisturbed, TypeOK, store, flush, call, admin, history
<1>1. ASSUME NEW c \in Calls, Arrive(c) \/ Progress(c) \/ NextCandidate(c) \/ CallFails(c)
      PROVE  Undisturbed(e)
  <2>1. UNCHANGED <<redis, admin>> /\ faults'.loss = faults.loss
    BY <1>1 DEF Arrive, Progress, NextCandidate, CallFails, ReadRow, GetCounter, SeedCounter,
                ReadBack, Served, ChargeToken, ChargeUser, MarkDirty
  <2> QED
    BY <2>1
<1>2. ASSUME NEW r \in Replicas,
             \/ WriteBack(r) \/ FlushUpdateFails(r)
             \/ \E f \in Entities : FlushGetFails(r, f)
      PROVE  Undisturbed(e)
  <2>1. UNCHANGED <<redis, admin>> /\ faults'.loss = faults.loss
    BY <1>2 DEF WriteBack, Snapshot, FlushGet, FlushUpdate, FlushUpdateFails,
                FlushGetFails
  <2> QED
    BY <2>1
<1>3. ASSUME NEW r \in Replicas, Crash(r) PROVE Undisturbed(e)
  BY <1>3 DEF Crash
<1>4. ASSUME NEW x \in Resets, ResetUserUsage(x) PROVE Undisturbed(e)
  BY <1>4 DEF ResetUserUsage, ZeroRow, ForgetDirty, DelKey
<1>5. ASSUME NEW x \in Edits, EditRead(x) \/ EditSave(x) PROVE Undisturbed(e)
  BY <1>5 DEF EditRead, EditSave
<1>6. ASSUME NEW keys, RedisLoses(keys) PROVE Undisturbed(e)
  BY <1>6 DEF RedisLoses
<1>7. CASE UNCHANGED vars
  BY <1>7 DEF vars
<1> QED
  BY <1>1, <1>2, <1>3, <1>4, <1>5, <1>6, <1>7 DEF Next

LEMMA ExactInit == Init => ExactInv
<1> SUFFICES ASSUME Init PROVE ExactInv
  OBVIOUS
<1>1. TypeOK
  BY TypeInit
<1>2. DBOnly
  BY DEF Init, DBOnly
<1>3. ASSUME NEW e \in Entities PROVE ExactOn(e)
  <2>1. CleanStart(e)
    BY QuotaAssumption DEF Init, CleanStart, PastLookup
  <2> QED
    BY <2>1 DEF Init, ExactOn
<1> QED
  BY <1>1, <1>2, <1>3 DEF ExactInv, Init, BetweenLookups

LEMMA ExactStep == ExactInv /\ [Next]_vars => ExactInv'
<1> SUFFICES ASSUME ExactInv, [Next]_vars
             PROVE  /\ DBOnly' /\ BetweenLookups'
                    /\ \A e \in Entities : Undisturbed(e)' => ExactOn(e)'
  BY TypeStep DEF ExactInv
<1> DEFINE Good == DBOnly' /\ BetweenLookups' /\ \A e \in Entities : Undisturbed(e)' => ExactOn(e)'
<1>t. /\ TypeOK /\ DBOnly /\ BetweenLookups
      /\ \A c \in Calls : /\ TokenOf[c] \in Entities /\ UserOf(c) \in Entities
                          /\ TokenOf[c] # UserOf(c)
      /\ \A x \in Edits : EditToken[x] \in Entities
      /\ \A x \in Resets : ResetUser[x] \in Entities
  BY CallEntities, QuotaAssumption DEF Entities, ExactInv
<1>u. ASSUME NEW e \in Entities, Undisturbed(e)' PROVE Undisturbed(e) /\ ExactOn(e)
  BY <1>u, UndisturbedBack DEF ExactInv
<1> USE DEF store, flush, call, admin, history
<1>k. ASSUME NEW c \in Calls, NEW u, Known(c, u), at[c] \in {"row", "get", "reget"},
             redis => counter[ent[c]] # NoKey,
             UNCHANGED <<redis, store, flush, admin, faults, history>>,
             \A d \in Calls \ {c} : seed'[d] = seed[d]
      PROVE  Good
  <2>1. \A d \in Calls \ {c} : /\ at'[d] = at[d] /\ use'[d] = use[d]
                               /\ ent'[d] = ent[d]
    BY <1>k, <1>t, KnownLocal DEF TypeOK, CallVarsOK
  <2>2. at'[c] \in {"row", "rejected", "serving", "incrToken"}
    BY <1>k, <1>t DEF Known, GuardDecides, GateDecides, ReadyToCharge, TypeOK
  <2>3. at'[c] = "serving" => ent'[c] = TokenOf[c]
    BY <1>k, <1>t DEF Known, GuardDecides, GateDecides, ReadyToCharge, TypeOK
  <2>4. DBOnly' /\ BetweenLookups'
    BY <1>k, <1>t, <2>1, <2>2, <2>3 DEF DBOnly, BetweenLookups
  <2>5. ASSUME NEW e \in Entities, redis, counter[e] = NoKey, CleanStart(e)
        PROVE  ~PastLookup(c, e)'
    <3>1. e # ent[c] /\ ~PastLookup(c, e)
      BY <1>k, <2>5 DEF CleanStart
    <3>2. CASE ent[c] = TokenOf[c]
      <4>1. ent'[c] = UserOf(c) /\ at'[c] = "row"
        BY <3>2, <1>k, <1>t DEF Known, GuardDecides, GateDecides, ReadyToCharge, TypeOK
      <4> QED
        BY <4>1, <3>1, <3>2, <1>t DEF PastLookup, UserOf
    <3>3. CASE ent[c] = UserOf(c)
      <4>1. ent'[c] = TokenOf[c]
        BY <3>3, <1>k, <1>t DEF Known, GuardDecides, GateDecides, ReadyToCharge, TypeOK
      <4>2. at'[c] = "incrToken" => use[c] = "consume"
        BY <3>3, <1>k, <1>t DEF Known, GuardDecides, GateDecides, ReadyToCharge, TypeOK
      <4>3. use[c] = "consume" => e # TokenOf[c]
        BY <3>1, <3>3, <1>k DEF PastLookup
      <4> QED
        BY <4>1, <4>2, <4>3, <3>1, <3>3, <2>2, <1>t DEF PastLookup, UserOf
    <3> QED
      BY <3>2, <3>3, <1>t DEF TypeOK
  <2>6. ASSUME NEW e \in Entities, ExactOn(e) PROVE ExactOn(e)'
    <3>1. ASSUME redis, counter[e] = NoKey PROVE CleanStart(e)'
      <4>1. CleanStart(e)
        BY <3>1, <2>6 DEF ExactOn
      <4>2. ~PastLookup(c, e)'
        BY <3>1, <4>1, <2>5
      <4>3. \A d \in Calls \ {c} : ~PastLookup(d, e)'
        BY <4>1, <2>1 DEF CleanStart, PastLookup, UserOf
      <4> QED
        BY <4>1, <4>2, <4>3, <2>1, <2>2, <1>k DEF CleanStart
    <3> QED
      BY <3>1, <2>6, <1>k DEF ExactOn
  <2> QED
    BY <2>4, <2>6, <1>u
<1>2. ASSUME NEW c \in Calls, ReadRow(c) PROVE Good
  <2>1. CASE ~redis
    BY <1>2, <2>1, <1>k DEF ReadRow
  <2>2. CASE redis
    <3>1. /\ seed' = [seed EXCEPT ![c] = dbUsed[ent[c]]]
          /\ at' = [at EXCEPT ![c] = "get"] /\ at[c] = "row"
          /\ UNCHANGED <<redis, store, flush, use, ent, admin, history>>
      BY <1>2, <2>2 DEF ReadRow
    <3>2. DBOnly' /\ BetweenLookups'
      BY <3>1, <2>2, <1>t DEF DBOnly, BetweenLookups, TypeOK
    <3>3. ASSUME NEW e \in Entities, ExactOn(e) PROVE ExactOn(e)'
      <4>1. ASSUME counter[e] = NoKey PROVE CleanStart(e)'
        <5>1. CleanStart(e) /\ dbUsed[e] = charged[e]
          BY <4>1, <3>3, <2>2 DEF ExactOn
        <5>2. \A d \in Calls : ~PastLookup(d, e)'
          BY <5>1, <3>1, <1>t DEF CleanStart, PastLookup, UserOf, TypeOK
        <5> QED
          BY <5>1, <5>2, <3>1, <1>t DEF CleanStart, TypeOK
      <4> QED
        BY <4>1, <3>3, <3>1, <2>2 DEF ExactOn
    <3> QED
      BY <3>2, <3>3, <1>u
  <2> QED
    BY <2>1, <2>2
<1>3. ASSUME NEW c \in Calls, GetCounter(c) PROVE Good
  <2>0. redis
    BY <1>3, <1>t DEF GetCounter, DBOnly
  <2>1. CASE counter[ent[c]] # NoKey
    <3>1. \A d \in Calls \ {c} : seed'[d] = seed[d]
      BY <1>3, <2>1, <1>t DEF GetCounter, TypeOK
    <3> QED
      BY <1>3, <2>1, <3>1, <1>k DEF GetCounter
  <2>2. CASE counter[ent[c]] = NoKey
    <3>1. /\ at' = [at EXCEPT ![c] = "seed"] /\ at[c] = "get"
          /\ UNCHANGED <<redis, store, flush, use, ent, seed, admin, history>>
      BY <1>3, <2>2 DEF GetCounter
    <3>2. DBOnly' /\ BetweenLookups'
      BY <3>1, <2>0, <1>t DEF DBOnly, BetweenLookups, TypeOK
    <3>3. ASSUME NEW e \in Entities, ExactOn(e) PROVE ExactOn(e)'
      <4>1. ASSUME counter[e] = NoKey PROVE CleanStart(e)'
        <5>1. CleanStart(e)
          BY <4>1, <3>3, <2>0 DEF ExactOn
        <5>2. \A d \in Calls : ~PastLookup(d, e)'
          BY <5>1, <3>1, <1>t DEF CleanStart, PastLookup, UserOf, TypeOK
        <5> QED
          BY <5>1, <5>2, <3>1, <1>t DEF CleanStart, TypeOK
      <4> QED
        BY <4>1, <3>3, <3>1, <2>0 DEF ExactOn
    <3> QED
      BY <3>2, <3>3, <1>u
  <2> QED
    BY <2>1, <2>2
<1>5. ASSUME NEW c \in Calls, ReadBack(c) PROVE Good
  <2>0. redis
    BY <1>5, <1>t DEF ReadBack, DBOnly
  <2>1. CASE counter[ent[c]] # NoKey
    BY <1>5, <2>1, <1>k DEF ReadBack
  <2>2. CASE counter[ent[c]] = NoKey
    <3>1. /\ at' = [at EXCEPT ![c] = "failed"]
          /\ UNCHANGED <<redis, store, flush, use, ent, seed, admin, history>>
      BY <1>5, <2>2 DEF ReadBack
    <3>2. DBOnly' /\ BetweenLookups'
      BY <3>1, <2>0, <1>t DEF DBOnly, BetweenLookups, TypeOK
    <3>3. ASSUME NEW e \in Entities, ExactOn(e) PROVE ExactOn(e)'
      BY <3>1, <3>3, <2>0, <1>t
         DEF ExactOn, CleanStart, PastLookup, UserOf, TypeOK
    <3> QED
      BY <3>2, <3>3, <1>u
  <2> QED
    BY <2>1, <2>2
<1>6. ASSUME NEW c \in Calls, Arrive(c) PROVE Good
  <2>1. DBOnly' /\ BetweenLookups'
    BY <1>6, <1>t DEF Arrive, DBOnly, TypeOK, BetweenLookups, UserOf
  <2>2. ASSUME NEW e \in Entities, Undisturbed(e)', ExactOn(e) PROVE ExactOn(e)'
    <3>1. /\ forgiven'[e] = 0
          /\ counter'[e] # NoKey => counter'[e] = charged'[e]
          /\ counter'[e] = NoKey => dbUsed'[e] = charged'[e]
      BY <1>6, <1>t, <2>2
         DEF Arrive, TypeOK, DBOnly, Undisturbed, ExactOn, CleanStart, PastLookup
    <3>2. ASSUME redis', counter'[e] = NoKey PROVE CleanStart(e)'
      <4>1. /\ redis /\ CleanStart(e) /\ use[c] = "guard"
            /\ at' = [at EXCEPT ![c] = "row"]
            /\ UNCHANGED <<redis, flush, use, ent, seed, admin, charged>>
        <5>1. UNCHANGED <<redis, store, flush, ent, seed, admin, charged>>
          BY <1>6 DEF Arrive
        <5>2. redis /\ CleanStart(e)
          BY <5>1, <2>2, <3>2 DEF ExactOn
        <5>3. at[c] \in {"idle", "serving"} /\ ent[c] = TokenOf[c]
          BY <1>6, <1>t DEF Arrive, BetweenLookups
        <5> QED
          BY <5>1, <5>2, <5>3, <1>6, <1>t DEF Arrive, BetweenLookups
      <4>2. \A d \in Calls : ~PastLookup(d, e)'
        BY <4>1, <1>t DEF CleanStart, PastLookup, UserOf, TypeOK
      <4> QED
        BY <4>1, <4>2, <1>t DEF CleanStart, TypeOK
    <3> QED
      BY <3>1, <3>2 DEF ExactOn
  <2> QED
    BY <2>1, <2>2, <1>u
<1>7. ASSUME NEW c \in Calls, SeedCounter(c) PROVE Good
  <2>1. DBOnly' /\ BetweenLookups'
    BY <1>7, <1>t DEF SeedCounter, DBOnly, TypeOK, BetweenLookups, UserOf
  <2>2. ASSUME NEW e \in Entities, Undisturbed(e)', ExactOn(e) PROVE ExactOn(e)'
    <3>1. /\ forgiven'[e] = 0
          /\ counter'[e] # NoKey => counter'[e] = charged'[e]
          /\ counter'[e] = NoKey => dbUsed'[e] = charged'[e]
      BY <1>7, <1>t, <2>2
         DEF SeedCounter, TypeOK, DBOnly, Undisturbed, ExactOn, CleanStart, PastLookup
    <3>2. ASSUME redis', counter'[e] = NoKey PROVE CleanStart(e)'
      BY <1>7, <1>t, <2>2, <3>2
         DEF SeedCounter, NoKey, TypeOK, Undisturbed, ExactOn, CleanStart, PastLookup, UserOf
    <3> QED
      BY <3>1, <3>2 DEF ExactOn
  <2> QED
    BY <2>1, <2>2, <1>u
<1>8. ASSUME NEW c \in Calls, NEW n \in Costs, Served(c, n) PROVE Good
  <2>1. DBOnly' /\ BetweenLookups'
    BY <1>8, <1>t DEF Served, DBOnly, TypeOK, BetweenLookups, UserOf
  <2>2. ASSUME NEW e \in Entities, Undisturbed(e)', ExactOn(e) PROVE ExactOn(e)'
    <3>1. /\ forgiven'[e] = 0
          /\ counter'[e] # NoKey => counter'[e] = charged'[e]
          /\ counter'[e] = NoKey => dbUsed'[e] = charged'[e]
      BY <1>8, <1>t, <2>2
         DEF Served, TypeOK, DBOnly, Undisturbed, ExactOn, CleanStart, PastLookup
    <3>2. ASSUME redis', counter'[e] = NoKey PROVE CleanStart(e)'
      <4>1. /\ redis /\ CleanStart(e) /\ ent[c] = TokenOf[c]
            /\ \/ at' = [at EXCEPT ![c] = "done"] /\ use' = use
               \/ at' = [at EXCEPT ![c] = "row"] /\ use' = [use EXCEPT ![c] = "consume"]
            /\ UNCHANGED <<redis, flush, ent, seed, admin, charged>>
        <5>1. UNCHANGED <<redis, store, flush, ent, seed, admin, charged>>
          BY <1>8 DEF Served
        <5>2. redis /\ CleanStart(e)
          BY <5>1, <2>2, <3>2 DEF ExactOn
        <5>3. at[c] \in {"idle", "serving"} /\ ent[c] = TokenOf[c]
          BY <1>8, <1>t DEF Served, BetweenLookups
        <5> QED
          BY <5>1, <5>2, <5>3, <1>8, <1>t DEF Served, BetweenLookups
      <4>2. \A d \in Calls : ~PastLookup(d, e)'
        BY <4>1, <1>t DEF CleanStart, PastLookup, UserOf, TypeOK
      <4> QED
        BY <4>1, <4>2, <1>t DEF CleanStart, TypeOK
    <3> QED
      BY <3>1, <3>2 DEF ExactOn
  <2> QED
    BY <2>1, <2>2, <1>u
<1>n. ASSUME NEW c \in Calls, NextCandidate(c) PROVE Good
  <2>1. DBOnly' /\ BetweenLookups'
    BY <1>n, <1>t DEF NextCandidate, DBOnly, TypeOK, BetweenLookups, UserOf
  <2>2. ASSUME NEW e \in Entities, Undisturbed(e)', ExactOn(e) PROVE ExactOn(e)'
    <3>1. /\ forgiven'[e] = 0
          /\ counter'[e] # NoKey => counter'[e] = charged'[e]
          /\ counter'[e] = NoKey => dbUsed'[e] = charged'[e]
      BY <1>n, <1>t, <2>2
         DEF NextCandidate, TypeOK, DBOnly, Undisturbed, ExactOn, CleanStart, PastLookup
    <3>2. ASSUME redis', counter'[e] = NoKey PROVE CleanStart(e)'
      <4>1. UNCHANGED <<redis, store, flush, use, ent, seed, admin, charged>>
        BY <1>n DEF NextCandidate
      <4>2. redis /\ CleanStart(e)
        BY <4>1, <2>2, <3>2 DEF ExactOn
      <4>3. at' = [at EXCEPT ![c] = "row"] /\ ent[c] = TokenOf[c]
        BY <1>n, <1>t DEF NextCandidate, BetweenLookups
      <4>4. \A d \in Calls : ~PastLookup(d, e)'
        BY <4>1, <4>2, <4>3, <1>t DEF CleanStart, PastLookup, UserOf, TypeOK
      <4> QED
        BY <4>1, <4>2, <4>3, <4>4, <1>t DEF CleanStart, TypeOK
    <3> QED
      BY <3>1, <3>2 DEF ExactOn
  <2> QED
    BY <2>1, <2>2, <1>u
<1>9. ASSUME NEW c \in Calls, ChargeToken(c) PROVE Good
  <2>1. DBOnly' /\ BetweenLookups'
    BY <1>9, <1>t DEF ChargeToken, DBOnly, TypeOK, BetweenLookups, UserOf, Charge
  <2>2. ASSUME NEW e \in Entities, Undisturbed(e)', ExactOn(e), Undisturbed(e)
        PROVE  ExactOn(e)'
    <3>1. PastLookup(c, TokenOf[c]) /\ PastLookup(c, UserOf(c))
      BY <1>9 DEF ChargeToken, PastLookup
    <3>2. e = TokenOf[c] /\ redis => counter[e] # NoKey
      BY <2>2, <3>1 DEF ExactOn, CleanStart
    <3>3. cost[c] \in Nat /\ counter[e] \in Nat \cup {NoKey} /\ charged[e] \in Nat
          /\ dbUsed[e] \in Nat /\ (~redis => counter[e] = NoKey)
      BY <1>t DEF TypeOK, DBOnly
    <3>4. /\ forgiven'[e] = 0
          /\ counter'[e] # NoKey => counter'[e] = charged'[e]
          /\ counter'[e] = NoKey => dbUsed'[e] = charged'[e]
          /\ counter'[e] = NoKey /\ redis => counter[e] = NoKey /\ charged'[e] = charged[e]
      BY <1>9, <1>t, <2>2, <3>2, <3>3
         DEF ChargeToken, Charge, TypeOK, ExactOn, NoKey
    <3>5. ASSUME redis', counter'[e] = NoKey PROVE CleanStart(e)'
      <4>1. /\ redis /\ CleanStart(e) /\ charged'[e] = charged[e]
            /\ at' = [at EXCEPT ![c] = "incrUser"]
            /\ UNCHANGED <<redis, flush, use, ent, seed, admin>>
        BY <1>9, <2>2, <3>4, <3>5 DEF ChargeToken, ExactOn
      <4>2. \A d \in Calls : ~PastLookup(d, e)'
        BY <4>1, <3>1, <1>t DEF CleanStart, PastLookup, UserOf, TypeOK
      <4> QED
        BY <4>1, <4>2, <1>t DEF CleanStart, TypeOK
    <3> QED
      BY <3>4, <3>5 DEF ExactOn
  <2> QED
    BY <2>1, <2>2, <1>u
<1>10. ASSUME NEW c \in Calls, ChargeUser(c) PROVE Good
  <2>1. DBOnly' /\ BetweenLookups'
    BY <1>10, <1>t DEF ChargeUser, DBOnly, TypeOK, BetweenLookups, UserOf, Charge
  <2>2. ASSUME NEW e \in Entities, Undisturbed(e)', ExactOn(e), Undisturbed(e)
        PROVE  ExactOn(e)'
    <3>1. PastLookup(c, UserOf(c))
      BY <1>10 DEF ChargeUser, PastLookup
    <3>2. e = UserOf(c) /\ redis => counter[e] # NoKey
      BY <2>2, <3>1 DEF ExactOn, CleanStart
    <3>3. cost[c] \in Nat /\ counter[e] \in Nat \cup {NoKey} /\ charged[e] \in Nat
          /\ dbUsed[e] \in Nat /\ (~redis => counter[e] = NoKey)
      BY <1>t DEF TypeOK, DBOnly
    <3>4. /\ forgiven'[e] = 0
          /\ counter'[e] # NoKey => counter'[e] = charged'[e]
          /\ counter'[e] = NoKey => dbUsed'[e] = charged'[e]
          /\ counter'[e] = NoKey /\ redis => counter[e] = NoKey /\ charged'[e] = charged[e]
      BY <1>10, <1>t, <2>2, <3>2, <3>3
         DEF ChargeUser, Charge, TypeOK, ExactOn, NoKey
    <3>5. ASSUME redis', counter'[e] = NoKey PROVE CleanStart(e)'
      <4>1. /\ redis /\ CleanStart(e) /\ charged'[e] = charged[e]
            /\ at' = [at EXCEPT ![c] = IF redis THEN "mark" ELSE "done"]
            /\ UNCHANGED <<redis, flush, use, ent, seed, admin>>
        BY <1>10, <2>2, <3>4, <3>5 DEF ChargeUser, ExactOn
      <4>2. \A d \in Calls : ~PastLookup(d, e)'
        BY <4>1, <3>1, <1>t DEF CleanStart, PastLookup, UserOf, TypeOK
      <4> QED
        BY <4>1, <4>2, <1>t DEF CleanStart, TypeOK
    <3> QED
      BY <3>4, <3>5 DEF ExactOn
  <2> QED
    BY <2>1, <2>2, <1>u
<1>11. ASSUME NEW c \in Calls, MarkDirty(c) PROVE Good
  <2>1. DBOnly' /\ BetweenLookups'
    BY <1>11, <1>t DEF MarkDirty, DBOnly, TypeOK, BetweenLookups, UserOf
  <2>2. ASSUME NEW e \in Entities, Undisturbed(e)', ExactOn(e) PROVE ExactOn(e)'
    <3>1. /\ forgiven'[e] = 0
          /\ counter'[e] # NoKey => counter'[e] = charged'[e]
          /\ counter'[e] = NoKey => dbUsed'[e] = charged'[e]
      BY <1>11, <1>t, <2>2
         DEF MarkDirty, TypeOK, DBOnly, Undisturbed, ExactOn, CleanStart, PastLookup
    <3>2. ASSUME redis', counter'[e] = NoKey PROVE CleanStart(e)'
      BY <1>11, <1>t, <2>2, <3>2
         DEF MarkDirty, TypeOK, Undisturbed, ExactOn, CleanStart, PastLookup, UserOf
    <3> QED
      BY <3>1, <3>2 DEF ExactOn
  <2> QED
    BY <2>1, <2>2, <1>u
<1>12. ASSUME NEW c \in Calls, CallFails(c) PROVE Good
  <2>1. DBOnly' /\ BetweenLookups'
    BY <1>12, <1>t DEF CallFails, DBOnly, TypeOK, BetweenLookups, UserOf
  <2>2. ASSUME NEW e \in Entities, Undisturbed(e)', ExactOn(e) PROVE ExactOn(e)'
    <3>1. /\ forgiven'[e] = 0
          /\ counter'[e] # NoKey => counter'[e] = charged'[e]
          /\ counter'[e] = NoKey => dbUsed'[e] = charged'[e]
      BY <1>12, <1>t, <2>2
         DEF CallFails, TypeOK, DBOnly, Undisturbed, ExactOn, CleanStart, PastLookup
    <3>2. ASSUME redis', counter'[e] = NoKey PROVE CleanStart(e)'
      BY <1>12, <1>t, <2>2, <3>2
         DEF CallFails, TypeOK, Undisturbed, ExactOn, CleanStart, PastLookup, UserOf
    <3> QED
      BY <3>1, <3>2 DEF ExactOn
  <2> QED
    BY <2>1, <2>2, <1>u
<1>13. ASSUME NEW r \in Replicas, Snapshot(r) PROVE Good
  <2>1. DBOnly' /\ BetweenLookups'
    BY <1>13, <1>t DEF Snapshot, DBOnly, TypeOK, BetweenLookups, UserOf
  <2>2. ASSUME NEW e \in Entities, Undisturbed(e)', ExactOn(e) PROVE ExactOn(e)'
    <3>1. /\ forgiven'[e] = 0
          /\ counter'[e] # NoKey => counter'[e] = charged'[e]
          /\ counter'[e] = NoKey => dbUsed'[e] = charged'[e]
      BY <1>13, <1>t, <2>2
         DEF Snapshot, TypeOK, DBOnly, Undisturbed, ExactOn, CleanStart, PastLookup
    <3>2. ASSUME redis', counter'[e] = NoKey PROVE CleanStart(e)'
      BY <1>13, <1>t, <2>2, <3>2
         DEF Snapshot, TypeOK, Undisturbed, ExactOn, CleanStart, PastLookup, UserOf
    <3> QED
      BY <3>1, <3>2 DEF ExactOn
  <2> QED
    BY <2>1, <2>2, <1>u
<1>14. ASSUME NEW r \in Replicas, NEW f \in Entities, FlushGet(r, f) PROVE Good
  <2>1. DBOnly' /\ BetweenLookups'
    BY <1>14, <1>t DEF FlushGet, DBOnly, TypeOK, BetweenLookups, UserOf
  <2>2. ASSUME NEW e \in Entities, Undisturbed(e)', ExactOn(e) PROVE ExactOn(e)'
    <3>1. /\ forgiven'[e] = 0
          /\ counter'[e] # NoKey => counter'[e] = charged'[e]
          /\ counter'[e] = NoKey => dbUsed'[e] = charged'[e]
      BY <1>14, <1>t, <2>2
         DEF FlushGet, TypeOK, DBOnly, Undisturbed, ExactOn, CleanStart, PastLookup
    <3>2. ASSUME redis', counter'[e] = NoKey PROVE CleanStart(e)'
      BY <1>14, <1>t, <2>2, <3>2
         DEF FlushGet, TypeOK, Undisturbed, ExactOn, CleanStart, PastLookup, UserOf
    <3> QED
      BY <3>1, <3>2 DEF ExactOn
  <2> QED
    BY <2>1, <2>2, <1>u
<1>15. ASSUME NEW r \in Replicas, FlushUpdate(r) PROVE Good
  <2>1. DBOnly' /\ BetweenLookups'
    BY <1>15, <1>t DEF FlushUpdate, DBOnly, TypeOK, BetweenLookups, UserOf
  <2>2. ASSUME NEW e \in Entities, Undisturbed(e)', ExactOn(e) PROVE ExactOn(e)'
    <3>1. /\ forgiven'[e] = 0
          /\ counter'[e] # NoKey => counter'[e] = charged'[e]
          /\ counter'[e] = NoKey => dbUsed'[e] = charged'[e]
      BY <1>15, <1>t, <2>2
         DEF FlushUpdate, TypeOK, DBOnly, Undisturbed, ExactOn, CleanStart, PastLookup
    <3>2. ASSUME redis', counter'[e] = NoKey PROVE CleanStart(e)'
      BY <1>15, <1>t, <2>2, <3>2, QuotaAssumption
         DEF FlushUpdate, TypeOK, Undisturbed, ExactOn, CleanStart, PastLookup, UserOf
    <3> QED
      BY <3>1, <3>2 DEF ExactOn
  <2> QED
    BY <2>1, <2>2, <1>u
<1>16. ASSUME NEW r \in Replicas, NEW f \in Entities, FlushGetFails(r, f) PROVE Good
  <2>1. DBOnly' /\ BetweenLookups'
    BY <1>16, <1>t DEF FlushGetFails, DBOnly, TypeOK, BetweenLookups, UserOf
  <2>2. ASSUME NEW e \in Entities, Undisturbed(e)', ExactOn(e) PROVE ExactOn(e)'
    <3>1. /\ forgiven'[e] = 0
          /\ counter'[e] # NoKey => counter'[e] = charged'[e]
          /\ counter'[e] = NoKey => dbUsed'[e] = charged'[e]
      BY <1>16, <1>t, <2>2
         DEF FlushGetFails, TypeOK, DBOnly, Undisturbed, ExactOn, CleanStart, PastLookup
    <3>2. ASSUME redis', counter'[e] = NoKey PROVE CleanStart(e)'
      BY <1>16, <1>t, <2>2, <3>2
         DEF FlushGetFails, TypeOK, Undisturbed, ExactOn, CleanStart, PastLookup, UserOf
    <3> QED
      BY <3>1, <3>2 DEF ExactOn
  <2> QED
    BY <2>1, <2>2, <1>u
<1>17. ASSUME NEW r \in Replicas, FlushUpdateFails(r) PROVE Good
  <2>1. DBOnly' /\ BetweenLookups'
    BY <1>17, <1>t DEF FlushUpdateFails, DBOnly, TypeOK, BetweenLookups, UserOf
  <2>2. ASSUME NEW e \in Entities, Undisturbed(e)', ExactOn(e) PROVE ExactOn(e)'
    <3>1. /\ forgiven'[e] = 0
          /\ counter'[e] # NoKey => counter'[e] = charged'[e]
          /\ counter'[e] = NoKey => dbUsed'[e] = charged'[e]
      BY <1>17, <1>t, <2>2
         DEF FlushUpdateFails, TypeOK, DBOnly, Undisturbed, ExactOn, CleanStart, PastLookup
    <3>2. ASSUME redis', counter'[e] = NoKey PROVE CleanStart(e)'
      BY <1>17, <1>t, <2>2, <3>2, QuotaAssumption
         DEF FlushUpdateFails, TypeOK, Undisturbed, ExactOn, CleanStart, PastLookup, UserOf
    <3> QED
      BY <3>1, <3>2 DEF ExactOn
  <2> QED
    BY <2>1, <2>2, <1>u
<1>18. ASSUME NEW r \in Replicas, Crash(r) PROVE Good
  <2>1. DBOnly' /\ BetweenLookups'
    BY <1>18, <1>t DEF Crash, DBOnly, TypeOK, BetweenLookups, UserOf
  <2>2. ASSUME NEW e \in Entities, Undisturbed(e)', ExactOn(e) PROVE ExactOn(e)'
    <3>1. /\ forgiven'[e] = 0
          /\ counter'[e] # NoKey => counter'[e] = charged'[e]
          /\ counter'[e] = NoKey => dbUsed'[e] = charged'[e]
      BY <1>18, <1>t, <2>2
         DEF Crash, TypeOK, DBOnly, Undisturbed, ExactOn, CleanStart, PastLookup
    <3>2. ASSUME redis', counter'[e] = NoKey PROVE CleanStart(e)'
      BY <1>18, <1>t, <2>2, <3>2, QuotaAssumption
         DEF Crash, TypeOK, Undisturbed, ExactOn, CleanStart, PastLookup, UserOf
    <3> QED
      BY <3>1, <3>2 DEF ExactOn
  <2> QED
    BY <2>1, <2>2, <1>u
<1>19. ASSUME NEW x \in Resets, ZeroRow(x) PROVE Good
  <2>1. DBOnly' /\ BetweenLookups'
    BY <1>19, <1>t DEF ZeroRow, DBOnly, TypeOK, BetweenLookups, UserOf
  <2>2. ASSUME NEW e \in Entities, Undisturbed(e)', ExactOn(e) PROVE ExactOn(e)'
    <3>1. /\ forgiven'[e] = 0
          /\ counter'[e] # NoKey => counter'[e] = charged'[e]
          /\ counter'[e] = NoKey => dbUsed'[e] = charged'[e]
      BY <1>19, <1>t, <2>2
         DEF ZeroRow, TypeOK, DBOnly, Undisturbed, ExactOn, CleanStart, PastLookup
    <3>2. ASSUME redis', counter'[e] = NoKey PROVE CleanStart(e)'
      BY <1>19, <1>t, <2>2, <3>2
         DEF ZeroRow, TypeOK, Undisturbed, ExactOn, CleanStart, PastLookup, UserOf
    <3> QED
      BY <3>1, <3>2 DEF ExactOn
  <2> QED
    BY <2>1, <2>2, <1>u
<1>20. ASSUME NEW x \in Resets, ForgetDirty(x) PROVE Good
  <2>1. DBOnly' /\ BetweenLookups'
    BY <1>20, <1>t DEF ForgetDirty, DBOnly, TypeOK, BetweenLookups, UserOf
  <2>2. ASSUME NEW e \in Entities, Undisturbed(e)', ExactOn(e) PROVE ExactOn(e)'
    <3>1. /\ forgiven'[e] = 0
          /\ counter'[e] # NoKey => counter'[e] = charged'[e]
          /\ counter'[e] = NoKey => dbUsed'[e] = charged'[e]
      BY <1>20, <1>t, <2>2
         DEF ForgetDirty, TypeOK, DBOnly, Undisturbed, ExactOn, CleanStart, PastLookup
    <3>2. ASSUME redis', counter'[e] = NoKey PROVE CleanStart(e)'
      BY <1>20, <1>t, <2>2, <3>2
         DEF ForgetDirty, TypeOK, Undisturbed, ExactOn, CleanStart, PastLookup, UserOf
    <3> QED
      BY <3>1, <3>2 DEF ExactOn
  <2> QED
    BY <2>1, <2>2, <1>u
<1>21. ASSUME NEW x \in Resets, DelKey(x) PROVE Good
  <2>1. DBOnly' /\ BetweenLookups'
    BY <1>21, <1>t DEF DelKey, DBOnly, TypeOK, BetweenLookups, UserOf
  <2>2. ASSUME NEW e \in Entities, Undisturbed(e)', ExactOn(e) PROVE ExactOn(e)'
    <3>1. /\ forgiven'[e] = 0
          /\ counter'[e] # NoKey => counter'[e] = charged'[e]
          /\ counter'[e] = NoKey => dbUsed'[e] = charged'[e]
      BY <1>21, <1>t, <2>2
         DEF DelKey, TypeOK, DBOnly, Undisturbed, ExactOn, CleanStart, PastLookup
    <3>2. ASSUME redis', counter'[e] = NoKey PROVE CleanStart(e)'
      BY <1>21, <1>t, <2>2, <3>2
         DEF DelKey, TypeOK, Undisturbed, ExactOn, CleanStart, PastLookup, UserOf
    <3> QED
      BY <3>1, <3>2 DEF ExactOn
  <2> QED
    BY <2>1, <2>2, <1>u
<1>22. ASSUME NEW x \in Edits, EditRead(x) PROVE Good
  <2>1. DBOnly' /\ BetweenLookups'
    BY <1>22, <1>t DEF EditRead, DBOnly, TypeOK, BetweenLookups, UserOf
  <2>2. ASSUME NEW e \in Entities, Undisturbed(e)', ExactOn(e) PROVE ExactOn(e)'
    <3>1. /\ forgiven'[e] = 0
          /\ counter'[e] # NoKey => counter'[e] = charged'[e]
          /\ counter'[e] = NoKey => dbUsed'[e] = charged'[e]
      BY <1>22, <1>t, <2>2
         DEF EditRead, TypeOK, DBOnly, Undisturbed, ExactOn, CleanStart, PastLookup
    <3>2. ASSUME redis', counter'[e] = NoKey PROVE CleanStart(e)'
      BY <1>22, <1>t, <2>2, <3>2
         DEF EditRead, TypeOK, Undisturbed, ExactOn, CleanStart, PastLookup, UserOf
    <3> QED
      BY <3>1, <3>2 DEF ExactOn
  <2> QED
    BY <2>1, <2>2, <1>u
<1>23. ASSUME NEW x \in Edits, EditSave(x) PROVE Good
  <2>1. DBOnly' /\ BetweenLookups'
    BY <1>23, <1>t DEF EditSave, DBOnly, TypeOK, BetweenLookups, UserOf
  <2>2. ASSUME NEW e \in Entities, Undisturbed(e)', ExactOn(e) PROVE ExactOn(e)'
    <3>1. /\ forgiven'[e] = 0
          /\ counter'[e] # NoKey => counter'[e] = charged'[e]
          /\ counter'[e] = NoKey => dbUsed'[e] = charged'[e]
      BY <1>23, <1>t, <2>2
         DEF EditSave, TypeOK, DBOnly, Undisturbed, ExactOn, CleanStart, PastLookup
    <3>2. ASSUME redis', counter'[e] = NoKey PROVE CleanStart(e)'
      BY <1>23, <1>t, <2>2, <3>2
         DEF EditSave, TypeOK, Undisturbed, ExactOn, CleanStart, PastLookup, UserOf
    <3> QED
      BY <3>1, <3>2 DEF ExactOn
  <2> QED
    BY <2>1, <2>2, <1>u
<1>24. ASSUME NEW keys, RedisLoses(keys) PROVE Good
  <2>1. DBOnly' /\ BetweenLookups'
    BY <1>24, <1>t DEF RedisLoses, DBOnly, TypeOK, BetweenLookups, UserOf
  <2>2. ASSUME NEW e \in Entities, Undisturbed(e)', ExactOn(e) PROVE ExactOn(e)'
    <3>1. /\ forgiven'[e] = 0
          /\ counter'[e] # NoKey => counter'[e] = charged'[e]
          /\ counter'[e] = NoKey => dbUsed'[e] = charged'[e]
      BY <1>24, <1>t, <2>2
         DEF RedisLoses, TypeOK, DBOnly, Undisturbed, ExactOn, CleanStart, PastLookup
    <3>2. ASSUME redis', counter'[e] = NoKey PROVE CleanStart(e)'
      BY <1>24, <1>t, <2>2, <3>2
         DEF RedisLoses, TypeOK, Undisturbed, ExactOn, CleanStart, PastLookup, UserOf
    <3> QED
      BY <3>1, <3>2 DEF ExactOn
  <2> QED
    BY <2>1, <2>2, <1>u
<1>25. CASE UNCHANGED vars
  BY <1>25, <1>t, <1>u
     DEF vars, DBOnly, BetweenLookups, ExactOn, CleanStart, PastLookup, UserOf
<1> QED
  BY <1>2, <1>3, <1>5, <1>6, <1>7, <1>n, <1>8, <1>9, <1>10, <1>11, <1>12, <1>13,
     <1>14, <1>15, <1>16, <1>17, <1>18, <1>19, <1>20, <1>21, <1>22, <1>23, <1>24, <1>25
     DEF Next, Progress, WriteBack, ResetUserUsage

(* The real-time counter is exact while Redis keeps its keys and nobody    *)
(* resets usage, for every number of replicas, requests and edits.         *)
THEOREM LiveCounterExact == Spec => []LiveExact
<1>1. Init => ExactInv
  BY ExactInit
<1>2. ExactInv /\ [Next]_vars => ExactInv'
  BY ExactStep
<1>3. ExactInv => LiveExact
  <2> SUFFICES ASSUME ExactInv, NEW e \in Entities, Undisturbed(e)
               PROVE  LiveUsage(e) = Owed(e)
    BY DEF LiveExact
  <2>1. ExactOn(e) /\ TypeOK /\ DBOnly
    BY DEF ExactInv
  <2>2. charged[e] \in Nat /\ (~redis => counter[e] = NoKey)
    BY <2>1 DEF TypeOK, DBOnly
  <2>3. Owed(e) = charged[e]
    BY <2>1, <2>2 DEF ExactOn, Owed
  <2>4. LiveUsage(e) = charged[e]
    BY <2>1, <2>2 DEF ExactOn, LiveUsage
  <2> QED
    BY <2>3, <2>4
<1> QED
  BY <1>1, <1>2, <1>3, PTL DEF Spec

-----------------------------------------------------------------------------
(* Exhausted requests stay rejected: one that arrived dry is still at the  *)
(* guard, and if it has already passed its token level with room, it is    *)
(* its user that is exhausted.                                             *)

DryOn(c) ==
  /\ use[c] = "guard"
  /\ at[c] \notin {"serving", "incrToken", "incrUser", "mark"}
  /\ Exhausted(TokenOf[c]) \/ Exhausted(UserOf(c))
  /\ ent[c] = UserOf(c) /\ at[c] \in {"row", "get", "seed", "reget"}
       => left[c] = 0 \/ Exhausted(UserOf(c))

DryInv ==
  /\ ExactInv
  /\ \A c \in Calls :
       dry[c] /\ Undisturbed(TokenOf[c]) /\ Undisturbed(UserOf(c)) => DryOn(c)
(* An exhausted level that is not disturbed stays exhausted. *)
LEMMA ExhaustedStays ==
  ASSUME TypeOK, [Next]_vars, NEW e \in Entities, Undisturbed(e)', Exhausted(e)
  PROVE  Exhausted(e)'
<1> USE DEF store, flush, call, admin, history
<1>1. charged[e] \in Nat /\ forgiven[e] \in Nat /\ \A c \in Calls : cost[c] \in Nat
  BY DEF TypeOK
<1>2. Limit[e] \in Int
  BY QuotaAssumption
<1>3. ASSUME charged'[e] \in Nat, charged'[e] >= charged[e], forgiven'[e] = forgiven[e]
      PROVE  Exhausted(e)'
  BY <1>1, <1>2, <1>3 DEF Exhausted, Owed
<1>4. ASSUME NEW c \in Calls, ChargeToken(c) \/ ChargeUser(c) PROVE Exhausted(e)'
  BY <1>1, <1>3, <1>4 DEF ChargeToken, ChargeUser, Charge, TypeOK
<1>5. ASSUME NEW x \in Resets, ZeroRow(x) PROVE Exhausted(e)'
  <2>1. ResetUser[x] # e
    BY <1>5 DEF ZeroRow, Undisturbed, TypeOK
  <2> QED
    BY <2>1, <1>1, <1>3, <1>5 DEF ZeroRow, TypeOK
<1>6. ASSUME UNCHANGED <<charged, forgiven>> PROVE Exhausted(e)'
  BY <1>1, <1>3, <1>6
<1>7. ASSUME NEW c \in Calls,
             \/ Arrive(c) \/ CallFails(c) \/ ReadRow(c) \/ GetCounter(c)
             \/ SeedCounter(c) \/ ReadBack(c) \/ MarkDirty(c) \/ NextCandidate(c)
             \/ \E n \in Costs : Served(c, n)
      PROVE  UNCHANGED <<charged, forgiven>>
  BY <1>7 DEF Arrive, CallFails, ReadRow, GetCounter, SeedCounter, ReadBack,
              MarkDirty, Served, NextCandidate
<1>8. ASSUME NEW r \in Replicas,
             \/ WriteBack(r) \/ FlushUpdateFails(r) \/ Crash(r)
             \/ \E f \in Entities : FlushGetFails(r, f)
      PROVE  UNCHANGED <<charged, forgiven>>
  BY <1>8 DEF WriteBack, Snapshot, FlushGet, FlushUpdate, FlushUpdateFails,
              FlushGetFails, Crash
<1>9. ASSUME NEW x \in Resets, ForgetDirty(x) \/ DelKey(x)
      PROVE  UNCHANGED <<charged, forgiven>>
  BY <1>9 DEF ForgetDirty, DelKey
<1>10. ASSUME NEW x \in Edits, EditRead(x) \/ EditSave(x)
       PROVE  UNCHANGED <<charged, forgiven>>
  BY <1>10 DEF EditRead, EditSave
<1>11. ASSUME NEW keys, RedisLoses(keys) PROVE UNCHANGED <<charged, forgiven>>
  BY <1>11 DEF RedisLoses
<1>12. CASE UNCHANGED vars
  BY <1>6, <1>12 DEF vars
<1> QED
  BY <1>4, <1>5, <1>6, <1>7, <1>8, <1>9, <1>10, <1>11, <1>12
     DEF Next, Progress, ResetUserUsage

(* What is left at an exhausted level is nothing, and the tighter of two   *)
(* levels is nothing if either is.                                         *)
LEMMA ExhaustedRemaining ==
  ASSUME NEW q \in Nat, NEW u \in Nat, u >= q
  PROVE  Remaining(q, u) = 0
BY DEF Remaining

LEMMA MinRemainingZero ==
  ASSUME NEW a \in Nat \cup {Unlimited}, NEW b \in Nat \cup {Unlimited}, a = 0 \/ b = 0
  PROVE  MinRemaining(a, b) = 0
BY DEF MinRemaining, Unlimited

LEMMA DryInit == Init => DryInv
<1> SUFFICES ASSUME Init PROVE DryInv
  OBVIOUS
<1>1. ExactInv
  BY ExactInit
<1>2. \A c \in Calls : ~dry[c]
  BY DEF Init
<1> QED
  BY <1>1, <1>2 DEF DryInv

LEMMA DryStep == DryInv /\ [Next]_vars => DryInv'
<1> SUFFICES ASSUME DryInv, [Next]_vars, NEW d \in Calls, dry'[d],
                    Undisturbed(TokenOf[d])', Undisturbed(UserOf(d))'
             PROVE  DryOn(d)'
  BY ExactStep DEF DryInv, UserOf
<1>t. /\ TypeOK /\ ExactInv /\ BetweenLookups /\ DBOnly
      /\ TokenOf[d] \in Entities /\ UserOf(d) \in Entities
      /\ TokenOf[d] # UserOf(d)
  BY CallEntities DEF DryInv, ExactInv
<1>u. /\ Undisturbed(TokenOf[d]) /\ ExactOn(TokenOf[d])
      /\ Undisturbed(UserOf(d)) /\ ExactOn(UserOf(d))
  BY <1>t, UndisturbedBack DEF ExactInv
<1>e. /\ Exhausted(TokenOf[d]) => Exhausted(TokenOf[d])'
      /\ Exhausted(UserOf(d)) => Exhausted(UserOf(d))'
  BY <1>t, ExhaustedStays
<1> USE DEF store, flush, call, admin, history
<1>1. ASSUME Arrive(d) PROVE DryOn(d)'
  <2>1. /\ at'[d] = "row" /\ use'[d] = "guard" /\ ent'[d] = TokenOf[d]
        /\ Exhausted(TokenOf[d]) \/ Exhausted(UserOf(d))
    BY <1>1, <1>t DEF Arrive, BetweenLookups, TypeOK
  <2> QED
    BY <2>1, <1>t, <1>e DEF DryOn, UserOf
<1> DEFINE Quiet ==
      /\ use'[d] = use[d] /\ ent'[d] = ent[d] /\ left'[d] = left[d] /\ dry'[d] = dry[d]
      /\ \/ at'[d] = at[d]
         \/ at[d] \in {"row", "get", "seed"} /\ at'[d] \in {"get", "seed", "reget"}
         \/ at'[d] \in {"failed", "lost"}
         \/ at[d] \in {"incrToken", "incrUser", "mark", "serving"}
<1>2. ASSUME dry'[d] = dry[d] PROVE DryOn(d)
  BY <1>2, <1>u DEF DryInv
<1>3. ASSUME Quiet PROVE DryOn(d)'
  <2>1. DryOn(d)
    BY <1>2, <1>3
  <2> QED
    BY <2>1, <1>3, <1>e DEF DryOn, UserOf
<1>4. ASSUME NEW c \in Calls, c # d, Arrive(c) PROVE Quiet
  BY <1>4, <1>t DEF Arrive, TypeOK
<1>k. ASSUME NEW c \in Calls, NEW u, Known(c, u), at[c] \in {"row", "get", "reget"},
             dry' = dry,
             u = LiveUsage(ent[c]), redis => counter[ent[c]] # NoKey
      PROVE  DryOn(d)'
  <2>1. CASE c # d
    <3>1. Quiet
      BY <2>1, <1>k, <1>t, KnownLocal DEF TypeOK, CallVarsOK
    <3> QED
      BY <3>1, <1>3
  <2>2. CASE c = d
    <3>1. DryOn(c)
      BY <1>k, <1>2, <2>2
    <3>2. ent[c] \in {TokenOf[c], UserOf(c)}
      BY <1>t DEF TypeOK
    <3>3. /\ u = charged[ent[c]] /\ u = Owed(ent[c])
          /\ u \in Nat /\ Limit[ent[c]] \in Int
      <4>1. ExactOn(ent[c]) /\ ent[c] \in Entities
        BY <1>t, <1>u, <2>2, <3>2
      <4>2. /\ forgiven[ent[c]] = 0 /\ charged[ent[c]] \in Nat
            /\ Limit[ent[c]] \in Int
        BY <4>1, <1>t, QuotaAssumption DEF ExactOn, TypeOK
      <4>3. ~redis => counter[ent[c]] = NoKey
        BY <4>1, <1>t DEF DBOnly
      <4>4. u = charged[ent[c]]
        BY <4>1, <4>3, <1>k DEF ExactOn, LiveUsage
      <4> QED
        BY <4>2, <4>4 DEF Owed
    <3>4. Exhausted(ent[c]) => Remaining(Limit[ent[c]], u) = 0
      BY <3>3, ExhaustedRemaining DEF Exhausted
    <3>5. CASE ent[c] = TokenOf[c]
      <4>1. /\ ent'[c] = UserOf(c) /\ at'[c] = "row" /\ use'[c] = use[c]
            /\ left'[c] = Remaining(Limit[ent[c]], u)
        BY <3>1, <3>5, <1>k, <1>t, <2>2
        DEF Known, GuardDecides, GateDecides, ReadyToCharge, TypeOK, DryOn
      <4> QED
        BY <4>1, <3>1, <3>4, <3>5, <2>2, <1>e DEF DryOn, UserOf
    <3>6. CASE ent[c] = UserOf(c)
      <4>1. left[c] = 0 \/ Remaining(Limit[ent[c]], u) = 0
        BY <1>k, <3>1, <3>4, <3>6 DEF DryOn
      <4>2. /\ left[c] \in Nat \cup {Unlimited}
            /\ Remaining(Limit[ent[c]], u) \in Nat \cup {Unlimited}
        BY <1>t, <3>3, RemainingType DEF TypeOK
      <4>3. MinRemaining(left[c], Remaining(Limit[ent[c]], u)) = 0
        BY <4>1, <4>2, MinRemainingZero
      <4>4. use[c] = "guard"
        BY <3>1 DEF DryOn
      <4>5. /\ ent'[c] = TokenOf[c] /\ at'[c] = "rejected" /\ use'[c] = use[c]
        BY <4>3, <4>4, <3>6, <1>k, <1>t, <2>2 DEF Known, GuardDecides, GateDecides, ReadyToCharge, TypeOK
      <4> QED
        BY <4>5, <3>1, <2>2, <1>e, <1>t DEF DryOn, UserOf
    <3> QED
      BY <3>2, <3>5, <3>6
  <2> QED
    BY <2>1, <2>2
<1>5. ASSUME NEW c \in Calls, ReadRow(c) PROVE DryOn(d)'
  <2>1. CASE redis
    <3>1. Quiet
      BY <1>5, <2>1, <1>t DEF ReadRow, TypeOK
    <3> QED
      BY <3>1, <1>3
  <2>2. CASE ~redis
    BY <1>5, <2>2, <1>k DEF ReadRow, LiveUsage
  <2> QED
    BY <2>1, <2>2
<1>6. ASSUME NEW c \in Calls, GetCounter(c) PROVE DryOn(d)'
  <2>1. CASE counter[ent[c]] = NoKey
    <3>1. Quiet
      BY <1>6, <2>1, <1>t DEF GetCounter, TypeOK
    <3> QED
      BY <3>1, <1>3
  <2>2. CASE counter[ent[c]] # NoKey
    BY <1>6, <2>2, <1>k, <1>t DEF GetCounter, LiveUsage, DBOnly
  <2> QED
    BY <2>1, <2>2
<1>7. ASSUME NEW c \in Calls, ReadBack(c) PROVE DryOn(d)'
  <2>1. CASE counter[ent[c]] = NoKey
    <3>1. Quiet
      BY <1>7, <2>1, <1>t DEF ReadBack, TypeOK
    <3> QED
      BY <3>1, <1>3
  <2>2. CASE counter[ent[c]] # NoKey
    BY <1>7, <2>2, <1>k, <1>t DEF ReadBack, LiveUsage, DBOnly
  <2> QED
    BY <2>1, <2>2
<1>8. ASSUME NEW c \in Calls, NEW n \in Costs, Served(c, n) PROVE DryOn(d)'
  <2>1. c # d
    BY <1>8, <1>2 DEF Served, DryOn
  <2>2. Quiet
    BY <2>1, <1>8, <1>t DEF Served, TypeOK
  <2> QED
    BY <2>2, <1>3
<1>9. ASSUME NEW c \in Calls,
             \/ SeedCounter(c) \/ ChargeToken(c) \/ ChargeUser(c) \/ MarkDirty(c)
             \/ NextCandidate(c) \/ CallFails(c)
      PROVE  Quiet
  BY <1>9, <1>t DEF SeedCounter, ChargeToken, ChargeUser, MarkDirty, NextCandidate,
                    CallFails, TypeOK
<1>10. ASSUME NEW r \in Replicas,
              \/ WriteBack(r) \/ FlushUpdateFails(r)
              \/ \E f \in Entities : FlushGetFails(r, f)
       PROVE  Quiet
  BY <1>10 DEF WriteBack, Snapshot, FlushGet, FlushUpdate, FlushUpdateFails,
               FlushGetFails
<1>11. ASSUME NEW r \in Replicas, Crash(r) PROVE Quiet
  BY <1>11 DEF Crash
<1>12. ASSUME NEW x \in Resets, ResetUserUsage(x) PROVE Quiet
  BY <1>12 DEF ResetUserUsage, ZeroRow, ForgetDirty, DelKey
<1>13. ASSUME NEW x \in Edits, EditRead(x) \/ EditSave(x) PROVE Quiet
  BY <1>13 DEF EditRead, EditSave
<1>14. ASSUME NEW keys, RedisLoses(keys) PROVE Quiet
  BY <1>14 DEF RedisLoses
<1>15. CASE UNCHANGED vars
  BY <1>15, <1>3 DEF vars
<1> HIDE DEF Quiet
<1> QED
  BY <1>1, <1>3, <1>4, <1>5, <1>6, <1>7, <1>8, <1>9, <1>10, <1>11, <1>12, <1>13,
     <1>14, <1>15 DEF Next, Progress

(* A request that arrives when its token or user is exhausted is never     *)
(* sent upstream, however many requests, replicas, flushes, edits, crashes *)
(* and store errors run beside it.                                         *)
THEOREM ExhaustedStayRejected == Spec => []ExhaustedRejected
<1>1. Init => DryInv
  BY DryInit
<1>2. DryInv /\ [Next]_vars => DryInv'
  BY DryStep
<1>3. DryInv => ExhaustedRejected
  BY DEF DryInv, DryOn, ExhaustedRejected
<1> QED
  BY <1>1, <1>2, <1>3, PTL DEF Spec

-----------------------------------------------------------------------------
(* Durability.  It needs what the code needs: one process that flushes, no *)
(* lost key, no crash, no failed charge, and nobody who writes the column  *)
(* besides the flush.                                                      *)

OneReplica == \A r, s \in Replicas : r = s

(* None of what can undo or forget a count has happened yet. *)
Calm ==
  /\ faults.loss = 0 /\ faults.crash = 0 /\ faults.call = 0
  /\ \A x \in Resets : resetAt[x] = "idle"
  /\ \A x \in Edits : editAt[x] = "idle"

(* The flush has still to visit e. *)
ToFlush(e) == Unmarked(e) \/ \E r \in Replicas : e \in dirty[r] \cup todo[r]

(* The counter of e equals its column, or is on its way there; and what a  *)
(* flush is about to write is not behind the column, and, when it is       *)
(* behind the counter, e will be visited again.                            *)
DurableOn(e) ==
  /\ counter[e] # NoKey /\ counter[e] # dbUsed[e] =>
       ToFlush(e) \/ \E r \in Replicas : cur[r] = e /\ val[r] = counter[e]
  /\ \A r \in Replicas : cur[r] = e =>
       /\ counter[e] # NoKey /\ dbUsed[e] <= val[r]
       /\ val[r] # counter[e] => ToFlush(e)

DurableInv ==
  PhantomInv /\ ExactInv /\ (Calm => \A e \in Entities : DurableOn(e))

LEMMA DurableInit == Init => DurableInv
<1> SUFFICES ASSUME Init PROVE \A e \in Entities : DurableOn(e)
  BY PhantomInit, ExactInit DEF DurableInv
<1> QED
  BY QuotaAssumption DEF Init, DurableOn, NoRow, Entities

(* A step after which it is calm is one of a request that goes on or of    *)
(* the flush, and it was calm before.                                      *)
LEMMA CalmSteps ==
  ASSUME TypeOK, [Next]_vars, Calm'
  PROVE  /\ Calm
         /\ \/ \E c \in Calls : Arrive(c) \/ Progress(c) \/ NextCandidate(c)
            \/ \E r \in Replicas : \/ WriteBack(r) \/ FlushUpdateFails(r)
                                   \/ \E e \in Entities : FlushGetFails(r, e)
            \/ UNCHANGED vars
<1> USE DEF Calm, TypeOK, store, flush, call, admin, history
<1>1. ASSUME NEW c \in Calls, Arrive(c) \/ Progress(c) \/ NextCandidate(c)
      PROVE  Calm
  BY <1>1 DEF Arrive, Progress, NextCandidate, ReadRow, GetCounter, SeedCounter,
              ReadBack, Served, ChargeToken, ChargeUser, MarkDirty
<1>2. ASSUME NEW c \in Calls, CallFails(c) PROVE FALSE
  BY <1>2 DEF CallFails
<1>3. ASSUME NEW r \in Replicas,
             \/ WriteBack(r) \/ FlushUpdateFails(r)
             \/ \E f \in Entities : FlushGetFails(r, f)
      PROVE  Calm
  <2>1. UNCHANGED admin /\ faults' = [faults EXCEPT !.flush = faults'.flush]
    BY <1>3 DEF WriteBack, Snapshot, FlushGet, FlushUpdate, FlushUpdateFails,
                FlushGetFails
  <2> QED
    BY <2>1
<1>4. ASSUME NEW r \in Replicas, Crash(r) PROVE FALSE
  BY <1>4 DEF Crash
<1>5. ASSUME NEW x \in Resets, ResetUserUsage(x) PROVE FALSE
  BY <1>5 DEF ResetUserUsage, ZeroRow, ForgetDirty, DelKey
<1>6. ASSUME NEW x \in Edits, EditRead(x) \/ EditSave(x) PROVE FALSE
  BY <1>6 DEF EditRead, EditSave
<1>7. ASSUME NEW keys, RedisLoses(keys) PROVE FALSE
  BY <1>7 DEF RedisLoses
<1>8. CASE UNCHANGED vars
  BY <1>8 DEF vars
<1> HIDE DEF Calm, TypeOK
<1> QED
  BY <1>1, <1>2, <1>3, <1>4, <1>5, <1>6, <1>7, <1>8 DEF Next

(* A step of a request that is not between its charge and its mark ends no *)
(* such interval.                                                          *)
LEMMA KeepsUnmarked ==
  ASSUME NEW c \in Calls, at[c] \notin {"incrUser", "mark"},
         \A d \in Calls \ {c} : at'[d] = at[d],
         NEW e, Unmarked(e)
  PROVE  Unmarked(e)'
BY DEF Unmarked, UserOf

(* A step that changes no count and takes nothing off the flush's way.     *)
LEMMA DurableKept ==
  ASSUME NEW e \in Entities, DurableOn(e),
         counter'[e] = counter[e], dbUsed'[e] = dbUsed[e], UNCHANGED <<cur, val>>,
         ToFlush(e) => ToFlush(e)'
  PROVE  DurableOn(e)'
BY DEF DurableOn

(* A calm step keeps every row on its way and moves no column backwards.   *)
LEMMA DurableStep ==
  ASSUME OneReplica, DurableInv, [Next]_vars, PhantomInv', ExactInv', Calm',
         NEW e \in Entities
  PROVE  DurableOn(e)' /\ dbUsed'[e] >= dbUsed[e]
<1>t. /\ TypeOK /\ DBOnly /\ TypeOK' /\ DBOnly'
      /\ DurableOn(e)
      /\ \A c \in Calls : /\ TokenOf[c] \in Entities /\ UserOf(c) \in Entities
                          /\ TokenOf[c] # UserOf(c)
                          /\ UserOf(c)' = UserOf(c)
  BY CalmSteps, CallEntities DEF ExactInv, DurableInv, UserOf
<1>x. /\ counter[e] # NoKey => counter[e] = charged[e]
      /\ counter[e] = NoKey => dbUsed[e] = charged[e]
      /\ counter'[e] # NoKey => counter'[e] = charged'[e]
      /\ dbUsed[e] <= charged[e]
  <2>1. Undisturbed(e) /\ Undisturbed(e)'
    BY CalmSteps, <1>t DEF Calm, Undisturbed
  <2> QED
    BY <2>1 DEF ExactInv, ExactOn, DurableInv, PhantomInv, NoPhantomUsage
<1>n. NoRow \notin Entities
  BY QuotaAssumption
<1> USE DEF store, flush, call, admin, history
<1>1. ASSUME NEW c \in Calls,
             \/ Arrive(c) \/ NextCandidate(c) \/ ReadRow(c) \/ GetCounter(c)
             \/ ReadBack(c) \/ \E n \in Costs : Served(c, n)
      PROVE  DurableOn(e)' /\ dbUsed'[e] >= dbUsed[e]
  <2>1. UNCHANGED <<store, flush>> /\ at[c] \notin {"incrUser", "mark"}
    BY <1>1 DEF Arrive, NextCandidate, ReadRow, GetCounter, ReadBack, Served
  <2>2. \A d \in Calls \ {c} : at'[d] = at[d]
    <3>1. CallVarsOK
      BY <1>t DEF TypeOK, CallVarsOK
    <3>2. ASSUME NEW u, Known(c, u) PROVE \A d \in Calls \ {c} : at'[d] = at[d]
      BY <3>1, <3>2, KnownLocal
    <3> QED
      BY <1>1, <1>t, <3>2 DEF Arrive, NextCandidate, ReadRow, GetCounter, ReadBack, Served, TypeOK
  <2>3. Unmarked(e) => Unmarked(e)'
    BY <2>1, <2>2, KeepsUnmarked
  <2>4. ToFlush(e) => ToFlush(e)'
    BY <2>1, <2>3 DEF ToFlush
  <2> QED
    BY <2>1, <2>4, <1>t, DurableKept DEF TypeOK
<1>2. ASSUME NEW c \in Calls, SeedCounter(c)
      PROVE  DurableOn(e)' /\ dbUsed'[e] >= dbUsed[e]
  <2>1. /\ UNCHANGED <<dbUsed, flush, charged>> /\ at[c] \notin {"incrUser", "mark"}
        /\ \A d \in Calls \ {c} : at'[d] = at[d]
    BY <1>2, <1>t DEF SeedCounter, TypeOK
  <2>2. Unmarked(e) => Unmarked(e)'
    BY <2>1, KeepsUnmarked
  <2>3. ToFlush(e) => ToFlush(e)'
    BY <2>1, <2>2 DEF ToFlush
  <2>4. CASE counter'[e] = counter[e]
    BY <2>1, <2>3, <2>4, <1>t, DurableKept DEF TypeOK
  <2>5. CASE counter'[e] # counter[e]
    <3>1. counter[e] = NoKey
      BY <2>5, <1>2, <1>t DEF SeedCounter, TypeOK
    <3>2. counter'[e] = dbUsed'[e]
      BY <3>1, <2>1, <2>5, <1>x
    <3>3. \A r \in Replicas : cur'[r] # e
      BY <3>1, <2>1, <1>t DEF DurableOn
    <3> QED
      BY <3>2, <3>3, <2>1, <1>t DEF DurableOn, TypeOK
  <2> QED
    BY <2>4, <2>5
<1>3. ASSUME NEW c \in Calls, ChargeToken(c) \/ ChargeUser(c)
      PROVE  DurableOn(e)' /\ dbUsed'[e] >= dbUsed[e]
  <2>1. /\ UNCHANGED <<redis, flush>>
        /\ \A d \in Calls \ {c} : at'[d] = at[d]
        /\ cost[c] \in Nat
    BY <1>3, <1>t DEF ChargeToken, ChargeUser, TypeOK
  <2>2. CASE ~redis
    <3>1. counter'[e] = NoKey /\ \A r \in Replicas : cur'[r] = NoRow
      BY <2>1, <2>2, <1>t DEF DBOnly
    <3>2. dbUsed'[e] >= dbUsed[e]
      BY <1>3, <2>1, <1>t DEF ChargeToken, ChargeUser, Charge, TypeOK
    <3> QED
      BY <3>1, <3>2, <1>n DEF DurableOn
  <2>3. CASE redis
    <3>1. UNCHANGED dbUsed
      BY <1>3, <2>3 DEF ChargeToken, ChargeUser, Charge
    <3>2. CASE counter'[e] = counter[e]
      <4>1. Unmarked(e) => Unmarked(e)'
        BY <1>3, <2>1, <2>3, <1>t DEF Unmarked, ChargeToken, ChargeUser, TypeOK
      <4>2. ToFlush(e) => ToFlush(e)'
        BY <2>1, <4>1 DEF ToFlush
      <4> QED
        BY <2>1, <3>1, <3>2, <4>2, <1>t, DurableKept DEF TypeOK
    <3>3. CASE counter'[e] # counter[e]
      <4>1. \/ at'[c] = "incrUser" /\ e = TokenOf[c]
            \/ at'[c] = "mark" /\ e = UserOf(c)
        <5>1. ASSUME NEW f \in Entities, f # e, Charge(f, cost[c]) PROVE FALSE
          BY <5>1, <3>3, <2>3, <1>t DEF Charge, TypeOK
        <5> QED
          BY <1>3, <5>1, <1>t, <2>3 DEF ChargeToken, ChargeUser, TypeOK
      <4>m. Unmarked(e)'
        BY <4>1, <1>t DEF Unmarked
      <4>2. counter'[e] # NoKey
        BY <1>3, <3>3, <2>1, <1>t DEF ChargeToken, ChargeUser, Charge, TypeOK, NoKey
      <4> QED
        BY <4>m, <4>2, <2>1, <3>1, <1>t DEF DurableOn, ToFlush, TypeOK
    <3> QED
      BY <3>2, <3>3
  <2> QED
    BY <2>2, <2>3
<1>4. ASSUME NEW c \in Calls, MarkDirty(c)
      PROVE  DurableOn(e)' /\ dbUsed'[e] >= dbUsed[e]
  <2>1. /\ UNCHANGED <<store, todo, cur, val>>
        /\ \A d \in Calls \ {c} : at'[d] = at[d]
        /\ ReplicaOf[c] \in Replicas
        /\ dirty' = [dirty EXCEPT ![ReplicaOf[c]] = @ \cup {TokenOf[c], UserOf(c)}]
    BY <1>4, <1>t, QuotaAssumption DEF MarkDirty, TypeOK
  <2>2. CASE e \in {TokenOf[c], UserOf(c)}
    BY <2>1, <2>2, <1>t DEF DurableOn, ToFlush, TypeOK
  <2>3. CASE e \notin {TokenOf[c], UserOf(c)}
    <3>1. Unmarked(e) => Unmarked(e)'
      BY <2>1, <2>3, <1>t DEF Unmarked
    <3>2. ToFlush(e) => ToFlush(e)'
      BY <2>1, <3>1, <1>t DEF ToFlush, TypeOK
    <3> QED
      BY <2>1, <3>2, <1>t, DurableKept DEF TypeOK
  <2> QED
    BY <2>2, <2>3
<1>5. ASSUME NEW r \in Replicas, Snapshot(r)
      PROVE  DurableOn(e)' /\ dbUsed'[e] >= dbUsed[e]
  <2>1. ToFlush(e) => ToFlush(e)'
    BY <1>5, <1>t DEF Snapshot, ToFlush, Unmarked, TypeOK
  <2> QED
    BY <1>5, <2>1, <1>t, DurableKept DEF Snapshot, TypeOK
<1>6. ASSUME NEW r \in Replicas, NEW f \in Entities, FlushGet(r, f)
      PROVE  DurableOn(e)' /\ dbUsed'[e] >= dbUsed[e]
  <2>1. /\ UNCHANGED <<store, dirty, at>> /\ cur[r] = NoRow
        /\ todo' = [todo EXCEPT ![r] = @ \ {f}]
    BY <1>6 DEF FlushGet
  <2>2. CASE e # f
    <3>1. ToFlush(e) => ToFlush(e)'
      BY <2>1, <2>2, <1>t DEF ToFlush, Unmarked, TypeOK
    <3>2. \A s \in Replicas : cur'[s] # e /\ cur[s] # e
      BY <1>6, <2>1, <2>2, <1>t, <1>n DEF FlushGet, OneReplica, TypeOK
    <3> QED
      BY <3>1, <3>2, <2>1, <1>t DEF DurableOn, TypeOK
  <2>3. CASE e = f /\ counter[e] = NoKey
    <3>1. counter'[e] = NoKey /\ UNCHANGED <<cur, val>>
      BY <1>6, <2>1, <2>3 DEF FlushGet
    <3>2. \A s \in Replicas : cur'[s] # e
      BY <3>1, <2>3, <1>t DEF DurableOn
    <3> QED
      BY <3>1, <3>2, <2>1, <1>t DEF DurableOn, TypeOK
  <2>4. CASE e = f /\ counter[e] # NoKey
    <3>1. \A s \in Replicas : cur'[s] = e /\ val'[s] = counter'[e]
      BY <1>6, <2>1, <2>4, <1>t DEF FlushGet, OneReplica, TypeOK
    <3>2. dbUsed'[e] <= counter'[e]
      BY <2>1, <2>4, <1>x
    <3> QED
      BY <3>1, <3>2, <2>1, <2>4, <1>t DEF DurableOn, TypeOK
  <2> QED
    BY <2>2, <2>3, <2>4
<1>7. ASSUME NEW r \in Replicas, FlushUpdate(r) \/ FlushUpdateFails(r)
      PROVE  DurableOn(e)' /\ dbUsed'[e] >= dbUsed[e]
  <2>1. /\ UNCHANGED <<counter, todo, at>> /\ \A s \in Replicas : cur'[s] = NoRow
        /\ \A s \in Replicas : dirty[s] \subseteq dirty'[s]
        /\ \A s \in Replicas : s = r
    BY <1>7, <1>t DEF FlushUpdate, FlushUpdateFails, OneReplica, TypeOK
  <2>2. ToFlush(e) => ToFlush(e)'
    BY <2>1 DEF ToFlush, Unmarked, UserOf
  <2>3. CASE cur[r] # e
    <3>1. dbUsed'[e] = dbUsed[e]
      BY <1>7, <2>3, <1>t DEF FlushUpdate, FlushUpdateFails, TypeOK
    <3> QED
      BY <2>1, <2>2, <2>3, <3>1, <1>t, <1>n DEF DurableOn, TypeOK
  <2>4. CASE cur[r] = e /\ FlushUpdate(r)
    <3>1. dbUsed'[e] = val[r]
      BY <2>4, <1>t DEF FlushUpdate, TypeOK
    <3> QED
      BY <2>1, <2>2, <2>4, <3>1, <1>t, <1>n DEF DurableOn, TypeOK
  <2>5. CASE cur[r] = e /\ FlushUpdateFails(r)
    <3>1. UNCHANGED dbUsed /\ e \in dirty'[r]
      BY <2>5, <1>t DEF FlushUpdateFails, TypeOK
    <3> QED
      BY <2>1, <3>1, <1>t, <1>n DEF DurableOn, ToFlush, TypeOK
  <2> QED
    BY <1>7, <2>3, <2>4, <2>5
<1>8. ASSUME NEW r \in Replicas, NEW f \in Entities, FlushGetFails(r, f)
      PROVE  DurableOn(e)' /\ dbUsed'[e] >= dbUsed[e]
  <2>1. ToFlush(e) => ToFlush(e)'
    BY <1>8, <1>t DEF FlushGetFails, ToFlush, Unmarked, TypeOK
  <2> QED
    BY <1>8, <2>1, <1>t, DurableKept DEF FlushGetFails, TypeOK
<1>9. CASE UNCHANGED vars
  <2>1. ToFlush(e) => ToFlush(e)'
    BY <1>9 DEF vars, ToFlush, Unmarked, UserOf
  <2> QED
    BY <1>9, <2>1, <1>t, DurableKept DEF vars, TypeOK
<1> QED
  BY CalmSteps, <1>t, <1>1, <1>2, <1>3, <1>4, <1>5, <1>6, <1>7, <1>8, <1>9
     DEF Progress, WriteBack

LEMMA DurableHolds ==
  ASSUME OneReplica
  PROVE  Spec => []DurableInv
<1>1. Init => DurableInv
  BY DurableInit
<1>2. DurableInv /\ [Next]_vars => DurableInv'
  <2> SUFFICES ASSUME DurableInv, [Next]_vars PROVE DurableInv'
    OBVIOUS
  <2>1. PhantomInv' /\ ExactInv'
    BY PhantomStep, ExactStep DEF DurableInv
  <2>2. ASSUME Calm' PROVE \A e \in Entities : DurableOn(e)'
    BY <2>1, <2>2, DurableStep
  <2> QED
    BY <2>1, <2>2 DEF DurableInv
<1> QED
  BY <1>1, <1>2, PTL DEF Spec

(* With one replica, and as long as nothing but commands of its flush has  *)
(* failed and nobody has begun a reset or an edit, a counter ahead of its  *)
(* column is on its way there (WriteBack: "new consumption during the      *)
(* flush is captured on the next pass").                                   *)
THEOREM CalmForgetsNothing ==
  ASSUME OneReplica
  PROVE  Spec => [](Calm => NothingForgotten)
<1>1. DurableInv => (Calm => NothingForgotten)
  BY DEF DurableInv, DurableOn, ToFlush, NothingForgotten
<1> QED
  BY <1>1, DurableHolds, PTL

(* A deployment where none of it ever happens. *)
StaysCalm ==
  /\ MaxLosses = 0 /\ MaxCrashes = 0 /\ MaxCallErrors = 0
  /\ Resets = {} /\ Edits = {}

LEMMA CalmHolds ==
  ASSUME StaysCalm
  PROVE  Spec => []Calm
<1>1. Init => Calm
  BY DEF Init, Calm
<1>2. TypeOK /\ Calm /\ [Next]_vars => Calm'
  <2> SUFFICES ASSUME TypeOK, Calm, [Next]_vars PROVE Calm'
    OBVIOUS
  <2> USE DEF Calm, StaysCalm, TypeOK, store, flush, call, admin, history
  <2>1. ASSUME NEW c \in Calls,
               Arrive(c) \/ Progress(c) \/ NextCandidate(c) \/ CallFails(c)
        PROVE  Calm'
    BY <2>1 DEF Arrive, Progress, NextCandidate, CallFails, ReadRow, GetCounter,
                SeedCounter, ReadBack, Served, ChargeToken, ChargeUser, MarkDirty
  <2>2. ASSUME NEW r \in Replicas,
               \/ WriteBack(r) \/ FlushUpdateFails(r) \/ Crash(r)
               \/ \E f \in Entities : FlushGetFails(r, f)
        PROVE  Calm'
    BY <2>2 DEF WriteBack, Snapshot, FlushGet, FlushUpdate, FlushUpdateFails,
                FlushGetFails, Crash
  <2>3. ASSUME NEW keys, RedisLoses(keys) PROVE FALSE
    BY <2>3 DEF RedisLoses
  <2>4. CASE UNCHANGED vars
    BY <2>4 DEF vars
  <2> HIDE DEF Calm, TypeOK
  <2> QED
    BY <2>1, <2>2, <2>3, <2>4 DEF Next
<1> QED
  BY <1>1, <1>2, TypeCorrect, PTL DEF Spec

(* In such a deployment no consumption is forgotten, whatever flush fails, *)
(* and however charges and flushes interleave.                             *)
THEOREM NothingIsForgotten ==
  ASSUME OneReplica, StaysCalm
  PROVE  Spec => []NothingForgotten
BY CalmForgetsNothing, CalmHolds, PTL

(* Nor does a flush write a column backwards: what it read of the counter  *)
(* is still not behind the column when it writes it.                       *)
THEOREM NeverRegresses ==
  ASSUME OneReplica, StaysCalm
  PROVE  Spec => DurableNeverRegresses
<1> DEFINE Kept == \A e \in Entities : dbUsed'[e] >= dbUsed[e] \/ forgiven'[e] # forgiven[e]
<1>1. DurableInv /\ DurableInv' /\ Calm' /\ [Next]_vars => [Kept]_vars
  BY DurableStep DEF DurableInv
<1> QED
  BY <1>1, DurableHolds, CalmHolds, PTL DEF Spec, DurableNeverRegresses
=============================================================================
