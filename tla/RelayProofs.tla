----------------------------- MODULE RelayProofs -----------------------------
(* Safety of the request lifecycle for every number of requests and        *)
(* channels, every failover cap, price list and budget, and that the relay *)
(* keeps the promises of module Ledger.                                    *)
EXTENDS Relay, FiniteSetTheorems, TLAPS

(* Where a request has a current attempt, and where it still hopes for one.*)
Attempting == {"price", "gate", "send", "await", "pump"}
Unanswered == {"new", "pick", "price", "gate", "send", "await"}

(* A selection lists each channel once, by descending priority, and the    *)
(* cursor stays within it and within the cap; the current attempt is to    *)
(* the channel just before the cursor.                                     *)
SelectionInv(r) ==
  /\ \A i, j \in DOMAIN order[r] :
       i < j => order[r][i] # order[r][j] /\ Priority[order[r][i]] >= Priority[order[r][j]]
  /\ cursor[r] <= Len(order[r]) /\ cursor[r] <= MaxRetries
  /\ at[r] = "new" => cursor[r] = 0
  /\ at[r] \in Attempting => cursor[r] > 0 /\ chan[r] = order[r][cursor[r]]

(* How far in the selection the upstreams called so far may lie: before    *)
(* the call, the current channel is not one of them.                       *)
Passed(r) == IF at[r] \in {"price", "gate", "send"} THEN cursor[r] - 1 ELSE cursor[r]

CallsInv(r) ==
  /\ Len(asked[r]) <= Passed(r)
  /\ \A i \in DOMAIN asked[r] : \E k \in 1 .. Passed(r) : asked[r][i] = order[r][k]
  /\ \A i, j \in DOMAIN asked[r] :
       i < j => asked[r][i] # asked[r][j] /\ Priority[asked[r][i]] >= Priority[asked[r][j]]
  /\ at[r] \in {"await", "pump"} => asked[r] # <<>> /\ chan[r] = asked[r][Len(asked[r])]
  /\ served[r] # NoChannel =>
       asked[r] # <<>> /\ served[r] = asked[r][Len(asked[r])] /\ chan[r] = served[r]

(* What the client has been sent, by where the request is and how it ended.*)
AnswerInv(r) ==
  /\ at[r] \in Unanswered => answer[r] = 0 /\ served[r] = NoChannel
  /\ at[r] = "pump" => stream[r] /\ answer[r] = 200 /\ served[r] # NoChannel
  /\ at[r] = "log" => answer[r] # 0
  /\ outcome[r] = "success" => answer[r] = 200 /\ served[r] # NoChannel
  /\ outcome[r] = "error" => answer[r] # 0 /\ (answer[r] = 200 => stream[r])

(* The books: nothing before finish(), then the row, then the debit.       *)
BooksInv(r) ==
  /\ at[r] \in {"gate", "send", "await", "pump"} => quoted[r] \in Prices
  /\ cost[r] \in Costs \cup {Null}
  /\ at[r] \in Unanswered \cup {"pump"} => outcome[r] = "open" /\ cost[r] = Null
  /\ at[r] \in Unanswered \cup {"pump", "log"} => row[r] = "none" /\ debit[r] = 0
  /\ at[r] = "log" => outcome[r] \in {"success", "error"}
  /\ at[r] = "debit" => outcome[r] = "success" /\ cost[r] > 0 /\ debit[r] = 0
  /\ outcome[r] = "error" => cost[r] = Null
  /\ row[r] # "none" => row[r] = outcome[r] /\ rowCost[r] = cost[r]
  /\ at[r] \in {"debit", "done"} /\ outcome[r] # "refused" /\ faults.store = 0 =>
       row[r] = outcome[r]
  /\ at[r] = "done" /\ outcome[r] # "refused" /\ faults.store = 0 =>
       debit[r] = (IF rowCost[r] > 0 THEN rowCost[r] ELSE 0)

RequestInv(r) == SelectionInv(r) /\ CallsInv(r) /\ AnswerInv(r) /\ BooksInv(r)

IInv == TypeOK /\ \A r \in Requests : RequestInv(r)

(* A selection is a sequence of channels, without repetitions and by       *)
(* descending priority.                                                    *)
LEMMA OrdersSound ==
  ASSUME NEW S \in SUBSET Channels, NEW s \in Orders(S)
  PROVE  /\ s \in Seq(Channels)
         /\ \A i, j \in DOMAIN s : i < j => s[i] # s[j] /\ Priority[s[i]] >= Priority[s[j]]
<1>1. Cardinality(S) \in Nat
  BY FS_Subset, FS_CardinalityType, RelayAssumption
<1>2. s \in [1 .. Cardinality(S) -> Channels]
  BY DEF Orders
<1> QED
  BY <1>1, <1>2 DEF Orders

LEMMA IInvInit == Init => IInv
<1> SUFFICES ASSUME Init PROVE IInv
  OBVIOUS
<1>1. TypeOK
  BY DEF Init, TypeOK, Codes, FaultCounts
<1>2. ASSUME NEW r \in Requests
      PROVE  SelectionInv(r) /\ CallsInv(r) /\ AnswerInv(r) /\ BooksInv(r)
  BY RelayAssumption DEF Init, SelectionInv, CallsInv, Passed, AnswerInv, BooksInv,
     Attempting, Unanswered, NoChannel
<1> QED
  BY <1>1, <1>2 DEF IInv, RequestInv

(* What a step leaves alone of a request. *)
Untouched(r) ==
  /\ stream'[r] = stream[r] /\ at'[r] = at[r]
  /\ order'[r] = order[r] /\ cursor'[r] = cursor[r]
  /\ chan'[r] = chan[r] /\ quoted'[r] = quoted[r]
  /\ asked'[r] = asked[r] /\ served'[r] = served[r]
  /\ answer'[r] = answer[r] /\ outcome'[r] = outcome[r]
  /\ tokens'[r] = tokens[r] /\ cost'[r] = cost[r]
  /\ row'[r] = row[r] /\ rowCost'[r] = rowCost[r] /\ debit'[r] = debit[r]

LEMMA UntouchedKept ==
  ASSUME NEW r \in Requests, RequestInv(r), Untouched(r),
         faults'.store = 0 => faults.store = 0
  PROVE  RequestInv(r)'
<1> USE DEF RequestInv, Untouched
<1>1. SelectionInv(r)'
  BY DEF SelectionInv
<1>2. CallsInv(r)'
  BY DEF CallsInv, Passed
<1>3. AnswerInv(r)'
  BY DEF AnswerInv
<1>4. BooksInv(r)'
  BY DEF BooksInv
<1> QED
  BY <1>1, <1>2, <1>3, <1>4

(* A step of one request touches no other. *)
LEMMA OthersUntouched ==
  ASSUME TypeOK, NEW r \in Requests, RequestStep(r)
  PROVE  \A q \in Requests \ {r} : Untouched(q)
<1> USE DEF TypeOK, Untouched, Goto, tables, selection, attempt, result, books
<1>1. CASE Refuse(r)
  BY <1>1 DEF Refuse
<1>2. CASE Route(r)
  BY <1>2 DEF Route
<1>3. CASE RouteFails(r)
  BY <1>3 DEF RouteFails, Fail, StoreError
<1>4. CASE Pick(r)
  BY <1>4 DEF Pick
<1>5. CASE Exhaust(r)
  BY <1>5 DEF Exhaust, Fail
<1>6. CASE LookupPrice(r)
  BY <1>6 DEF LookupPrice
<1>7. CASE LookupFails(r)
  BY <1>7 DEF LookupFails, Fail, StoreError
<1>8. CASE Admit(r)
  BY <1>8 DEF Admit
<1>9. CASE Unaffordable(r)
  BY <1>9 DEF Unaffordable, Fail
<1>10. CASE GateFails(r)
  BY <1>10 DEF GateFails, Fail, StoreError
<1>11. CASE Send(r)
  BY <1>11 DEF Send
<1>12. CASE NotSent(r)
  BY <1>12 DEF NotSent
<1>13. CASE Retryable(r)
  BY <1>13 DEF Retryable
<1>14. CASE Rejected(r)
  BY <1>14 DEF Rejected, Fail
<1>15. ASSUME NEW n \in Reported, Respond(r, n) PROVE \A q \in Requests \ {r} : Untouched(q)
  BY <1>15 DEF Respond
<1>16. CASE Connect(r)
  BY <1>16 DEF Connect
<1>17. ASSUME NEW n \in Reported, StreamEnds(r, n) PROVE \A q \in Requests \ {r} : Untouched(q)
  BY <1>17 DEF StreamEnds
<1>18. ASSUME NEW n \in Reported, StreamBreaks(r, n) PROVE \A q \in Requests \ {r} : Untouched(q)
  BY <1>18 DEF StreamBreaks
<1>19. CASE WriteLog(r)
  BY <1>19 DEF WriteLog, AfterRow
<1>20. CASE WriteLogFails(r)
  BY <1>20 DEF WriteLogFails, AfterRow, StoreError
<1>21. CASE Consume(r)
  BY <1>21 DEF Consume
<1>22. CASE ConsumeFails(r)
  BY <1>22 DEF ConsumeFails, StoreError
<1>23. CASE Leave(r)
  BY <1>23 DEF Leave
<1>24. CASE NoAdapter(r)
  BY <1>24 DEF NoAdapter
<1> QED
  BY <1>1, <1>2, <1>3, <1>4, <1>5, <1>6, <1>7, <1>8, <1>9, <1>10, <1>11, <1>12, <1>13, <1>14,
     <1>15, <1>16, <1>17, <1>18, <1>19, <1>20, <1>21, <1>22, <1>23, <1>24 DEF RequestStep, Progress

LEMMA StoreErrorType ==
  ASSUME TypeOK, StoreError
  PROVE  faults' \in FaultCounts /\ faults'.store # 0
<1>1. faults \in [edit : Nat, store : Nat, crash : Nat]
  BY DEF TypeOK, FaultCounts
<1>2. faults' = [faults EXCEPT !.store = faults.store + 1]
  BY DEF StoreError
<1>3. faults.store + 1 \in Nat \ {0}
  BY <1>1
<1> QED
  BY <1>1, <1>2, <1>3 DEF FaultCounts

(* An attempt is to a channel. *)
LEMMA AttemptedChannel ==
  ASSUME TypeOK, NEW r \in Requests, SelectionInv(r), at[r] \in Attempting
  PROVE  chan[r] \in Channels /\ chan[r] # NoChannel
<1>1. cursor[r] \in 1 .. Len(order[r]) /\ order[r] \in Seq(Channels) /\ chan[r] = order[r][cursor[r]]
  BY DEF TypeOK, SelectionInv
<1> QED
  BY <1>1, RelayAssumption

(* Every step of a request keeps the types; that a debit is a number comes *)
(* from the books, and that the selection is a sequence from OrdersSound.  *)
(* Every error that ends the loop writes the same four variables. *)
LEMMA FailType ==
  ASSUME TypeOK, NEW r \in Requests, NEW code \in Codes, Fail(r, code),
         UNCHANGED <<tables, stream, selection, attempt, books, gone>>, faults' \in FaultCounts
  PROVE  TypeOK'
<1>1. /\ answer' \in [Requests -> Codes]
      /\ outcome' \in [Requests -> {"open", "refused", "success", "error"}]
  BY DEF TypeOK, Fail
<1>2. tokens' \in [Requests -> Nat]
  BY RelayAssumption DEF TypeOK, Fail
<1>3. at' \in [Requests -> {"new", "pick", "price", "gate", "send", "await",
                           "pump", "log", "debit", "done", "lost"}]
  BY DEF TypeOK, Fail, Goto
<1>4. UNCHANGED <<enabled, price, spent, stream, order, cursor, chan, quoted, offered, asked,
                  served, cost, row, rowCost, debit, gone>>
  BY DEF Fail, tables, selection, attempt, books
<1> QED
  BY <1>1, <1>2, <1>3, <1>4 DEF TypeOK

LEMMA FailingType ==
  ASSUME TypeOK, NEW r \in Requests,
         RouteFails(r) \/ Exhaust(r) \/ LookupFails(r) \/ Unaffordable(r) \/ GateFails(r)
           \/ Rejected(r)
  PROVE  TypeOK'
<1>1. \E code \in Codes : Fail(r, code)
  BY DEF RouteFails, Exhaust, LookupFails, Unaffordable, GateFails, Rejected, Codes
<1>2. UNCHANGED <<tables, stream, selection, attempt, books, gone>>
  BY DEF RouteFails, Exhaust, LookupFails, Unaffordable, GateFails, Rejected
<1>3. UNCHANGED faults \/ StoreError
  BY DEF RouteFails, Exhaust, LookupFails, Unaffordable, GateFails, Rejected
<1>4. faults' \in FaultCounts
  BY <1>3, StoreErrorType DEF TypeOK
<1> QED
  BY <1>1, <1>2, <1>4, FailType

LEMMA TypeStep ==
  ASSUME TypeOK, NEW r \in Requests, BooksInv(r), SelectionInv(r), RequestStep(r)
  PROVE  TypeOK'
<1>0. CASE RouteFails(r) \/ Exhaust(r) \/ LookupFails(r) \/ Unaffordable(r) \/ GateFails(r)
            \/ Rejected(r)
  BY <1>0, FailingType
<1> USE DEF TypeOK, Goto, Codes, tables, selection, attempt, result, books
<1>a. at[r] \in Attempting => chan[r] \in Channels
  BY AttemptedChannel
<1>b. StoreError => faults' \in FaultCounts
  BY StoreErrorType
<1>c. /\ at[r] = "log" => outcome[r] \in {"success", "error"}
      /\ at[r] = "debit" => cost[r] \in Nat
  BY DEF BooksInv, Null
<1>d. ASSUME NEW n \in Reported
      PROVE  /\ n \in Nat /\ Est \in Nat /\ (IF n = 0 THEN Est ELSE n) \in Nat
             /\ quoted[r] * n \in Nat /\ quoted[r] * (IF n = 0 THEN Est ELSE n) \in Nat
  <2>1. quoted[r] \in Nat /\ n \in Nat /\ Est \in Nat
    BY RelayAssumption
  <2>2. \A p, q \in Nat : p * q \in Nat
    OBVIOUS
  <2> QED
    BY <2>1, <2>2
<1>1. CASE Refuse(r)
  BY <1>1 DEF Refuse
<1>2. CASE Route(r)
  <2>1. PICK s \in Orders(Enabled) : order' = [order EXCEPT ![r] = s]
    BY <1>2 DEF Route
  <2>2. s \in Seq(Channels)
    BY OrdersSound DEF Enabled
  <2> QED
    BY <1>2, <2>1, <2>2 DEF Route
<1>3. CASE Pick(r)
  <2>1. order[r] \in Seq(Channels) /\ cursor[r] \in Nat /\ cursor[r] + 1 <= Len(order[r])
    BY <1>3 DEF Pick
  <2>2. order[r][cursor[r] + 1] \in Channels
    BY <2>1
  <2>3. price[order[r][cursor[r] + 1]] \in Prices
    BY <2>2
  <2>4. offered' \in [Requests -> SUBSET (Channels \X Prices)]
    BY <1>3, <2>2, <2>3 DEF Pick, Offer
  <2>5. /\ cursor' \in [Requests -> Nat] /\ chan' \in [Requests -> Channels \cup {NoChannel}]
        /\ at' = [at EXCEPT ![r] = "price"]
        /\ UNCHANGED <<tables, stream, order, quoted, asked, served, result, books, gone, faults>>
    BY <1>3, <2>2 DEF Pick
  <2> QED
    BY <2>4, <2>5
<1>4. CASE LookupPrice(r)
  <2>1. price[chan[r]] \in Nat
    BY <1>4, <1>a, RelayAssumption DEF LookupPrice, Attempting
  <2> QED
    BY <1>4, <2>1 DEF LookupPrice
<1>5. CASE Admit(r)
  BY <1>5 DEF Admit
<1>6. CASE Send(r)
  <2>1. chan[r] \in Channels /\ asked[r] \in Seq(Channels)
    BY <1>6, <1>a DEF Send, Attempting
  <2>2. Append(asked[r], chan[r]) \in Seq(Channels)
    BY <2>1
  <2> QED
    BY <1>6, <2>2 DEF Send
<1>7. CASE NotSent(r)
  BY <1>7 DEF NotSent
<1>8. CASE Retryable(r)
  BY <1>8 DEF Retryable
<1>9. ASSUME NEW n \in Reported, Respond(r, n) PROVE TypeOK'
  <2>1. PICK c \in Nat, m \in Nat : cost' = [cost EXCEPT ![r] = c] /\ tokens' = [tokens EXCEPT ![r] = m]
    BY <1>9, <1>d DEF Respond
  <2>2. cost' \in [Requests -> Nat \cup {Null}] /\ tokens' \in [Requests -> Nat]
    BY <2>1
  <2>3. served' \in [Requests -> Channels \cup {NoChannel}]
    BY <1>9, <1>a DEF Respond, Attempting
  <2> QED
    BY <1>9, <2>2, <2>3 DEF Respond
<1>10. CASE Connect(r)
  BY <1>10 DEF Connect
<1>11. ASSUME NEW n \in Reported, StreamEnds(r, n) PROVE TypeOK'
  BY <1>11, <1>d DEF StreamEnds
<1>12. ASSUME NEW n \in Reported, StreamBreaks(r, n) PROVE TypeOK'
  BY <1>12, <1>d DEF StreamBreaks
<1>13. CASE WriteLog(r)
  BY <1>13, <1>c DEF WriteLog, AfterRow
<1>14. CASE WriteLogFails(r)
  BY <1>14, <1>b DEF WriteLogFails, AfterRow
<1>15. CASE Consume(r)
  <2>1. cost[r] \in Nat /\ spent + cost[r] \in Nat
    BY <1>15, <1>c DEF Consume
  <2> QED
    BY <1>15, <2>1 DEF Consume
<1>16. CASE ConsumeFails(r)
  BY <1>16, <1>b DEF ConsumeFails
<1>17. CASE Leave(r)
  BY <1>17 DEF Leave
<1>18. CASE NoAdapter(r)
  BY <1>18 DEF NoAdapter
<1> QED
  BY <1>0, <1>1, <1>2, <1>3, <1>4, <1>5, <1>6, <1>7, <1>8, <1>9, <1>10, <1>11, <1>12, <1>13,
     <1>14, <1>15, <1>16, <1>17, <1>18 DEF RequestStep, Progress

(* Selection.Next moves the cursor forward within the list. *)
LEMMA SelectionStep ==
  ASSUME TypeOK, NEW r \in Requests, RequestStep(r), SelectionInv(r)
  PROVE  SelectionInv(r)'
<1> USE DEF TypeOK, Goto, tables, selection, attempt, result, books, SelectionInv, Attempting
<1>1. CASE Refuse(r)
  BY <1>1 DEF Refuse
<1>2. CASE Route(r)
  <2>1. PICK s \in Orders(Enabled) : order' = [order EXCEPT ![r] = s]
    BY <1>2 DEF Route
  <2>2. s \in Seq(Channels) /\ order'[r] = s
    BY <2>1, OrdersSound DEF Enabled
  <2>3. /\ cursor'[r] = 0 /\ at'[r] = "pick"
        /\ \A i, j \in DOMAIN s : i < j => s[i] # s[j] /\ Priority[s[i]] >= Priority[s[j]]
    BY <1>2, OrdersSound DEF Route, Enabled
  <2> QED
    BY <2>2, <2>3, RelayAssumption
<1>3. CASE RouteFails(r)
  BY <1>3 DEF RouteFails, Fail, StoreError
<1>4. CASE Pick(r)
  <2>1. /\ cursor[r] \in Nat /\ cursor'[r] = cursor[r] + 1 /\ order'[r] = order[r]
        /\ cursor[r] < Len(order[r]) /\ cursor[r] < MaxRetries
        /\ chan'[r] = order[r][cursor[r] + 1] /\ at'[r] = "price"
    BY <1>4 DEF Pick
  <2>2. Len(order[r]) \in Nat /\ MaxRetries \in Nat
    BY RelayAssumption
  <2> QED
    BY <2>1, <2>2
<1>5. CASE Exhaust(r)
  BY <1>5 DEF Exhaust, Fail
<1>6. CASE LookupPrice(r)
  BY <1>6 DEF LookupPrice
<1>7. CASE LookupFails(r)
  BY <1>7 DEF LookupFails, Fail, StoreError
<1>8. CASE Admit(r)
  BY <1>8 DEF Admit
<1>9. CASE Unaffordable(r)
  BY <1>9 DEF Unaffordable, Fail
<1>10. CASE GateFails(r)
  BY <1>10 DEF GateFails, Fail, StoreError
<1>11. CASE Send(r)
  BY <1>11 DEF Send
<1>12. CASE NotSent(r)
  BY <1>12 DEF NotSent
<1>13. CASE Retryable(r)
  BY <1>13 DEF Retryable
<1>14. CASE Rejected(r)
  BY <1>14 DEF Rejected, Fail
<1>15. ASSUME NEW n \in Reported, Respond(r, n) PROVE SelectionInv(r)'
  BY <1>15 DEF Respond
<1>16. CASE Connect(r)
  BY <1>16 DEF Connect
<1>17. ASSUME NEW n \in Reported, StreamEnds(r, n) PROVE SelectionInv(r)'
  BY <1>17 DEF StreamEnds
<1>18. ASSUME NEW n \in Reported, StreamBreaks(r, n) PROVE SelectionInv(r)'
  BY <1>18 DEF StreamBreaks
<1>19. CASE WriteLog(r)
  BY <1>19 DEF WriteLog, AfterRow
<1>20. CASE WriteLogFails(r)
  BY <1>20 DEF WriteLogFails, AfterRow, StoreError
<1>21. CASE Consume(r)
  BY <1>21 DEF Consume
<1>22. CASE ConsumeFails(r)
  BY <1>22 DEF ConsumeFails, StoreError
<1>23. CASE Leave(r)
  BY <1>23 DEF Leave
<1>24. CASE NoAdapter(r)
  <2>1. /\ cursor[r] \in Nat /\ cursor'[r] = cursor[r] + 1 /\ order' = order /\ chan' = chan
        /\ cursor[r] < Len(order[r]) /\ cursor[r] < MaxRetries /\ at'[r] = "pick"
    BY <1>24 DEF NoAdapter
  <2>2. Len(order[r]) \in Nat /\ MaxRetries \in Nat
    BY RelayAssumption
  <2> QED
    BY <2>1, <2>2
<1> QED
  BY <1>1, <1>2, <1>3, <1>4, <1>5, <1>6, <1>7, <1>8, <1>9, <1>10, <1>11, <1>12, <1>13, <1>14,
     <1>15, <1>16, <1>17, <1>18, <1>19, <1>20, <1>21, <1>22, <1>23, <1>24 DEF RequestStep, Progress

(* A channel is called once, at its place in the selection. *)
LEMMA CallsStep ==
  ASSUME TypeOK, NEW r \in Requests, RequestStep(r), 
         SelectionInv(r), CallsInv(r), AnswerInv(r)
  PROVE  CallsInv(r)'
<1> USE DEF TypeOK, Goto, tables, selection, attempt, result, books, CallsInv, Passed, Attempting
<1>1. CASE Refuse(r)
  BY <1>1 DEF Refuse
<1>2. CASE Route(r)
  <2>1. Len(asked[r]) <= 0 /\ asked[r] \in Seq(Channels)
    BY <1>2 DEF Route, SelectionInv
  <2>2. asked[r] = <<>> /\ asked' = asked
    BY <1>2, <2>1 DEF Route
  <2> QED
    BY <1>2, <2>2 DEF Route, SelectionInv, AnswerInv, Unanswered
<1>3. CASE RouteFails(r)
  BY <1>3 DEF RouteFails, Fail, StoreError
<1>4. CASE Pick(r)
  <2>1. cursor[r] \in Nat /\ at[r] = "pick" /\ cursor'[r] = cursor[r] + 1 /\ at'[r] = "price"
    BY <1>4 DEF Pick
  <2>2. Passed(r) = cursor[r] /\ Passed(r)' = cursor[r]
    BY <2>1
  <2>3. order' = order /\ asked' = asked /\ served' = served /\ served[r] = NoChannel
    BY <1>4 DEF Pick, AnswerInv, Unanswered
  <2> QED
    BY <2>1, <2>2, <2>3
<1>5. CASE Exhaust(r)
  BY <1>5 DEF Exhaust, Fail
<1>6. CASE LookupPrice(r)
  BY <1>6 DEF LookupPrice
<1>7. CASE LookupFails(r)
  BY <1>7 DEF LookupFails, Fail, StoreError
<1>8. CASE Admit(r)
  BY <1>8 DEF Admit
<1>9. CASE Unaffordable(r)
  BY <1>9 DEF Unaffordable, Fail
<1>10. CASE GateFails(r)
  BY <1>10 DEF GateFails, Fail, StoreError
<1>11. CASE Send(r)
  <2> DEFINE n == Len(asked[r])
  <2>1. /\ asked[r] \in Seq(Channels) /\ n \in Nat /\ order[r] \in Seq(Channels)
        /\ cursor[r] \in 1 .. Len(order[r])
        /\ chan[r] = order[r][cursor[r]] /\ chan[r] \in Channels
    BY <1>11, AttemptedChannel DEF Send, SelectionInv
  <2>2. /\ asked'[r] = Append(asked[r], chan[r]) /\ chan' = chan /\ order' = order
        /\ served' = served /\ served[r] = NoChannel
    BY <1>11 DEF Send, AnswerInv, Unanswered
  <2>3. /\ Len(asked'[r]) = n + 1 /\ asked'[r][n + 1] = chan[r]
        /\ \A i \in 1 .. n : asked'[r][i] = asked[r][i]
        /\ DOMAIN asked'[r] = 1 .. n + 1 /\ DOMAIN asked[r] = 1 .. n
    BY <2>1, <2>2
  <2>4. Passed(r) = cursor[r] - 1 /\ Passed(r)' = cursor[r] /\ at'[r] = "await"
    BY <1>11 DEF Send
  (* What was called before lies before the cursor. *)
  <2>5. ASSUME NEW i \in 1 .. n
        PROVE  /\ asked[r][i] # chan[r] /\ Priority[asked[r][i]] >= Priority[chan[r]]
               /\ \E k \in 1 .. cursor[r] : asked[r][i] = order[r][k]
    <3>1. PICK k \in 1 .. cursor[r] - 1 : asked[r][i] = order[r][k]
      BY <2>3, <2>4
    <3>2. k \in DOMAIN order[r] /\ cursor[r] \in DOMAIN order[r] /\ k < cursor[r]
      BY <2>1, <3>1
    <3> QED
      BY <2>1, <3>1, <3>2 DEF SelectionInv
  <2>6. ASSUME NEW i \in 1 .. n + 1, NEW j \in 1 .. n + 1, i < j
        PROVE  /\ asked'[r][i] # asked'[r][j]
               /\ Priority[asked'[r][i]] >= Priority[asked'[r][j]]
    <3>1. i \in 1 .. n
      BY <2>1, <2>6
    <3>2. CASE j = n + 1
      BY <2>3, <2>5, <3>1, <3>2
    <3>3. CASE j \in 1 .. n
      BY <2>3, <2>6, <3>1, <3>3
    <3> QED
      BY <2>1, <3>2, <3>3
  <2>7. ASSUME NEW i \in 1 .. n + 1
        PROVE  \E k \in 1 .. cursor[r] : asked'[r][i] = order[r][k]
    <3>1. CASE i = n + 1
      BY <2>1, <2>3, <3>1
    <3>2. CASE i \in 1 .. n
      BY <2>3, <2>5, <3>2
    <3> QED
      BY <2>1, <3>1, <3>2
  <2>8. n + 1 <= cursor[r]
    BY <2>1, <2>4
  <2>9. asked'[r] # <<>>
    BY <2>1, <2>3
  <2> HIDE DEF n
  <2> HIDE DEF Passed
  <2>10. Len(asked'[r]) <= Passed(r)'
    BY <2>3, <2>4, <2>8
  <2>11. \A i \in DOMAIN asked'[r] : \E k \in 1 .. Passed(r)' : asked'[r][i] = order'[r][k]
    <3> SUFFICES ASSUME NEW i \in 1 .. n + 1
                 PROVE  \E k \in 1 .. cursor[r] : asked'[r][i] = order[r][k]
      BY <2>2, <2>3, <2>4
    <3> QED
      BY <2>7
  <2>12. \A i, j \in DOMAIN asked'[r] :
           i < j => /\ asked'[r][i] # asked'[r][j]
                    /\ Priority[asked'[r][i]] >= Priority[asked'[r][j]]
    BY <2>3, <2>6
  <2>13. chan'[r] = asked'[r][Len(asked'[r])] /\ served'[r] = NoChannel
    BY <2>2, <2>3
  <2> QED
    BY <2>9, <2>10, <2>11, <2>12, <2>13
<1>12. CASE NotSent(r)
  BY <1>12 DEF NotSent
<1>13. CASE Retryable(r)
  BY <1>13 DEF Retryable
<1>14. CASE Rejected(r)
  BY <1>14 DEF Rejected, Fail
<1>15. ASSUME NEW n \in Reported, Respond(r, n) PROVE CallsInv(r)'
  BY <1>15 DEF Respond
<1>16. CASE Connect(r)
  BY <1>16 DEF Connect
<1>17. ASSUME NEW n \in Reported, StreamEnds(r, n) PROVE CallsInv(r)'
  BY <1>17 DEF StreamEnds
<1>18. ASSUME NEW n \in Reported, StreamBreaks(r, n) PROVE CallsInv(r)'
  BY <1>18 DEF StreamBreaks
<1>19. CASE WriteLog(r)
  BY <1>19 DEF WriteLog, AfterRow
<1>20. CASE WriteLogFails(r)
  BY <1>20 DEF WriteLogFails, AfterRow, StoreError
<1>21. CASE Consume(r)
  BY <1>21 DEF Consume
<1>22. CASE ConsumeFails(r)
  BY <1>22 DEF ConsumeFails, StoreError
<1>23. CASE Leave(r)
  BY <1>23 DEF Leave
<1>24. CASE NoAdapter(r)
  <2>1. /\ cursor[r] \in Nat /\ cursor'[r] = cursor[r] + 1 /\ at[r] = "pick" /\ at' = at
        /\ UNCHANGED <<order, chan, asked, served>>
    BY <1>24 DEF NoAdapter
  <2>2. Passed(r) = cursor[r] /\ Passed(r)' = cursor[r] + 1 /\ Len(asked[r]) \in Nat
    BY <2>1
  <2> QED
    BY <2>1, <2>2
<1> QED
  BY <1>1, <1>2, <1>3, <1>4, <1>5, <1>6, <1>7, <1>8, <1>9, <1>10, <1>11, <1>12, <1>13, <1>14,
     <1>15, <1>16, <1>17, <1>18, <1>19, <1>20, <1>21, <1>22, <1>23, <1>24 DEF RequestStep, Progress

(* The answer fits the outcome. *)
LEMMA AnswerStep ==
  ASSUME TypeOK, NEW r \in Requests, RequestStep(r), AnswerInv(r), CallsInv(r), SelectionInv(r), BooksInv(r)
  PROVE  AnswerInv(r)'
<1> USE DEF TypeOK, Goto, tables, selection, attempt, result, books, AnswerInv, Unanswered, Attempting
<1>1. CASE Refuse(r)
  BY <1>1 DEF Refuse
<1>2. CASE Route(r)
  BY <1>2 DEF Route
<1>3. CASE RouteFails(r)
  BY <1>3 DEF RouteFails, Fail, StoreError
<1>4. CASE Pick(r)
  BY <1>4 DEF Pick
<1>5. CASE Exhaust(r)
  BY <1>5 DEF Exhaust, Fail
<1>6. CASE LookupPrice(r)
  BY <1>6 DEF LookupPrice
<1>7. CASE LookupFails(r)
  BY <1>7 DEF LookupFails, Fail, StoreError
<1>8. CASE Admit(r)
  BY <1>8 DEF Admit
<1>9. CASE Unaffordable(r)
  BY <1>9 DEF Unaffordable, Fail
<1>10. CASE GateFails(r)
  BY <1>10 DEF GateFails, Fail, StoreError
<1>11. CASE Send(r)
  BY <1>11 DEF Send
<1>12. CASE NotSent(r)
  BY <1>12 DEF NotSent
<1>13. CASE Retryable(r)
  BY <1>13 DEF Retryable
<1>14. CASE Rejected(r)
  BY <1>14 DEF Rejected, Fail
<1>15. ASSUME NEW n \in Reported, Respond(r, n) PROVE AnswerInv(r)'
  BY <1>15, AttemptedChannel DEF Respond
<1>16. CASE Connect(r)
  BY <1>16, AttemptedChannel DEF Connect
<1>17. ASSUME NEW n \in Reported, StreamEnds(r, n) PROVE AnswerInv(r)'
  BY <1>17 DEF StreamEnds
<1>18. ASSUME NEW n \in Reported, StreamBreaks(r, n) PROVE AnswerInv(r)'
  BY <1>18 DEF StreamBreaks
<1>19. CASE WriteLog(r)
  BY <1>19 DEF WriteLog, AfterRow
<1>20. CASE WriteLogFails(r)
  BY <1>20 DEF WriteLogFails, AfterRow, StoreError
<1>21. CASE Consume(r)
  BY <1>21 DEF Consume
<1>22. CASE ConsumeFails(r)
  BY <1>22 DEF ConsumeFails, StoreError
<1>23. CASE Leave(r)
  BY <1>23 DEF Leave
<1>24. CASE NoAdapter(r)
  BY <1>24 DEF NoAdapter
<1> QED
  BY <1>1, <1>2, <1>3, <1>4, <1>5, <1>6, <1>7, <1>8, <1>9, <1>10, <1>11, <1>12, <1>13, <1>14,
     <1>15, <1>16, <1>17, <1>18, <1>19, <1>20, <1>21, <1>22, <1>23, <1>24 DEF RequestStep, Progress

(* The books. *)
LEMMA BooksStep ==
  ASSUME TypeOK, NEW r \in Requests, RequestStep(r), AnswerInv(r), BooksInv(r), SelectionInv(r)
  PROVE  BooksInv(r)'
<1> USE DEF TypeOK, Goto, tables, selection, attempt, result, books, BooksInv, Unanswered, Null
<1>1. CASE Refuse(r)
  BY <1>1 DEF Refuse
<1>2. CASE Route(r)
  BY <1>2 DEF Route
<1>3. CASE RouteFails(r)
  BY <1>3 DEF RouteFails, Fail, StoreError
<1>4. CASE Pick(r)
  BY <1>4 DEF Pick
<1>5. CASE Exhaust(r)
  BY <1>5 DEF Exhaust, Fail
<1>6. CASE LookupPrice(r)
  <2>1. price[chan[r]] \in Prices
    BY <1>6, AttemptedChannel DEF LookupPrice, Attempting
  <2> QED
    BY <1>6, <2>1 DEF LookupPrice
<1>7. CASE LookupFails(r)
  BY <1>7 DEF LookupFails, Fail, StoreError
<1>8. CASE Admit(r)
  BY <1>8 DEF Admit
<1>9. CASE Unaffordable(r)
  BY <1>9 DEF Unaffordable, Fail
<1>10. CASE GateFails(r)
  BY <1>10 DEF GateFails, Fail, StoreError
<1>11. CASE Send(r)
  BY <1>11 DEF Send
<1>12. CASE NotSent(r)
  BY <1>12 DEF NotSent
<1>13. CASE Retryable(r)
  BY <1>13 DEF Retryable
<1>14. CASE Rejected(r)
  BY <1>14 DEF Rejected, Fail
<1>15. ASSUME NEW n \in Reported, Respond(r, n) PROVE BooksInv(r)'
  <2>1. quoted[r] * n \in Costs
    BY <1>15 DEF Respond, Costs
  <2>2. PICK c \in Costs : cost' = [cost EXCEPT ![r] = c]
    BY <1>15, <2>1 DEF Respond
  <2> QED
    BY <1>15, <2>2 DEF Respond
<1>16. CASE Connect(r)
  BY <1>16 DEF Connect
<1>17. ASSUME NEW n \in Reported, StreamEnds(r, n) PROVE BooksInv(r)'
  <2>1. quoted[r] * (IF n = 0 THEN Est ELSE n) \in Costs
    BY <1>17 DEF StreamEnds, Costs
  <2>2. PICK c \in Costs \cup {Null} : cost' = [cost EXCEPT ![r] = c]
    BY <1>17, <2>1 DEF StreamEnds
  <2> QED
    BY <1>17, <2>2 DEF StreamEnds
<1>18. ASSUME NEW n \in Reported, StreamBreaks(r, n) PROVE BooksInv(r)'
  BY <1>18 DEF StreamBreaks
<1>19. CASE WriteLog(r)
  BY <1>19 DEF WriteLog, AfterRow
<1>20. CASE WriteLogFails(r)
  BY <1>20, StoreErrorType DEF WriteLogFails, AfterRow
<1>21. CASE Consume(r)
  BY <1>21 DEF Consume
<1>22. CASE ConsumeFails(r)
  BY <1>22, StoreErrorType DEF ConsumeFails
<1>23. CASE Leave(r)
  BY <1>23 DEF Leave
<1>24. CASE NoAdapter(r)
  BY <1>24 DEF NoAdapter
<1> QED
  BY <1>1, <1>2, <1>3, <1>4, <1>5, <1>6, <1>7, <1>8, <1>9, <1>10, <1>11, <1>12, <1>13, <1>14,
     <1>15, <1>16, <1>17, <1>18, <1>19, <1>20, <1>21, <1>22, <1>23, <1>24 DEF RequestStep, Progress

LEMMA RequestStepKept ==
  ASSUME IInv, NEW r \in Requests, RequestStep(r)
  PROVE  IInv'
<1>1. TypeOK /\ RequestInv(r)
  BY DEF IInv
<1>2. TypeOK'
  BY <1>1, TypeStep DEF RequestInv
<1>3. RequestInv(r)'
  BY <1>1, SelectionStep, CallsStep, AnswerStep, BooksStep DEF RequestInv
<1>4. faults'.store = 0 => faults.store = 0
  <2>1. StoreError \/ UNCHANGED faults
    BY DEF RequestStep, Progress, Refuse, Route, RouteFails, Pick, NoAdapter, Exhaust, LookupPrice,
       LookupFails, Admit, Unaffordable, GateFails, Send, NotSent, Retryable, Rejected,
       Respond, Connect, StreamEnds, StreamBreaks, WriteLog, WriteLogFails, Consume,
       ConsumeFails, Leave
  <2> QED
    BY <1>1, <2>1, StoreErrorType
<1>5. ASSUME NEW q \in Requests \ {r} PROVE RequestInv(q)'
  BY <1>1, <1>4, OthersUntouched, UntouchedKept DEF IInv
<1> QED
  BY <1>2, <1>3, <1>5 DEF IInv

(* A step of the environment, or none. *)
LEMMA EnvironmentKept ==
  ASSUME IInv, (\E c \in Channels : Edit(c)) \/ Elsewhere \/ UNCHANGED vars
  PROVE  IInv'
<1> USE DEF IInv, TypeOK, FaultCounts, tables, selection, attempt, result, books
<1>1. /\ enabled' \in [Channels -> BOOLEAN] /\ price' \in [Channels -> Prices]
      /\ offered' \in [Requests -> SUBSET (Channels \X Prices)]
      /\ spent' \in Nat
  <2>1. ASSUME NEW c \in Channels, Edit(c)
        PROVE  /\ enabled' \in [Channels -> BOOLEAN] /\ price' \in [Channels -> Prices]
               /\ offered' \in [Requests -> SUBSET (Channels \X Prices)]
    <3>1. CASE enabled' = [enabled EXCEPT ![c] = ~@] /\ UNCHANGED <<price, offered>>
      BY <3>1
    <3>2. ASSUME NEW p \in Prices, price' = [price EXCEPT ![c] = p], UNCHANGED enabled,
                 offered' = [r \in Requests |->
                               IF at[r] = "price" /\ chan[r] = c
                               THEN offered[r] \cup {<<c, p>>} ELSE offered[r]]
          PROVE  /\ enabled' \in [Channels -> BOOLEAN] /\ price' \in [Channels -> Prices]
                 /\ offered' \in [Requests -> SUBSET (Channels \X Prices)]
      BY <3>2
    <3> QED
      BY <2>1, <3>1, <3>2 DEF Edit
  <2>2. (\E c \in Channels : Edit(c)) => UNCHANGED spent
    BY DEF Edit
  <2>3. Elsewhere => spent' \in Nat /\ UNCHANGED <<enabled, price, offered>>
    BY RelayAssumption DEF Elsewhere
  <2> QED
    BY <2>1, <2>2, <2>3 DEF vars
<1>2. /\ faults' \in FaultCounts /\ faults'.store = faults.store
  <2>1. UNCHANGED faults \/ faults' = [faults EXCEPT !.edit = @ + 1]
    BY DEF Edit, Elsewhere, vars
  <2> QED
    BY <2>1
<1>3. UNCHANGED <<stream, at, selection, chan, quoted, asked, served, result, row, rowCost,
                  debit, gone>>
  BY DEF Edit, Elsewhere, vars
<1>4. TypeOK'
  BY <1>1, <1>2, <1>3
<1>5. ASSUME NEW r \in Requests PROVE RequestInv(r)'
  <2>1. Untouched(r)
    BY <1>3 DEF Untouched
  <2> QED
    BY <1>2, <2>1, UntouchedKept
<1> QED
  BY <1>4, <1>5

(* A crash leaves requests half done, never with an inconsistent record.   *)
LEMMA CrashKept ==
  ASSUME IInv, Crash
  PROVE  IInv'
<1> USE DEF tables, selection, attempt, result, books
<1>1. UNCHANGED <<enabled, price, spent, stream, selection, attempt, result, books, gone>>
  BY DEF Crash
<1>2. faults' \in FaultCounts /\ faults'.store = faults.store
  <2>1. faults \in FaultCounts /\ faults' = [faults EXCEPT !.crash = @ + 1]
    BY DEF IInv, TypeOK, Crash
  <2> QED
    BY <2>1 DEF FaultCounts
<1>3. \A r \in Requests : at'[r] = IF at[r] \in {"new", "done"} THEN at[r] ELSE "lost"
  BY DEF Crash
<1>4. at' \in [Requests -> {"new", "pick", "price", "gate", "send", "await",
                            "pump", "log", "debit", "done", "lost"}]
  BY DEF Crash
<1>5. TypeOK'
  BY <1>1, <1>2, <1>4 DEF IInv, TypeOK
<1>6. ASSUME NEW r \in Requests PROVE RequestInv(r)'
  <2>1. CASE at[r] \in {"new", "done"}
    BY <1>1, <1>2, <1>3, <2>1, UntouchedKept DEF Untouched, IInv
  <2>2. CASE at[r] \notin {"new", "done"}
    <3>1. RequestInv(r) /\ at'[r] = "lost" /\ cursor[r] \in Nat
      BY <1>3, <2>2 DEF IInv, TypeOK
    <3>2. SelectionInv(r)'
      BY <1>1, <3>1 DEF RequestInv, SelectionInv, Attempting
    <3>3. CallsInv(r)'
      BY <1>1, <3>1 DEF RequestInv, CallsInv, Passed, IInv, TypeOK
    <3>4. AnswerInv(r)'
      BY <1>1, <3>1 DEF RequestInv, AnswerInv, Unanswered
    <3>5. BooksInv(r)'
      BY <1>1, <3>1 DEF RequestInv, BooksInv, Unanswered
    <3> QED
      BY <3>2, <3>3, <3>4, <3>5 DEF RequestInv
  <2> QED
    BY <2>1, <2>2
<1> QED
  BY <1>5, <1>6 DEF IInv

LEMMA Invariance == Spec => []IInv
<1>1. IInv /\ [Next]_vars => IInv'
  BY RequestStepKept, EnvironmentKept, CrashKept DEF Next
<1> QED
  BY IInvInit, <1>1, PTL DEF Spec
-----------------------------------------------------------------------------
(* The variables always have their types: in particular the amount debited *)
(* for a request is a number, although finish() may hold a cost of NULL.   *)
THEOREM TypeCorrect == Spec => []TypeOK
<1>1. IInv => TypeOK
  BY DEF IInv
<1> QED
  BY Invariance, <1>1, PTL

(* However many channels, retries and edits of the tables while a request  *)
(* runs, Selection.Next and the failover loops call each upstream at most  *)
(* once, by descending priority and within the cap, and the answer relayed *)
(* and logged is that of the last one called.                              *)
THEOREM FailoverIsDisciplined == Spec => []FailoverDiscipline
<1>1. ASSUME IInv, NEW r \in Requests
      PROVE  Len(asked[r]) <= MaxRetries
  <2>1. /\ Len(asked[r]) \in Nat /\ cursor[r] \in Nat /\ MaxRetries \in Nat
        /\ Len(asked[r]) <= Passed(r) /\ cursor[r] <= MaxRetries
    BY <1>1, RelayAssumption DEF IInv, TypeOK, RequestInv, CallsInv, SelectionInv
  <2> QED
    BY <2>1 DEF Passed
<1>2. IInv => FailoverDiscipline
  BY <1>1 DEF IInv, RequestInv, CallsInv, FailoverDiscipline
<1> QED
  BY Invariance, <1>2, PTL

(* finish(): when a request has ended without store errors its row says    *)
(* how, and its debit is what that row cost; no success is recorded for a  *)
(* client that was sent an error, nor an error for one that was sent a     *)
(* complete answer.                                                        *)
THEOREM BooksAlwaysAgree == Spec => []BooksAgree
<1>1. IInv => BooksAgree
  BY DEF IInv, RequestInv, BooksInv, AnswerInv, BooksAgree
<1> QED
  BY Invariance, <1>1, PTL

(* Upstreams are called by Send only, and a status is sent only to a       *)
(* request that has none.                                                  *)
LEMMA OnlySendCalls ==
  ASSUME TypeOK, NEW r \in Requests, RequestStep(r)
  PROVE  \/ asked' = asked
         \/ /\ at[r] = "send"
            /\ asked' = [asked EXCEPT ![r] = Append(@, chan[r])]
BY DEF RequestStep, Progress, Refuse, Route, RouteFails, Pick, NoAdapter, Exhaust, LookupPrice, LookupFails,
   Admit, Unaffordable, GateFails, Send, NotSent, Retryable, Rejected, Respond, Connect,
   StreamEnds, StreamBreaks, WriteLog, WriteLogFails, Consume, ConsumeFails, Leave, Fail,
   attempt

LEMMA OnlyTheUnansweredAreAnswered ==
  ASSUME TypeOK, NEW r \in Requests, RequestStep(r)
  PROVE  \/ answer' = answer
         \/ /\ at[r] \in Unanswered
            /\ \E code \in Codes : answer' = [answer EXCEPT ![r] = code]
BY DEF RequestStep, Progress, Refuse, Route, RouteFails, Pick, NoAdapter, Exhaust, LookupPrice, LookupFails,
   Admit, Unaffordable, GateFails, Send, NotSent, Retryable, Rejected, Respond, Connect,
   StreamEnds, StreamBreaks, WriteLog, WriteLogFails, Consume, ConsumeFails, Leave, Fail,
   result, Unanswered, Codes

(* "Once the upstream stream is open and the headers are flushed no        *)
(* further failover is possible", nor after any other answer: no second    *)
(* status is sent and no other upstream is called.                         *)
THEOREM AnswersAreFinal == Spec => AnswerIsFinal
<1>1. ASSUME IInv, [Next]_vars, NEW r \in Requests, answer[r] # 0
      PROVE  answer'[r] = answer[r] /\ asked'[r] = asked[r]
  <2>1. TypeOK /\ at[r] \notin Unanswered
    BY <1>1 DEF IInv, RequestInv, AnswerInv
  <2>2. ASSUME NEW q \in Requests, RequestStep(q)
        PROVE  answer'[r] = answer[r]
    BY <2>1, <2>2, OnlyTheUnansweredAreAnswered DEF TypeOK
  <2>3. ASSUME NEW q \in Requests, RequestStep(q)
        PROVE  asked'[r] = asked[r]
    BY <2>1, <2>3, OnlySendCalls DEF TypeOK, Unanswered
  <2>4. CASE (\E c \in Channels : Edit(c)) \/ Elsewhere \/ Crash \/ UNCHANGED vars
    BY <2>4 DEF Edit, Elsewhere, Crash, vars, attempt, result
  <2> QED
    BY <1>1, <2>2, <2>3, <2>4 DEF Next
<1>2. IInv /\ [Next]_vars =>
        [\A r \in Requests : answer[r] # 0 => answer'[r] = answer[r] /\ asked'[r] = asked[r]]_vars
  BY <1>1
<1> QED
  BY Invariance, <1>2, PTL DEF Spec, AnswerIsFinal

-----------------------------------------------------------------------------
(* What a success is billed. *)

(* The bill of r for n reported tokens at the price p of its channel.      *)
Bill(r, p, n) ==
  LET logged == IF n = 0 THEN Est ELSE n
  IN  /\ <<served[r], p>> \in offered[r]
      /\ tokens[r] = logged
      /\ cost[r] = IF ~stream[r] THEN p * n ELSE IF p = 0 THEN Null ELSE p * logged

(* The price in the table, then the price looked up, is one the current    *)
(* candidate had at the gate; and a success is billed at such a price.     *)
OfferInv(r) ==
  /\ at[r] = "price" => <<chan[r], price[chan[r]]>> \in offered[r]
  /\ at[r] \in {"gate", "send", "await", "pump"} => <<chan[r], quoted[r]>> \in offered[r]
  /\ outcome[r] = "success" => \E p \in Prices, n \in Reported : Bill(r, p, n)

(* Only Pick offers, to its own request, and no request edits a price.     *)
LEMMA OnlyPickOffers ==
  ASSUME TypeOK, NEW r \in Requests, RequestStep(r)
  PROVE  /\ price' = price
         /\ \/ offered' = offered
            \/ Pick(r)
BY DEF RequestStep, Progress, Refuse, Route, RouteFails, NoAdapter, Exhaust, LookupPrice,
   LookupFails, Admit, Unaffordable, GateFails, Send, NotSent, Retryable, Rejected, Respond,
   Connect, StreamEnds, StreamBreaks, WriteLog, WriteLogFails, Consume, ConsumeFails, Leave,
   Pick, tables, attempt

(* A bill stands as long as what it is made of is left alone.              *)
LEMMA BillStands ==
  ASSUME NEW r \in Requests, Untouched(r), offered[r] \subseteq offered'[r],
         \E p \in Prices, n \in Reported : Bill(r, p, n)
  PROVE  \E p \in Prices, n \in Reported : Bill(r, p, n)'
BY DEF Bill, Untouched

(* The steps of a request: Pick offers what LookupPrice will look up, and  *)
(* from there the price goes with the channel it was looked up for.        *)
LEMMA OfferStep ==
  ASSUME IInv, NEW r \in Requests, RequestStep(r), OfferInv(r)
  PROVE  OfferInv(r)'
<1>a. TypeOK /\ BooksInv(r) /\ CallsInv(r) /\ AnswerInv(r)
  BY DEF IInv, RequestInv
<1>b. price' = price
  BY <1>a, OnlyPickOffers
<1> USE DEF TypeOK, Goto, attempt, result, books
<1>1. CASE Pick(r)
  <2>1. /\ at'[r] = "price" /\ chan'[r] = order[r][cursor[r] + 1] /\ outcome'[r] = "open"
    BY <1>1, <1>a DEF Pick, BooksInv, Unanswered
  <2>2. <<chan'[r], price[chan'[r]]>> \in offered'[r]
    BY <1>1, <1>a, <2>1 DEF Pick, Offer
  <2> QED
    BY <1>b, <2>1, <2>2 DEF OfferInv
<1>2. CASE LookupPrice(r)
  <2>1. /\ at[r] = "price" /\ at'[r] = "gate" /\ quoted'[r] = price[chan[r]]
        /\ UNCHANGED <<chan, offered, outcome>> /\ outcome[r] = "open"
    BY <1>2, <1>a DEF LookupPrice, BooksInv, Unanswered
  <2> QED
    BY <2>1 DEF OfferInv
<1>3. ASSUME NEW n \in Reported, Respond(r, n)
      PROVE  OfferInv(r)'
  <2>1. PICK p \in Prices : p = quoted[r] /\ <<chan[r], p>> \in offered[r] /\ at'[r] = "log"
    BY <1>3, <1>a DEF Respond, BooksInv, OfferInv
  <2>2. Bill(r, p, n)'
    BY <1>3, <1>a, <2>1 DEF Respond, Bill
  <2>3. \E m \in Reported : Bill(r, p, m)'
    BY <1>3, <2>2
  <2> QED
    BY <2>1, <2>3 DEF OfferInv
<1>4. ASSUME NEW n \in Reported, StreamEnds(r, n)
      PROVE  OfferInv(r)'
  <2>1. PICK p \in Prices : /\ p = quoted[r] /\ <<chan[r], p>> \in offered[r] /\ at'[r] = "log"
                           /\ chan[r] = served[r] /\ stream[r]
    <3>1. at[r] = "pump" /\ at'[r] = "log"
      BY <1>4, <1>a DEF StreamEnds
    <3>2. stream[r] /\ served[r] # NoChannel
      BY <1>a, <3>1 DEF AnswerInv
    <3>3. chan[r] = served[r]
      BY <1>a, <3>2 DEF CallsInv
    <3>4. quoted[r] \in Prices /\ <<chan[r], quoted[r]>> \in offered[r]
      BY <1>a, <3>1 DEF BooksInv, OfferInv
    <3> QED
      BY <3>1, <3>2, <3>3, <3>4
  <2>2. Bill(r, p, n)'
    BY <1>4, <1>a, <2>1 DEF StreamEnds, Bill
  <2>3. \E m \in Reported : Bill(r, p, m)'
    BY <1>4, <2>2
  <2> QED
    BY <2>1, <2>3 DEF OfferInv
(* The other steps before the books end with an error, or go on with the   *)
(* same channel, price and offers.                                         *)
<1>5. ASSUME \/ Refuse(r) \/ RouteFails(r) \/ Exhaust(r) \/ LookupFails(r) \/ Unaffordable(r)
             \/ GateFails(r) \/ Rejected(r) \/ \E n \in Reported : StreamBreaks(r, n)
      PROVE  OfferInv(r)'
  <2>1. at'[r] \in {"log", "done"} /\ outcome'[r] \in {"refused", "error"}
    BY <1>5, <1>a DEF Refuse, RouteFails, Exhaust, LookupFails, Unaffordable, GateFails,
       Rejected, StreamBreaks, Fail
  <2> QED
    BY <2>1 DEF OfferInv
<1>6. ASSUME \/ Route(r) \/ NoAdapter(r) \/ Admit(r) \/ Send(r) \/ NotSent(r) \/ Retryable(r)
             \/ Connect(r)
      PROVE  OfferInv(r)'
  <2>1. /\ at[r] \in Unanswered /\ UNCHANGED <<chan, quoted, offered, outcome>>
        /\ at'[r] \in {"pick", "send", "await", "pump"}
        /\ at'[r] # "pick" => at[r] \in {"gate", "send", "await"}
    BY <1>6, <1>a DEF Route, NoAdapter, Admit, Send, NotSent, Retryable, Connect, Unanswered
  <2>2. outcome[r] = "open"
    BY <1>a, <2>1 DEF BooksInv
  <2> QED
    BY <2>1, <2>2 DEF OfferInv
(* The steps of finish(). *)
<1>7. ASSUME WriteLog(r) \/ WriteLogFails(r) \/ Consume(r) \/ ConsumeFails(r)
      PROVE  OfferInv(r)'
  <2>1. /\ at'[r] \in {"debit", "done"} /\ UNCHANGED <<stream, served, offered, outcome, tokens, cost>>
    BY <1>7, <1>a DEF WriteLog, WriteLogFails, Consume, ConsumeFails, AfterRow
  <2> QED
    BY <2>1 DEF OfferInv, Bill
<1>8. CASE Leave(r)
  BY <1>8, <1>b DEF Leave, OfferInv, Bill
<1> QED
  BY <1>1, <1>2, <1>3, <1>4, <1>5, <1>6, <1>7, <1>8 DEF RequestStep, Progress

(* What anybody else does adds an offer at most, and to a request that is  *)
(* about to look its price up, the one it will find.                       *)
LEMMA OfferKept ==
  ASSUME IInv, NEW r \in Requests, OfferInv(r), [Next]_vars, ~ RequestStep(r)
  PROVE  OfferInv(r)'
<1>a. TypeOK /\ SelectionInv(r)
  BY DEF IInv, RequestInv
<1>1. ASSUME NEW q \in Requests, RequestStep(q)
      PROVE  OfferInv(r)'
  <2>1. Untouched(r) /\ q # r
    BY <1>1, <1>a, OthersUntouched
  <2>2. price' = price /\ offered'[r] = offered[r]
    <3>1. Pick(q) => offered'[r] = offered[r]
      BY <1>a, <2>1 DEF Pick, Offer, TypeOK
    <3> QED
      BY <1>1, <1>a, <3>1, OnlyPickOffers
  <2> QED
    BY <2>1, <2>2, BillStands DEF OfferInv, Untouched
<1>2. ASSUME NEW c \in Channels, Edit(c)
      PROVE  OfferInv(r)'
  <2>1. Untouched(r)
    BY <1>2 DEF Edit, Untouched, selection, result, books
  <2>2. CASE UNCHANGED <<price, offered>>
    BY <2>1, <2>2, BillStands DEF OfferInv, Untouched
  <2>3. ASSUME NEW p \in Prices, price' = [price EXCEPT ![c] = p],
               offered' = [q \in Requests |-> IF at[q] = "price" /\ chan[q] = c
                                              THEN offered[q] \cup {<<c, p>>} ELSE offered[q]]
        PROVE  OfferInv(r)'
    <3>1. offered[r] \subseteq offered'[r]
      BY <2>3
    <3>2. at[r] = "price" => <<chan[r], price'[chan[r]]>> \in offered'[r]
      <4>1. at[r] = "price" => chan[r] \in Channels
        BY <1>a, AttemptedChannel DEF Attempting
      <4>2. CASE at[r] = "price" /\ chan[r] = c
        BY <1>a, <2>3, <4>2 DEF TypeOK
      <4>3. CASE at[r] = "price" /\ chan[r] # c
        BY <1>a, <2>3, <3>1, <4>1, <4>3 DEF TypeOK, OfferInv
      <4> QED
        BY <4>2, <4>3
    <3> QED
      BY <2>1, <3>1, <3>2, BillStands DEF OfferInv, Untouched
  <2> QED
    BY <1>2, <2>2, <2>3 DEF Edit
<1>3. ASSUME Elsewhere \/ UNCHANGED vars
      PROVE  OfferInv(r)'
  <2>1. Untouched(r) /\ UNCHANGED <<price, offered>>
    BY <1>3 DEF Elsewhere, vars, tables, selection, attempt, result, Untouched
  <2> QED
    BY <2>1, BillStands DEF OfferInv, Untouched
<1>4. CASE Crash
  <2>1. /\ at'[r] \in {"new", "done", "lost"}
        /\ UNCHANGED <<stream, served, offered, outcome, tokens, cost>>
    BY <1>4, <1>a DEF Crash, TypeOK, attempt, result
  <2> QED
    BY <2>1 DEF OfferInv, Bill
<1> QED
  BY <1>1, <1>2, <1>3, <1>4 DEF Next

(* Whatever failed before and whatever is edited meanwhile, a success is   *)
(* billed at a price its own channel had while the request was at the gate *)
(* and for the tokens reported: the variable in which serveStream keeps    *)
(* the price across candidates never carries one over.                     *)
THEOREM SuccessesAreBilledAtTheirPrice == Spec => []BilledAtItsPrice
<1>1. Init => \A r \in Requests : OfferInv(r)
  BY DEF Init, OfferInv
<1>2. IInv /\ (\A r \in Requests : OfferInv(r)) /\ [Next]_vars
        => \A r \in Requests : OfferInv(r)'
  BY OfferStep, OfferKept
<1>3. (\A r \in Requests : OfferInv(r)) => BilledAtItsPrice
  BY DEF OfferInv, Bill, BilledAtItsPrice
<1> DEFINE Offers == \A r \in Requests : OfferInv(r)
<1>4. Init => Offers
  BY <1>1
<1>5. IInv /\ Offers /\ [Next]_vars => Offers'
  BY <1>2
<1>6. Offers => BilledAtItsPrice
  BY <1>3
<1> HIDE DEF Offers
<1> QED
  BY Invariance, <1>4, <1>5, <1>6, PTL DEF Spec
-----------------------------------------------------------------------------
(* The refinement of module Ledger: what each step of the relay is there.  *)

LEMMA LedgerInitImplemented == Init => Books!LedgerInit
BY DEF Init, Books!LedgerInit, Books!Null, Null

(* Steps that do not touch the books. *)
LEMMA SilentSteps ==
  ASSUME NEW r \in Requests,
         \/ Route(r) \/ Pick(r) \/ NoAdapter(r) \/ LookupPrice(r) \/ Admit(r) \/ Send(r) \/ NotSent(r)
         \/ Retryable(r) \/ Connect(r) \/ WriteLogFails(r) \/ ConsumeFails(r) \/ Leave(r)
  PROVE  UNCHANGED <<outcome, row, rowCost, debit>>
BY DEF Route, Pick, NoAdapter, LookupPrice, Admit, Send, NotSent, Retryable, Connect, WriteLogFails,
   ConsumeFails, Leave, result, books

(* Every way to answer settles a request that was open. *)
LEMMA SettlingSteps ==
  ASSUME IInv, NEW r \in Requests,
         \/ RouteFails(r) \/ Exhaust(r) \/ LookupFails(r) \/ Unaffordable(r) \/ GateFails(r)
         \/ Rejected(r)
         \/ \E n \in Reported : Respond(r, n) \/ StreamEnds(r, n) \/ StreamBreaks(r, n)
  PROVE  Books!Settle(r)
<1>1. outcome[r] = "open"
  BY DEF RouteFails, Exhaust, LookupFails, Unaffordable, GateFails, Rejected, Respond, StreamEnds,
     StreamBreaks, IInv, RequestInv, BooksInv, Unanswered
<1>2. \E s \in {"success", "error"} : outcome' = [outcome EXCEPT ![r] = s]
  BY DEF RouteFails, Exhaust, LookupFails, Unaffordable, GateFails, Rejected, Respond, StreamEnds,
     StreamBreaks, Fail
<1>3. UNCHANGED <<row, rowCost, debit>>
  BY DEF RouteFails, Exhaust, LookupFails, Unaffordable, GateFails, Rejected, Respond, StreamEnds,
     StreamBreaks, books
<1> QED
  BY <1>1, <1>2, <1>3 DEF Books!Settle

LEMMA WriteLogRecords ==
  ASSUME IInv, NEW r \in Requests, WriteLog(r)
  PROVE  Books!Record(r)
<1>1. /\ outcome[r] \in {"success", "error"} /\ row[r] = "none" /\ debit[r] = 0
      /\ cost[r] \in Costs \cup {Null} /\ (outcome[r] = "error" => cost[r] = Null)
  BY DEF WriteLog, IInv, RequestInv, BooksInv
<1>2. /\ row' = [row EXCEPT ![r] = outcome[r]] /\ rowCost' = [rowCost EXCEPT ![r] = cost[r]]
      /\ UNCHANGED <<outcome, debit>>
  BY DEF WriteLog, result
<1> QED
  BY <1>1, <1>2 DEF Books!Record, Books!Null, Null

LEMMA ConsumeDebits ==
  ASSUME IInv, NEW r \in Requests, Consume(r)
  PROVE  Books!Debit(r)
<1>1. /\ outcome[r] = "success" /\ debit[r] = 0 /\ cost[r] \in Costs \ {0}
      /\ row[r] # "none" => cost[r] = rowCost[r]
  BY DEF Consume, IInv, RequestInv, BooksInv, Null
<1>2. debit' = [debit EXCEPT ![r] = cost[r]] /\ UNCHANGED <<outcome, row, rowCost>>
  BY DEF Consume, result
<1> QED
  BY <1>1, <1>2 DEF Books!Debit

(* The relay, with its failovers, store errors, crashes and departures,    *)
(* implements the ledger: settled at most once, recorded at most once and  *)
(* as settled, debited at most once, after the record and by its cost.     *)
THEOREM RelayImplementsLedger == Spec => ImplementsLedger
<1>1. ASSUME IInv, NEW r \in Requests, RequestStep(r)
      PROVE  [Books!LedgerNext]_<<outcome, row, rowCost, debit>>
  <2>1. Refuse(r) => Books!Refuse(r)
    BY <1>1 DEF Refuse, Books!Refuse, books, IInv, RequestInv, BooksInv, Unanswered
  <2> QED
    BY <1>1, <2>1, SilentSteps, SettlingSteps, WriteLogRecords, ConsumeDebits
       DEF RequestStep, Progress, Books!LedgerNext
<1>2. (\E c \in Channels : Edit(c)) \/ Elsewhere \/ Crash \/ UNCHANGED vars
        => UNCHANGED <<outcome, row, rowCost, debit>>
  BY DEF Edit, Elsewhere, Crash, vars, result, books
<1>3. IInv /\ [Next]_vars => [Books!LedgerNext]_<<outcome, row, rowCost, debit>>
  BY <1>1, <1>2 DEF Next
<1> QED
  BY Invariance, LedgerInitImplemented, <1>3, PTL DEF Spec, ImplementsLedger, Books!LedgerSpec

-----------------------------------------------------------------------------
(* A request ends in a bounded number of steps. *)

(* How many control points a request may still pass: six for each attempt  *)
(* the failover cap still allows, and those of its end.                    *)
StepsLeft(r) ==
  LET attempts == 6 * (MaxRetries - cursor[r])
  IN CASE at[r] = "new"   -> attempts + 5
       [] at[r] = "pick"  -> attempts + 4
       [] at[r] = "price" -> attempts + 9
       [] at[r] = "gate"  -> attempts + 8
       [] at[r] = "send"  -> attempts + 7
       [] at[r] = "await" -> attempts + 6
       [] at[r] = "pump"  -> 3
       [] at[r] = "log"   -> 2
       [] at[r] = "debit" -> 1
       [] OTHER           -> 0

MostSteps == 6 * MaxRetries + 5

(* A step brings a request nearer to its end, or it is another's step or   *)
(* its client's leaving, which take it no farther.                         *)
Nearer(r) == StepsLeft(r)' < StepsLeft(r)
Advances(r) ==
  \/ Nearer(r)
  \/ /\ at'[r] = at[r] /\ StepsLeft(r)' = StepsLeft(r)
     /\ RequestStep(r) => Leave(r)

(* There are only so many, ... *)
LEMMA StepsCounted ==
  ASSUME IInv, NEW r \in Requests
  PROVE  StepsLeft(r) \in 0 .. MostSteps
<1>1. cursor[r] \in Nat /\ cursor[r] <= MaxRetries /\ MaxRetries \in Nat
  BY RelayAssumption DEF IInv, TypeOK, RequestInv, SelectionInv
<1>2. at[r] = "price" => cursor[r] > 0
  BY DEF IInv, RequestInv, SelectionInv, Attempting
<1>3. at[r] \in {"gate", "send", "await"} => cursor[r] > 0
  BY DEF IInv, RequestInv, SelectionInv, Attempting
<1> QED
  BY <1>1, <1>2, <1>3 DEF StepsLeft, MostSteps

(* ... and each step of its own takes it to one with fewer behind it.      *)
LEMMA StepAdvances ==
  ASSUME IInv, NEW r \in Requests, RequestStep(r)
  PROVE  Advances(r)
<1>1. /\ cursor[r] \in Nat /\ cursor[r] <= MaxRetries /\ MaxRetries \in Nat
      /\ at[r] = "new" => cursor[r] = 0
      /\ DOMAIN at = Requests /\ DOMAIN cursor = Requests
  BY RelayAssumption DEF IInv, TypeOK, RequestInv, SelectionInv
<1> DEFINE Moves(l) == at'[r] = l /\ cursor'[r] = cursor[r]
<1>2. ASSUME Refuse(r) \/ RouteFails(r)
      PROVE  Nearer(r)
  <2>1. at[r] = "new" /\ at'[r] \in {"log", "done"} /\ cursor'[r] = cursor[r]
    BY <1>1, <1>2 DEF Refuse, RouteFails, Fail, Goto, selection
  <2> QED
    BY <1>1, <2>1 DEF Nearer, StepsLeft
<1>3. ASSUME Route(r)
      PROVE  Nearer(r)
  <2>1. at[r] = "new" /\ Moves("pick")
    BY <1>1, <1>3 DEF Route, Goto
  <2> QED
    BY <1>1, <2>1 DEF Nearer, StepsLeft
<1>4. ASSUME Pick(r)
      PROVE  Nearer(r)
  <2>1. at[r] = "pick" /\ at'[r] = "price" /\ cursor'[r] = cursor[r] + 1
    BY <1>1, <1>4 DEF Pick, Goto
  <2> QED
    BY <1>1, <2>1 DEF Nearer, StepsLeft
<1>5. ASSUME Exhaust(r) \/ LookupFails(r) \/ Unaffordable(r) \/ GateFails(r) \/ Rejected(r)
      PROVE  Nearer(r)
  <2>1. at[r] \in {"pick", "price", "gate", "await"} /\ Moves("log")
    BY <1>1, <1>5 DEF Exhaust, LookupFails, Unaffordable, GateFails, Rejected, Fail, Goto,
                      selection
  <2> QED
    BY <1>1, <2>1 DEF Nearer, StepsLeft
<1>6. ASSUME LookupPrice(r)
      PROVE  Nearer(r)
  <2>1. at[r] = "price" /\ Moves("gate")
    BY <1>1, <1>6 DEF LookupPrice, Goto, selection
  <2> QED
    BY <1>1, <2>1 DEF Nearer, StepsLeft
<1>7. ASSUME Admit(r)
      PROVE  Nearer(r)
  <2>1. at[r] = "gate" /\ Moves("send")
    BY <1>1, <1>7 DEF Admit, Goto, selection
  <2> QED
    BY <1>1, <2>1 DEF Nearer, StepsLeft
<1>8. ASSUME Send(r)
      PROVE  Nearer(r)
  <2>1. at[r] = "send" /\ Moves("await")
    BY <1>1, <1>8 DEF Send, Goto, selection
  <2> QED
    BY <1>1, <2>1 DEF Nearer, StepsLeft
<1>9. ASSUME NotSent(r) \/ Retryable(r)
      PROVE  Nearer(r)
  <2>1. at[r] \in {"send", "await"} /\ Moves("pick")
    BY <1>1, <1>9 DEF NotSent, Retryable, Goto, selection
  <2> QED
    BY <1>1, <2>1 DEF Nearer, StepsLeft
<1>10. ASSUME Connect(r) \/ \E n \in Reported : Respond(r, n)
      PROVE  Nearer(r)
  <2>1. at[r] = "await" /\ at'[r] \in {"pump", "log"} /\ cursor'[r] = cursor[r]
    BY <1>1, <1>10 DEF Connect, Respond, Goto, selection
  <2> QED
    BY <1>1, <2>1 DEF Nearer, StepsLeft
<1>11. ASSUME \E n \in Reported : StreamEnds(r, n) \/ StreamBreaks(r, n)
      PROVE  Nearer(r)
  <2>1. at[r] = "pump" /\ Moves("log")
    BY <1>1, <1>11 DEF StreamEnds, StreamBreaks, Goto, selection
  <2> QED
    BY <2>1 DEF Nearer, StepsLeft
<1>12. ASSUME WriteLog(r) \/ WriteLogFails(r)
      PROVE  Nearer(r)
  <2>1. at[r] = "log" /\ at'[r] \in {"debit", "done"}
    BY <1>1, <1>12 DEF WriteLog, WriteLogFails, AfterRow, Goto
  <2> QED
    BY <2>1 DEF Nearer, StepsLeft
<1>13. ASSUME Consume(r) \/ ConsumeFails(r)
      PROVE  Nearer(r)
  <2>1. at[r] = "debit" /\ at'[r] = "done"
    BY <1>1, <1>13 DEF Consume, ConsumeFails, Goto
  <2> QED
    BY <2>1 DEF Nearer, StepsLeft
<1>15. ASSUME NoAdapter(r)
      PROVE  Nearer(r)
  <2>1. at[r] = "pick" /\ at'[r] = "pick" /\ cursor'[r] = cursor[r] + 1
    BY <1>1, <1>15 DEF NoAdapter
  <2> QED
    BY <1>1, <2>1 DEF Nearer, StepsLeft
<1>14. CASE Leave(r)
  <2>1. UNCHANGED <<at, cursor>>
    BY <1>14 DEF Leave, selection
  <2> QED
    BY <1>14, <2>1 DEF Advances, StepsLeft
<1> QED
  BY <1>2, <1>3, <1>4, <1>5, <1>6, <1>7, <1>8, <1>9, <1>10, <1>11, <1>12, <1>13, <1>14, <1>15
     DEF RequestStep, Progress, Advances

(* No request runs for ever, whatever fails and however often it fails     *)
(* over: it passes at most six control points per channel the cap allows   *)
(* and five more, each step of its own brings it nearer to its end, and    *)
(* nothing that others do takes it back.                                   *)
THEOREM RequestsAreFinite ==
  Spec => /\ [](\A r \in Requests : StepsLeft(r) \in 0 .. MostSteps)
          /\ [][\A r \in Requests : Advances(r)]_vars
<1>1. IInv => \A r \in Requests : StepsLeft(r) \in 0 .. MostSteps
  BY StepsCounted
<1>2. IInv /\ [Next]_vars => [\A r \in Requests : Advances(r)]_vars
  <2> SUFFICES ASSUME IInv, Next, NEW r \in Requests PROVE Advances(r)
    BY DEF vars
  <2>1. CASE RequestStep(r)
    BY <2>1, StepAdvances
  <2>2. CASE ~ RequestStep(r) /\ at'[r] = at[r] /\ cursor'[r] = cursor[r]
    BY <2>2 DEF Advances, StepsLeft
  <2>3. ASSUME NEW q \in Requests, RequestStep(q), q # r
        PROVE  at'[r] = at[r] /\ cursor'[r] = cursor[r]
    BY <2>3, OthersUntouched DEF IInv, Untouched
  <2>4. ASSUME Elsewhere \/ \E c \in Channels : Edit(c)
        PROVE  at'[r] = at[r] /\ cursor'[r] = cursor[r]
    BY <2>4 DEF Elsewhere, Edit, selection
  <2>5. CASE Crash /\ at'[r] # at[r]
    <3>1. /\ cursor[r] \in Nat /\ cursor[r] <= MaxRetries /\ MaxRetries \in Nat
          /\ at[r] \in {"pick", "price", "gate", "send", "await", "pump", "log", "debit"}
          /\ at'[r] = "lost"
      BY <2>5, RelayAssumption DEF IInv, TypeOK, RequestInv, SelectionInv, Crash
    <3> QED
      BY <3>1 DEF Advances, Nearer, StepsLeft
  <2>6. Crash => cursor'[r] = cursor[r]
    BY DEF Crash, selection
  <2> QED
    BY <2>1, <2>2, <2>3, <2>4, <2>5, <2>6 DEF Next
<1> QED
  BY <1>1, <1>2, Invariance, PTL DEF Spec
=============================================================================
