------------------------------- MODULE Ledger -------------------------------
(***************************************************************************)
(* What the relay promises about its books, whatever it goes through to    *)
(* serve a request: each request is refused, or settled exactly once as a  *)
(* success or an error; a settled request has at most one request_logs     *)
(* row, which says how it was settled; only a success costs anything; and  *)
(* it is debited at most once, after its row, and by the cost in it.       *)
(***************************************************************************)
EXTENDS Integers

CONSTANTS Requests, Costs

VARIABLES outcome,  \* "open", "refused", "success" or "error"
          row,      \* the log row of each request: "none", or its status
          cost,     \* cost_micro_usd of that row, Null without one
          debit     \* what each request has taken from the quota

Null == -1

LedgerInit ==
  /\ outcome = [r \in Requests |-> "open"]
  /\ row = [r \in Requests |-> "none"]
  /\ cost = [r \in Requests |-> Null]
  /\ debit = [r \in Requests |-> 0]

Refuse(r) ==
  /\ outcome[r] = "open"
  /\ outcome' = [outcome EXCEPT ![r] = "refused"]
  /\ UNCHANGED <<row, cost, debit>>

Settle(r) ==
  /\ outcome[r] = "open"
  /\ \E s \in {"success", "error"} : outcome' = [outcome EXCEPT ![r] = s]
  /\ UNCHANGED <<row, cost, debit>>

Record(r) ==
  /\ outcome[r] \in {"success", "error"}
  /\ row[r] = "none" /\ debit[r] = 0
  /\ row' = [row EXCEPT ![r] = outcome[r]]
  /\ \E n \in Costs \cup {Null} :
       /\ outcome[r] = "error" => n = Null
       /\ cost' = [cost EXCEPT ![r] = n]
  /\ UNCHANGED <<outcome, debit>>

(* A row that could not be written does not stop the debit. *)
Debit(r) ==
  /\ outcome[r] = "success" /\ debit[r] = 0
  /\ \E n \in Costs \ {0} : /\ row[r] # "none" => n = cost[r]
                            /\ debit' = [debit EXCEPT ![r] = n]
  /\ UNCHANGED <<outcome, row, cost>>

LedgerNext == \E r \in Requests : Refuse(r) \/ Settle(r) \/ Record(r) \/ Debit(r)

LedgerSpec == LedgerInit /\ [][LedgerNext]_<<outcome, row, cost, debit>>
=============================================================================
