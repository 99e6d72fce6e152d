--------------------------- MODULE AccountsProofs ---------------------------
(* Safety of accounts and keys for every number of handlers, names, users  *)
(* and keys.                                                               *)
EXTENDS Accounts, TLAPS

(* A save writes a key that was created: its id is one of the sequence's.  *)
SavesKnownKey ==
  \A p \in Procs : req[p].at = "save" => req[p].id < nextToken

IInv == TypeOK /\ SavesKnownKey

(* What a request holds at each step. *)
LEMMA Held ==
  ASSUME TypeOK, NEW p \in Procs
  PROVE  /\ req[p] \in Requests
         /\ req[p].at \in {"switch", "username", "insert"} =>
              req[p] \in [at : {"switch", "username", "insert"}, by : Uids \cup {Nobody},
                          row : UserRow]
         /\ req[p].at = "update" =>
              req[p] \in [at : {"update"}, by : Uids, tgt : Uids, role : Roles \cup {"keep"},
                          status : UserStatuses \cup {"keep"}]
         /\ req[p].at \in {"count", "sweep"} =>
              req[p] \in [at : {"count", "sweep"}, by : Uids, tgt : Uids]
         /\ req[p].at = "remove" =>
              req[p] \in [at : {"remove"}, by : Uids, tgt : Uids, keys : SUBSET Tids]
         /\ req[p].at = "issue" => req[p] \in [at : {"issue"}, uid : Uids, role : Roles]
         /\ req[p].at = "save" => req[p] \in [at : {"save"}, by : Uids, id : Tids, row : TokenRow]
         /\ req[p].at \in {"owner", "admitted"} =>
              req[p] \in [at : {"owner", "admitted"}, owner : Uids]
<1>1. req[p] \in Requests
  BY DEF TypeOK
<1> QED
  BY <1>1 DEF Requests

(* A handler's step changes its own request only. *)
LEMMA GoType ==
  ASSUME TypeOK, NEW p \in Procs, NEW r \in Requests, Go(p, r)
  PROVE  /\ req' \in [Procs -> Requests] /\ req'[p] = r
         /\ \A q \in Procs : q # p => req'[q] = req[q]
BY DEF TypeOK, Go

LEMMA RespondType ==
  ASSUME TypeOK, NEW p \in Procs, Respond(p)
  PROVE  /\ req' \in [Procs -> Requests] /\ req'[p] = Idle
         /\ \A q \in Procs : q # p => req'[q] = req[q]
<1>1. Idle \in Requests
  BY DEF Idle, Requests
<1> QED
  BY <1>1, GoType DEF Respond

(* The part of the type invariant that a step of the program maintains.    *)
Typed ==
  /\ nextUser \in 1 .. MaxUsers + 1 /\ nextToken \in 1 .. MaxTokens + 1
  /\ DOMAIN users \subseteq 1 .. nextUser - 1
  /\ \A u \in DOMAIN users : users[u] \in UserRow
  /\ DOMAIN tokens \subseteq 1 .. nextToken - 1
  /\ \A t \in DOMAIN tokens : tokens[t] \in TokenRow
  /\ sessions \subseteq [uid : Uids, role : Roles]
  /\ req \in [Procs -> Requests]
  /\ SavesKnownKey

LEMMA HistoryTyped ==
  ASSUME IInv, Watch, Typed'
  PROVE  IInv'
<1>1. DOMAIN tokens' \subseteq Tids
  BY AccountsAssumption DEF Typed, Tids
<1>2. calm' \in [Procs -> BOOLEAN] /\ lowered' \in BOOLEAN
  BY DEF Watch, IInv, TypeOK
<1>3. stray' \subseteq Tids
  BY <1>1 DEF Watch
<1>4. first' \subseteq Procs
  BY DEF Watch
<1>5. DOMAIN users' \subseteq Uids
  BY AccountsAssumption DEF Typed, Uids
<1>6. granted' \subseteq Uids
  BY <1>5 DEF Watch, Admins, IInv, TypeOK
<1> QED
  BY <1>2, <1>3, <1>4, <1>6 DEF IInv, TypeOK, Typed

LEMMA IInvInit == Init => IInv
<1> SUFFICES ASSUME Init PROVE IInv
  OBVIOUS
<1>1. DOMAIN users = {} /\ DOMAIN tokens = {}
  BY DEF Init
<1>2. req \in [Procs -> Requests]
  BY DEF Init, Idle, Requests
<1>3. SavesKnownKey
  BY DEF Init, Idle, SavesKnownKey
<1>4. nextUser \in 1 .. MaxUsers + 1 /\ nextToken \in 1 .. MaxTokens + 1
  BY AccountsAssumption DEF Init
<1>5. calm \in [Procs -> BOOLEAN]
  BY DEF Init
<1> QED
  BY <1>1, <1>2, <1>3, <1>4, <1>5 DEF Init, IInv, TypeOK

LEMMA IInvStep == IInv /\ [Next]_vars => IInv'
<1> SUFFICES ASSUME IInv, [Next]_vars PROVE IInv'
  OBVIOUS
<1> USE DEF tables
<1>a. TypeOK /\ SavesKnownKey
  BY DEF IInv
<1>b. \A s \in sessions : s.uid \in Uids /\ s.role \in Roles
  BY <1>a DEF TypeOK
<1>t. ASSUME UNCHANGED <<tables, sessions>>,
             req' \in [Procs -> Requests], SavesKnownKey'
      PROVE  Typed'
  BY <1>a, <1>t DEF TypeOK, Typed
(* A step to a request r that is not a save. *)
<1>g. ASSUME NEW p \in Procs, NEW r \in Requests, Go(p, r), r.at # "save",
             nextToken' \in Nat, nextToken' >= nextToken
      PROVE  req' \in [Procs -> Requests] /\ SavesKnownKey'
  <2>1. /\ req' \in [Procs -> Requests] /\ req'[p] = r
        /\ \A q \in Procs : q # p => req'[q] = req[q]
    BY <1>a, <1>g, GoType
  <2>2. ASSUME NEW q \in Procs, req'[q].at = "save" PROVE req'[q].id < nextToken'
    <3>1. q # p /\ req'[q] = req[q]
      BY <1>g, <2>1, <2>2
    <3>2. req[q].id < nextToken /\ req[q].id \in Nat
      BY <1>a, <2>2, <3>1, Held DEF SavesKnownKey, Tids
    <3> QED
      BY <1>a, <1>g, <3>1, <3>2 DEF TypeOK
  <2> QED
    BY <2>1, <2>2 DEF SavesKnownKey
<1>n. nextToken \in Nat /\ nextUser \in Nat
  BY <1>a, AccountsAssumption DEF TypeOK
<1>r. Idle \in Requests /\ Idle.at # "save"
  BY DEF Idle, Requests
<1>1. ASSUME NEW p \in Procs, NEW n \in Names, Register(p, n) PROVE Typed'
  <2> DEFINE none == DOMAIN users = {}
             r == [at |-> IF none THEN "username" ELSE "switch", by |-> Nobody,
                   row |-> [name |-> n, role |-> IF none THEN "admin" ELSE "user",
                            status |-> "enabled"]]
  <2>1. r \in Requests /\ r.at # "save"
    BY DEF Requests, UserRow, Roles, UserStatuses
  <2>2. Go(p, r) /\ UNCHANGED <<tables, sessions>>
    BY <1>1 DEF Register
  <2> QED
    BY <1>t, <1>g, <1>n, <2>1, <2>2
<1>2. ASSUME NEW p \in Procs, RegisterSwitch(p) PROVE Typed'
  <2>1. /\ [req[p] EXCEPT !.at = "username"] \in Requests
        /\ [req[p] EXCEPT !.at = "username"].at # "save"
    BY <1>a, <1>2, Held DEF RegisterSwitch, Requests
  <2>2. /\ UNCHANGED <<tables, sessions>> /\ nextToken' \in Nat /\ nextToken' >= nextToken
        /\ Go(p, [req[p] EXCEPT !.at = "username"]) \/ Go(p, Idle)
    BY <1>n, <1>2 DEF RegisterSwitch, Step, Respond
  <2>3. req' \in [Procs -> Requests] /\ SavesKnownKey'
    <3>1. CASE Go(p, Idle)
      BY <1>g, <1>r, <2>2, <3>1
    <3>2. CASE ~ Go(p, Idle)
      BY <1>g, <2>1, <2>2, <3>2
    <3> QED
      BY <3>1, <3>2
  <2> QED
    BY <1>t, <2>2, <2>3
<1>3. ASSUME NEW p \in Procs, NEW s \in sessions, NEW row \in UserRow, AdminCreate(p, s, row)
      PROVE  Typed'
  <2>1. [at |-> "insert", by |-> s.uid, row |-> row] \in Requests
    BY <1>b DEF Requests
  <2> QED
    BY <1>t, <1>g, <1>n, <1>3, <2>1 DEF AdminCreate
<1>4. ASSUME NEW p \in Procs, CheckUsername(p) PROVE Typed'
  <2>1. /\ [req[p] EXCEPT !.at = "insert"] \in Requests
        /\ [req[p] EXCEPT !.at = "insert"].at # "save"
    BY <1>a, <1>4, Held DEF CheckUsername, Requests
  <2>2. /\ UNCHANGED <<tables, sessions>> /\ nextToken' \in Nat /\ nextToken' >= nextToken
        /\ Go(p, [req[p] EXCEPT !.at = "insert"]) \/ Go(p, Idle)
    BY <1>n, <1>4 DEF CheckUsername, Step, Respond
  <2>3. req' \in [Procs -> Requests] /\ SavesKnownKey'
    <3>1. CASE Go(p, Idle)
      BY <1>g, <1>r, <2>2, <3>1
    <3>2. CASE ~ Go(p, Idle)
      BY <1>g, <2>1, <2>2, <3>2
    <3> QED
      BY <3>1, <3>2
  <2> QED
    BY <1>t, <2>2, <2>3
<1>5. ASSUME NEW p \in Procs, InsertUser(p) PROVE Typed'
  <2>1. req' \in [Procs -> Requests] /\ SavesKnownKey'
    BY <1>g, <1>n, <1>r, <1>5 DEF InsertUser, Respond
  <2>2. req[p].row \in UserRow /\ req[p].row.role \in Roles
    BY <1>a, <1>5, Held DEF InsertUser, UserRow
  <2>3. CASE UNCHANGED <<users, nextUser, sessions>>
    BY <1>a, <1>5, <2>1, <2>3 DEF InsertUser, TypeOK, Typed
  <2>4. CASE /\ nextUser \in Uids
             /\ users' = Put(users, nextUser, req[p].row)
             /\ nextUser' = nextUser + 1
             /\ sessions' = IF req[p].by # Nobody THEN sessions
                            ELSE sessions \cup {[uid |-> nextUser, role |-> req[p].row.role]}
    <3>1. sessions' \subseteq [uid : Uids, role : Roles]
      BY <1>a, <2>2, <2>4 DEF TypeOK
    <3>2. nextUser' \in 1 .. MaxUsers + 1
      BY <1>a, <2>4, AccountsAssumption DEF Uids
    <3>3. DOMAIN users' \subseteq 1 .. nextUser' - 1
      BY <1>a, <1>n, <2>4 DEF Put, TypeOK, Uids
    <3>4. \A u \in DOMAIN users' : users'[u] \in UserRow
      BY <1>a, <2>2, <2>4 DEF Put, TypeOK
    <3> QED
      BY <1>a, <1>5, <2>1, <3>1, <3>2, <3>3, <3>4 DEF InsertUser, TypeOK, Typed
  <2> QED
    BY <1>5, <2>3, <2>4 DEF InsertUser
<1>6. ASSUME NEW p \in Procs, NEW s \in sessions, NEW u \in Uids,
             NEW role \in Roles \cup {"keep"}, NEW status \in UserStatuses \cup {"keep"},
             AdminUpdate(p, s, u, role, status)
      PROVE  Typed'
  <2>1. [at |-> "update", by |-> s.uid, tgt |-> u, role |-> role, status |-> status] \in Requests
    BY <1>b DEF Requests
  <2> QED
    BY <1>t, <1>g, <1>n, <1>6, <2>1 DEF AdminUpdate
<1>7. ASSUME NEW p \in Procs, UpdateUser(p) PROVE Typed'
  <2>1. req' \in [Procs -> Requests] /\ SavesKnownKey'
    BY <1>g, <1>n, <1>r, <1>7 DEF UpdateUser, Respond
  <2>2. DOMAIN users' = DOMAIN users
    BY <1>7 DEF UpdateUser
  <2>3. \A u \in DOMAIN users' : users'[u] \in UserRow
    BY <1>a, <1>7, Held DEF UpdateUser, TypeOK, UserRow, Given
  <2> QED
    BY <1>a, <1>7, <2>1, <2>2, <2>3 DEF UpdateUser, TypeOK, Typed
<1>8. ASSUME NEW p \in Procs, NEW s \in sessions, NEW u \in Uids, DeleteUser(p, s, u) PROVE Typed'
  <2> DEFINE r == [at |-> IF users[u].role = "admin" THEN "count" ELSE "sweep",
                   by |-> s.uid, tgt |-> u]
  <2>1. r \in Requests /\ r.at # "save"
    BY <1>b DEF Requests
  <2>2. Go(p, r) /\ UNCHANGED <<tables, sessions>>
    BY <1>8 DEF DeleteUser
  <2> QED
    BY <1>t, <1>g, <1>n, <2>1, <2>2
<1>9. ASSUME NEW p \in Procs, CountAdmins(p) PROVE Typed'
  <2>1. /\ [req[p] EXCEPT !.at = "sweep"] \in Requests
        /\ [req[p] EXCEPT !.at = "sweep"].at # "save"
    BY <1>a, <1>9, Held DEF CountAdmins, Requests
  <2>2. /\ UNCHANGED <<tables, sessions>> /\ nextToken' \in Nat /\ nextToken' >= nextToken
        /\ Go(p, [req[p] EXCEPT !.at = "sweep"]) \/ Go(p, Idle)
    BY <1>n, <1>9 DEF CountAdmins, Step, Respond
  <2>3. req' \in [Procs -> Requests] /\ SavesKnownKey'
    <3>1. CASE Go(p, Idle)
      BY <1>g, <1>r, <2>2, <3>1
    <3>2. CASE ~ Go(p, Idle)
      BY <1>g, <2>1, <2>2, <3>2
    <3> QED
      BY <3>1, <3>2
  <2> QED
    BY <1>t, <2>2, <2>3
<1>10. ASSUME NEW p \in Procs, SweepKeys(p) PROVE Typed'
  <2>1. KeysOf(req[p].tgt) \subseteq Tids
    BY <1>a, AccountsAssumption DEF KeysOf, TypeOK, Tids
  <2>2. [at |-> "remove", by |-> req[p].by, tgt |-> req[p].tgt, keys |-> KeysOf(req[p].tgt)]
          \in Requests
    BY <1>a, <1>10, <2>1, Held DEF SweepKeys, Requests
  <2> QED
    BY <1>t, <1>g, <1>n, <1>10, <2>2 DEF SweepKeys
<1>11. ASSUME NEW p \in Procs, RemoveUser(p) PROVE Typed'
  <2>1. req' \in [Procs -> Requests] /\ SavesKnownKey'
    BY <1>g, <1>n, <1>r, <1>11 DEF RemoveUser, Respond
  <2> QED
    BY <1>a, <1>11, <2>1 DEF Drop, RemoveUser, TypeOK, Typed
<1>12. ASSUME NEW p \in Procs, NEW u \in Uids, Login(p, u) PROVE Typed'
  <2>1. [at |-> "issue", uid |-> u, role |-> users[u].role] \in Requests
    BY <1>a, <1>12 DEF Login, TypeOK, UserRow, Requests
  <2> QED
    BY <1>t, <1>g, <1>n, <1>12, <2>1 DEF Login
<1>13. ASSUME NEW p \in Procs, IssueToken(p) PROVE Typed'
  <2>1. req' \in [Procs -> Requests] /\ SavesKnownKey'
    BY <1>g, <1>n, <1>r, <1>13 DEF IssueToken, Respond
  <2>2. sessions' \subseteq [uid : Uids, role : Roles]
    BY <1>a, <1>13, Held DEF IssueToken, TypeOK
  <2> QED
    BY <1>a, <1>13, <2>1, <2>2 DEF IssueToken, TypeOK, Typed
<1>14. ASSUME NEW s \in sessions, Expire(s) PROVE Typed'
  BY <1>a, <1>14 DEF Expire, TypeOK, Typed, SavesKnownKey
<1>15. ASSUME NEW s \in sessions, NEW status \in TokenStatuses, CreateToken(s, status) PROVE Typed'
  <2> DEFINE row == [owner |-> s.uid, status |-> status]
  <2>1. row \in TokenRow
    BY <1>b DEF TokenRow
  <2>2. tokens' = Put(tokens, nextToken, row) /\ nextToken' = nextToken + 1 /\ nextToken \in Tids
    BY <1>15 DEF CreateToken
  <2> HIDE DEF row
  <2>3. \A t \in DOMAIN tokens' : tokens'[t] \in TokenRow
    BY <1>a, <2>1, <2>2 DEF Put, TypeOK
  <2>4. DOMAIN tokens' \subseteq 1 .. nextToken' - 1 /\ nextToken' \in 1 .. MaxTokens + 1
    BY <1>a, <1>n, <2>2, AccountsAssumption DEF Put, TypeOK, Tids
  <2>5. SavesKnownKey'
    <3> SUFFICES ASSUME NEW p \in Procs, req[p].at = "save" PROVE req[p].id < nextToken + 1
      BY <1>15, <2>2 DEF SavesKnownKey, CreateToken
    <3>1. req[p].id \in Nat /\ req[p].id < nextToken
      BY <1>a, Held DEF SavesKnownKey, Tids
    <3> QED
      BY <1>n, <3>1
  <2> QED
    BY <1>a, <1>15, <2>3, <2>4, <2>5 DEF CreateToken, TypeOK, Typed
<1>16. ASSUME NEW p \in Procs, NEW s \in sessions, NEW t \in Tids, NEW status \in TokenStatuses,
              UpdateToken(p, s, t, status)
       PROVE  Typed'
  <2> DEFINE r == [at |-> "save", by |-> s.uid, id |-> t,
                   row |-> [tokens[t] EXCEPT !.status = status]]
  <2>1. r \in Requests
    BY <1>a, <1>b, <1>16 DEF UpdateToken, Owns, TypeOK, TokenRow, Requests
  <2>2. t < nextToken
    BY <1>a, <1>n, <1>16 DEF UpdateToken, Owns, TypeOK
  <2>3. /\ req' \in [Procs -> Requests] /\ req'[p] = r
        /\ \A q \in Procs : q # p => req'[q] = req[q]
    BY <1>a, <1>16, <2>1, GoType DEF UpdateToken
  <2>4. r.id = t
    OBVIOUS
  <2> HIDE DEF r
  <2>5. SavesKnownKey'
    BY <1>a, <1>16, <2>2, <2>3, <2>4 DEF SavesKnownKey, UpdateToken
  <2> QED
    BY <1>t, <1>16, <2>3, <2>5 DEF UpdateToken
<1>17. ASSUME NEW p \in Procs, SaveToken(p) PROVE Typed'
  <2>1. req' \in [Procs -> Requests] /\ SavesKnownKey'
    BY <1>g, <1>n, <1>r, <1>17 DEF SaveToken, Respond
  <2>2. req[p].id \in Tids /\ req[p].id < nextToken /\ req[p].row \in TokenRow
    BY <1>a, <1>17, Held DEF SaveToken, SavesKnownKey
  <2>3. \A t \in DOMAIN tokens' : tokens'[t] \in TokenRow
    BY <1>a, <1>17, <2>2 DEF Put, SaveToken, TypeOK
  <2>4. DOMAIN tokens' \subseteq 1 .. nextToken - 1
    BY <1>a, <1>n, <1>17, <2>2 DEF Put, SaveToken, TypeOK, Tids
  <2> QED
    BY <1>a, <1>17, <2>1, <2>3, <2>4 DEF SaveToken, TypeOK, Typed
<1>18. ASSUME NEW p \in Procs, NEW t \in Tids, AuthKey(p, t) PROVE Typed'
  <2>1. [at |-> "owner", owner |-> tokens[t].owner] \in Requests
    BY <1>a, <1>18 DEF AuthKey, TypeOK, TokenRow, Requests
  <2> QED
    BY <1>t, <1>g, <1>n, <1>18, <2>1 DEF AuthKey
<1>19. ASSUME NEW p \in Procs, AuthOwner(p) PROVE Typed'
  <2>1. /\ [req[p] EXCEPT !.at = "admitted"] \in Requests
        /\ [req[p] EXCEPT !.at = "admitted"].at # "save"
    BY <1>a, <1>19, Held DEF AuthOwner, Requests
  <2>2. /\ UNCHANGED <<tables, sessions>> /\ nextToken' \in Nat /\ nextToken' >= nextToken
        /\ Go(p, [req[p] EXCEPT !.at = "admitted"]) \/ Go(p, Idle)
    BY <1>n, <1>19 DEF AuthOwner, Step, Respond
  <2>3. req' \in [Procs -> Requests] /\ SavesKnownKey'
    <3>1. CASE Go(p, Idle)
      BY <1>g, <1>r, <2>2, <3>1
    <3>2. CASE ~ Go(p, Idle)
      BY <1>g, <2>1, <2>2, <3>2
    <3> QED
      BY <3>1, <3>2
  <2> QED
    BY <1>t, <2>2, <2>3
<1>20. ASSUME NEW p \in Procs, Serve(p) PROVE Typed'
  BY <1>t, <1>g, <1>n, <1>r, <1>20 DEF Serve, Respond
<1>21. ASSUME NEW s \in sessions, NEW t \in Tids, DeleteToken(s, t) PROVE Typed'
  BY <1>a, <1>21 DEF Drop, DeleteToken, TypeOK, Typed, SavesKnownKey
<1>22. CASE Next
  <2>1. Account => Typed'
    BY <1>1, <1>2, <1>3, <1>4, <1>5, <1>6, <1>7, <1>8, <1>9, <1>10, <1>11, <1>12,
       <1>13, <1>14 DEF Account
  <2>2. Key => Typed'
    BY <1>15, <1>16, <1>17, <1>18, <1>19, <1>20, <1>21 DEF Key
  <2> QED
    BY <1>22, <2>1, <2>2, HistoryTyped DEF Next
<1>23. CASE UNCHANGED vars
  BY <1>a, <1>23 DEF vars, IInv, TypeOK, SavesKnownKey
<1> QED
  BY <1>22, <1>23

(* Rows, requests and sessions stay well formed, and ids within their      *)
(* sequences, whatever interleaves (user_service.go, token_service.go).    *)
THEOREM TypeCorrect == Spec => []TypeOK
<1>1. Init => IInv
  BY IInvInit
<1>2. IInv /\ [Next]_vars => IInv'
  BY IInvStep
<1>3. IInv => TypeOK
  BY DEF IInv
<1> QED
  BY <1>1, <1>2, <1>3, PTL DEF Spec

-----------------------------------------------------------------------------
(* Who changes the users table. *)
LEMMA UsersChange ==
  ASSUME [Next]_vars
  PROVE  \/ UNCHANGED <<users, nextUser>>
         \/ \E p \in Procs : InsertUser(p) \/ UpdateUser(p) \/ RemoveUser(p)
BY DEF Next, Account, Key, vars, tables, Register, RegisterSwitch, AdminCreate, CheckUsername,
       AdminUpdate, DeleteUser, CountAdmins, SweepKeys, Login, IssueToken, Expire,
       CreateToken, UpdateToken, SaveToken, DeleteToken, AuthKey, AuthOwner, Serve

(* How a request comes to the steps the invariants speak of. *)
LEMMA ReachRemove ==
  ASSUME IInv, [Next]_vars, NEW p \in Procs, req'[p].at = "remove"
  PROVE  req'[p] = req[p] \/ SweepKeys(p)
<1>1. ASSUME NEW q \in Procs, NEW r, Go(q, r), r.at # "remove" PROVE req'[p] = req[p]
  BY <1>1 DEF Go, IInv, TypeOK
<1>2. ASSUME NEW q \in Procs, NEW s \in {"username", "insert", "sweep", "admitted"},
             req[q].at \in {"switch", "username", "count", "owner"}, Step(q, s)
      PROVE  req'[p] = req[p]
  <2>1. [req[q] EXCEPT !.at = s].at # "remove"
    BY <1>2, Held DEF IInv
  <2> QED
    BY <1>1, <1>2, <2>1 DEF Step
<1>3. ASSUME NEW q \in Procs, Respond(q) PROVE req'[p] = req[p]
  BY <1>1, <1>3 DEF Respond, Idle
<1>4. ASSUME NEW q \in Procs, SweepKeys(q) PROVE req'[p] = req[p] \/ SweepKeys(p)
  BY <1>4 DEF SweepKeys, Go, IInv, TypeOK
<1>5. Account => req'[p] = req[p] \/ SweepKeys(p)
  BY <1>1, <1>2, <1>3, <1>4 DEF Account, Register, RegisterSwitch, AdminCreate, CheckUsername,
     InsertUser, AdminUpdate, UpdateUser, DeleteUser, CountAdmins, RemoveUser, Login,
     IssueToken, Expire
<1>6. Key => req'[p] = req[p]
  BY <1>1, <1>2, <1>3 DEF Key, CreateToken, UpdateToken, SaveToken, DeleteToken, AuthKey,
     AuthOwner, Serve
<1> QED
  BY <1>5, <1>6 DEF Next, vars

(* No two rows share a name. *)
LEMMA NamesStep == IInv /\ UsernamesUnique /\ [Next]_vars => UsernamesUnique'
<1> SUFFICES ASSUME IInv, UsernamesUnique, [Next]_vars PROVE UsernamesUnique'
  OBVIOUS
<1>1. CASE UNCHANGED <<users, nextUser>>
  BY <1>1 DEF UsernamesUnique
<1>2. ASSUME NEW p \in Procs, InsertUser(p) PROVE UsernamesUnique'
  BY <1>2 DEF InsertUser, Put, Taken, UsernamesUnique
<1>3. ASSUME NEW p \in Procs, UpdateUser(p) PROVE UsernamesUnique'
  <2>1. DOMAIN users' = DOMAIN users /\ \A u \in DOMAIN users : users'[u].name = users[u].name
    BY <1>3 DEF UpdateUser, IInv, TypeOK, UserRow
  <2> QED
    BY <2>1 DEF UsernamesUnique
<1>4. ASSUME NEW p \in Procs, RemoveUser(p) PROVE UsernamesUnique'
  BY <1>4 DEF RemoveUser, Drop, UsernamesUnique
<1> QED
  BY <1>1, <1>2, <1>3, <1>4, UsersChange

(* Registrations may both find a name free (user_service.go 110-116); the  *)
(* index keeps names unique whatever interleaves with them.                *)
THEOREM NamesUnique == Spec => []UsernamesUnique
<1>1. Init => IInv /\ UsernamesUnique
  BY IInvInit DEF Init, UsernamesUnique
<1>2. IInv /\ UsernamesUnique /\ [Next]_vars => IInv' /\ UsernamesUnique'
  BY IInvStep, NamesStep
<1> QED
  BY <1>1, <1>2, PTL DEF Spec

(* A deletion about to commit has all its target's keys, but for the ones  *)
(* written after it looked.                                                *)
SweptAll ==
  \A p \in Procs : req[p].at = "remove" => KeysOf(req[p].tgt) \subseteq req[p].keys \cup stray

LEMMA OrphanStep ==
  IInv /\ OrphansAreLate /\ SweptAll /\ [Next]_vars => OrphansAreLate' /\ SweptAll'
<1> SUFFICES ASSUME IInv, OrphansAreLate, SweptAll, [Next]_vars
             PROVE  OrphansAreLate' /\ SweptAll'
  OBVIOUS
<1>1. CASE UNCHANGED vars
  BY <1>1 DEF vars, OrphansAreLate, SweptAll, KeysOf
<1>2. CASE Next
  (* A key keeps its place among the stray, and joins if written late. *)
  <2>1. /\ \A t \in DOMAIN tokens' : t \in stray => t \in stray'
        /\ \A t \in DOMAIN tokens' : Written(t) /\ Swept(tokens'[t].owner) => t \in stray'
    BY <1>2 DEF Next, Watch
  (* Only a deletion that has swept the keys takes its target away. *)
  <2>2. ASSUME NEW u \in DOMAIN users, u \notin DOMAIN users'
        PROVE  \E q \in Procs : RemoveUser(q) /\ req[q].at = "remove" /\ req[q].tgt = u
    BY <1>2, <2>2, UsersChange DEF InsertUser, UpdateUser, RemoveUser, Put, Drop
  <2>3. ASSUME NEW t \in DOMAIN tokens', tokens'[t].owner \notin DOMAIN users'
        PROVE  t \in stray'
    <3>1. CASE tokens'[t].owner \notin DOMAIN users
      <4>1. CASE Written(t)
        BY <2>1, <2>3, <3>1, <4>1 DEF Swept
      <4>2. CASE ~ Written(t)
        BY <2>1, <2>3, <3>1, <4>2 DEF Written, OrphansAreLate
      <4> QED
        BY <4>1, <4>2
    <3>2. CASE tokens'[t].owner \in DOMAIN users
      <4>1. PICK q \in Procs : /\ RemoveUser(q) /\ req[q].at = "remove"
                               /\ req[q].tgt = tokens'[t].owner
        BY <2>2, <2>3, <3>2
      <4>2. t \in DOMAIN tokens /\ t \notin req[q].keys /\ tokens'[t] = tokens[t]
        BY <2>3, <4>1 DEF RemoveUser, Drop
      <4>3. t \in stray
        BY <4>1, <4>2 DEF SweptAll, KeysOf
      <4> QED
        BY <2>1, <2>3, <4>3
    <3> QED
      BY <3>1, <3>2
  <2>4. ASSUME NEW p \in Procs, req'[p].at = "remove",
               NEW t \in DOMAIN tokens', tokens'[t].owner = req'[p].tgt
        PROVE  t \in req'[p].keys \cup stray'
    <3>1. CASE SweepKeys(p)
      <4>1. tokens' = tokens /\ req'[p].keys = KeysOf(req[p].tgt) /\ req'[p].tgt = req[p].tgt
        BY <3>1 DEF SweepKeys, tables, Go, IInv, TypeOK
      <4> QED
        BY <2>4, <4>1 DEF KeysOf
    <3>2. CASE req'[p] = req[p]
      <4>1. CASE Written(t)
        BY <2>1, <2>4, <3>2, <4>1 DEF Swept
      <4>2. CASE ~ Written(t)
        BY <2>1, <2>4, <3>2, <4>2 DEF Written, SweptAll, KeysOf
      <4> QED
        BY <4>1, <4>2
    <3> QED
      BY <2>4, <3>1, <3>2, ReachRemove
  <2> QED
    BY <2>3, <2>4 DEF OrphansAreLate, SweptAll, KeysOf
<1> QED
  BY <1>1, <1>2

(* "so no orphan tokens survive" (user_service.go 532-533): no key is left *)
(* behind by a deletion except those written after it removed the rest.    *)
THEOREM NoKeyLeftBehind == Spec => []OrphansAreLate
<1>1. Init => IInv /\ OrphansAreLate /\ SweptAll
  <2> SUFFICES ASSUME Init PROVE OrphansAreLate /\ SweptAll
    BY IInvInit
  <2>1. DOMAIN tokens = {} /\ \A p \in Procs : req[p].at = "idle"
    BY DEF Init, Idle
  <2> QED
    BY <2>1 DEF OrphansAreLate, SweptAll
<1>2. IInv /\ OrphansAreLate /\ SweptAll /\ [Next]_vars => (IInv /\ OrphansAreLate /\ SweptAll)'
  BY IInvStep, OrphanStep
<1> QED
  BY <1>1, <1>2, PTL DEF Spec

-----------------------------------------------------------------------------
(* While nothing disturbs a deletion that passed its guard, its target is  *)
(* not the only administrator.                                             *)
CalmIsSafe ==
  \A p \in Procs : req[p].at \in {"sweep", "remove"} /\ calm[p] /\ req[p].tgt \in Admins(users)
                    => \E a, b \in Admins(users) : a # b

LEMMA ReachSweep ==
  ASSUME IInv, [Next]_vars, NEW p \in Procs, req'[p].at = "sweep"
  PROVE  \/ req'[p] = req[p]
         \/ (CountAdmins(p) /\ req'[p] = [req[p] EXCEPT !.at = "sweep"])
         \/ \E s \in sessions, u \in Uids : DeleteUser(p, s, u)
<1>1. ASSUME NEW q \in Procs, NEW r, Go(q, r), r.at # "sweep" PROVE req'[p] = req[p]
  BY <1>1 DEF Go, IInv, TypeOK
<1>2. ASSUME NEW q \in Procs, NEW s \in {"username", "insert", "admitted"},
             req[q].at \in {"switch", "username", "owner"}, Step(q, s)
      PROVE  req'[p] = req[p]
  <2>1. [req[q] EXCEPT !.at = s].at # "sweep"
    BY <1>2, Held DEF IInv
  <2> QED
    BY <1>1, <1>2, <2>1 DEF Step
<1>3. ASSUME NEW q \in Procs, Respond(q) PROVE req'[p] = req[p]
  BY <1>1, <1>3 DEF Respond, Idle
<1>4. ASSUME NEW q \in Procs, CountAdmins(q)
      PROVE  req'[p] = req[p] \/ (CountAdmins(p) /\ req'[p] = [req[p] EXCEPT !.at = "sweep"])
  <2>1. CASE Step(q, "sweep") /\ q = p
    <3>1. req'[p] = [req[p] EXCEPT !.at = "sweep"]
      BY <2>1 DEF Step, Go, IInv, TypeOK
    <3> QED
      BY <1>4, <2>1, <3>1
  <2>2. CASE Step(q, "sweep") /\ q # p
    BY <2>2 DEF Step, Go, IInv, TypeOK
  <2>3. CASE Respond(q)
    BY <1>3, <2>3
  <2>4. Step(q, "sweep") \/ Respond(q)
    BY <1>4 DEF CountAdmins
  <2> QED
    BY <2>1, <2>2, <2>3, <2>4
<1>5. ASSUME NEW q \in Procs, NEW s \in sessions, NEW u \in Uids, DeleteUser(q, s, u)
      PROVE  req'[p] = req[p] \/ DeleteUser(p, s, u)
  BY <1>5 DEF DeleteUser, Go, IInv, TypeOK
<1>6. Account => \/ req'[p] = req[p]
                 \/ (CountAdmins(p) /\ req'[p] = [req[p] EXCEPT !.at = "sweep"])
                 \/ \E s \in sessions, u \in Uids : DeleteUser(p, s, u)
  BY <1>1, <1>2, <1>3, <1>4, <1>5 DEF Account, Register, RegisterSwitch, AdminCreate,
     CheckUsername, InsertUser, AdminUpdate, UpdateUser, SweepKeys, RemoveUser, Login,
     IssueToken, Expire
<1>7. Key => req'[p] = req[p]
  BY <1>1, <1>2, <1>3 DEF Key, CreateToken, UpdateToken, SaveToken, DeleteToken, AuthKey,
     AuthOwner, Serve
<1> QED
  BY <1>6, <1>7 DEF Next, vars

LEMMA CalmStep == IInv /\ CalmIsSafe /\ [Next]_vars => CalmIsSafe'
<1> SUFFICES ASSUME IInv, CalmIsSafe, [Next]_vars,
                    NEW p \in Procs, req'[p].at \in {"sweep", "remove"}, calm'[p],
                    req'[p].tgt \in Admins(users')
             PROVE  \E a, b \in Admins(users') : a # b
  BY DEF CalmIsSafe
<1>1. CASE UNCHANGED vars
  BY <1>1 DEF vars, CalmIsSafe
<1>2. CASE Next
  <2>1. calm[p] /\ (req[p] = Idle \/ users' = users)
    BY <1>2 DEF Next, Watch, Deleting
  <2>2. CASE req'[p] = req[p]
    BY <2>1, <2>2 DEF CalmIsSafe, Idle
  <2>3. CASE SweepKeys(p)
    <3>1. req[p].at = "sweep" /\ req'[p].tgt = req[p].tgt /\ users' = users
      BY <2>3 DEF SweepKeys, tables, Go, IInv, TypeOK
    <3> QED
      BY <2>1, <3>1 DEF CalmIsSafe
  <2>4. CASE CountAdmins(p) /\ req'[p] = [req[p] EXCEPT !.at = "sweep"]
    <3>1. req'[p] # Idle
      BY <1>2 DEF Idle
    <3>2. users' = users /\ \E a, b \in Admins(users) : a # b
      BY <2>4, <3>1 DEF CountAdmins, tables, Respond, Go, IInv, TypeOK
    <3> QED
      BY <3>2
  <2>5. ASSUME NEW s \in sessions, NEW u \in Uids, DeleteUser(p, s, u)
        PROVE  \E a, b \in Admins(users') : a # b
    <3>1. /\ users' = users /\ req'[p].tgt = u
          /\ req'[p].at = IF users[u].role = "admin" THEN "count" ELSE "sweep"
      BY <2>5 DEF DeleteUser, tables, Go, IInv, TypeOK
    <3> QED
      BY <3>1 DEF Admins
  <2> QED
    BY <2>2, <2>3, <2>4, <2>5, ReachSweep, ReachRemove
<1> QED
  BY <1>1, <1>2

(* The last-admin guard of Delete (user_service.go 526-534) does its work  *)
(* when no other request writes users between its read and its commit.     *)
THEOREM CalmDelete == Spec => CalmDeleteKeepsAdmin
<1>1. Init => IInv /\ CalmIsSafe
  <2> SUFFICES ASSUME Init PROVE CalmIsSafe
    BY IInvInit
  <2>1. \A p \in Procs : req[p].at = "idle"
    BY DEF Init, Idle
  <2> QED
    BY <2>1 DEF CalmIsSafe
<1>2. IInv /\ CalmIsSafe /\ [Next]_vars => (IInv /\ CalmIsSafe)'
  BY IInvStep, CalmStep
<1>3. IInv /\ CalmIsSafe /\ [Next]_vars =>
        [\A p \in Procs : req[p].at = "remove" /\ req'[p] = Idle /\ calm[p] =>
           (Admins(users) # {} => Admins(users') # {})]_vars
  <2> SUFFICES ASSUME IInv, CalmIsSafe, [Next]_vars, NEW p \in Procs,
                      req[p].at = "remove", req'[p] = Idle, calm[p], Admins(users) # {}
               PROVE  Admins(users') # {}
    OBVIOUS
  <2>1. ASSUME NEW q \in Procs, Respond(q) PROVE q = p
    BY <2>1 DEF Respond, Go, Idle, IInv, TypeOK
  <2>2. UNCHANGED <<users, nextUser>> \/ RemoveUser(p)
    BY <2>1, UsersChange DEF InsertUser, UpdateUser, RemoveUser
  <2>3. CASE RemoveUser(p)
    <3>1. Admins(users') = Admins(users) \ {req[p].tgt}
      BY <2>3 DEF RemoveUser, Drop, Admins
    <3> QED
      BY <3>1 DEF CalmIsSafe
  <2> QED
    BY <2>2, <2>3
<1> QED
  BY <1>1, <1>2, <1>3, PTL DEF Spec, CalmDeleteKeepsAdmin

-----------------------------------------------------------------------------
(* Before the first account, nobody has a session and every registration   *)
(* under way is an administrator's.                                        *)
Bootstrapping ==
  nextUser = 1 =>
    /\ sessions = {}
    /\ \A p \in Procs :
         /\ req[p].at # "issue"
         /\ req[p].at \in {"switch", "username", "insert"} => req[p].row.role = "admin"

LEMMA BootstrapStep == IInv /\ Bootstrapping /\ [Next]_vars => Bootstrapping'
<1> SUFFICES ASSUME IInv, Bootstrapping, [Next]_vars, nextUser' = 1
             PROVE  /\ sessions' = {}
                    /\ \A p \in Procs :
                         /\ req'[p].at # "issue"
                         /\ req'[p].at \in {"switch", "username", "insert"} =>
                              req'[p].row.role = "admin"
  BY DEF Bootstrapping
<1>0. nextUser = 1 /\ DOMAIN users = {} /\ sessions = {}
  <2>1. nextUser' = nextUser \/ nextUser' = nextUser + 1
    BY UsersChange DEF InsertUser, UpdateUser, RemoveUser
  <2>2. nextUser \in Nat /\ nextUser >= 1 /\ DOMAIN users \subseteq 1 .. nextUser - 1
    BY AccountsAssumption DEF IInv, TypeOK
  <2>3. nextUser = 1
    BY <2>1, <2>2
  <2>4. DOMAIN users = {}
    <3>1. nextUser - 1 = 0 /\ 1 .. 0 = {}
      BY <2>3
    <3> QED
      BY <2>2, <2>3, <3>1
  <2>5. sessions = {}
    BY <2>3 DEF Bootstrapping
  <2> QED
    BY <2>3, <2>4, <2>5
<1> DEFINE Fits(r) == /\ r.at # "issue"
                      /\ r.at \in {"switch", "username", "insert"} => r.row.role = "admin"
<1>1. \A p \in Procs : Fits(req[p])
  BY <1>0 DEF Bootstrapping
<1>2. ASSUME NEW q \in Procs, NEW r, Go(q, r), Fits(r) PROVE \A p \in Procs : Fits(req'[p])
  BY <1>1, <1>2 DEF Go, IInv, TypeOK
<1>3. ASSUME NEW q \in Procs, Respond(q) PROVE \A p \in Procs : Fits(req'[p])
  BY <1>2, <1>3 DEF Respond, Idle
<1>4. ASSUME NEW q \in Procs, NEW s \in {"username", "insert", "sweep", "admitted"}, Step(q, s),
             \/ req[q].at \in {"switch", "username"}
             \/ s \in {"sweep", "admitted"} /\ req[q].at \in {"count", "owner"}
      PROVE  \A p \in Procs : Fits(req'[p])
  <2>1. Fits([req[q] EXCEPT !.at = s])
    BY <1>1, <1>4, Held DEF IInv
  <2> HIDE DEF Fits
  <2> QED
    BY <1>2, <1>4, <2>1 DEF Step
<1>5. ASSUME NEW q \in Procs, NEW n \in Names, Register(q, n) PROVE \A p \in Procs : Fits(req'[p])
  <2>1. Go(q, [at |-> "username", by |-> Nobody,
               row |-> [name |-> n, role |-> "admin", status |-> "enabled"]])
    BY <1>0, <1>5 DEF Register
  <2> QED
    BY <1>2, <2>1
<1>6. ASSUME NEW q \in Procs, SweepKeys(q) PROVE \A p \in Procs : Fits(req'[p])
  BY <1>2, <1>6 DEF SweepKeys
<1>7. ASSUME NEW q \in Procs, NEW t \in Tids, AuthKey(q, t) PROVE \A p \in Procs : Fits(req'[p])
  BY <1>2, <1>7 DEF AuthKey
<1> HIDE DEF Fits
<1>8. \A p \in Procs : Fits(req'[p])
  <2>1. Account => \A p \in Procs : Fits(req'[p])
    BY <1>0, <1>3, <1>4, <1>5, <1>6 DEF Account, RegisterSwitch, CheckUsername, InsertUser,
       UpdateUser, CountAdmins, RemoveUser, Login, IssueToken
  <2>2. Key => \A p \in Procs : Fits(req'[p])
    BY <1>0, <1>3, <1>4, <1>7 DEF Key, SaveToken, AuthOwner, Serve
  <2> QED
    BY <1>1, <2>1, <2>2 DEF Next, vars
<1>9. sessions' = {}
  <2>1. ASSUME NEW p \in Procs, InsertUser(p) PROVE sessions' = sessions
    BY <1>0, <2>1 DEF InsertUser
  <2>2. ASSUME NEW p \in Procs, IssueToken(p) PROVE FALSE
    BY <1>0, <2>2 DEF IssueToken, Bootstrapping
  <2> QED
    BY <1>0, <2>1, <2>2 DEF Next, Account, Key, vars, Register, RegisterSwitch, CheckUsername,
       UpdateUser, CountAdmins, SweepKeys, RemoveUser, Login, SaveToken, AuthKey, AuthOwner, Serve
<1> QED
  BY <1>8, <1>9 DEF Fits

(* However the first registrations interleave (user_service.go 101-128), a *)
(* system with accounts has an administrator until one is given up.        *)
THEOREM Bootstrap == Spec => []BootstrapHasAdmin
<1>1. Init => IInv /\ Bootstrapping /\ BootstrapHasAdmin
  <2> SUFFICES ASSUME Init PROVE Bootstrapping /\ BootstrapHasAdmin
    BY IInvInit
  <2>1. \A p \in Procs : req[p].at = "idle"
    BY DEF Init, Idle
  <2> QED
    BY <2>1 DEF Init, Bootstrapping, BootstrapHasAdmin
<1>2. IInv /\ Bootstrapping /\ BootstrapHasAdmin /\ [Next]_vars => BootstrapHasAdmin'
  <2> SUFFICES ASSUME IInv, Bootstrapping, BootstrapHasAdmin, [Next]_vars,
                      nextUser' > 1, ~ lowered'
               PROVE  Admins(users') # {}
    BY DEF BootstrapHasAdmin
  <2>1. (~ lowered /\ Admins(users) \subseteq Admins(users')) \/ UNCHANGED vars
    BY DEF Next, Watch
  <2>2. CASE nextUser > 1
    BY <2>1, <2>2 DEF BootstrapHasAdmin, vars
  <2>3. CASE ~ (nextUser > 1)
    <3>1. nextUser = 1 /\ nextUser' # nextUser
      BY <2>3, AccountsAssumption DEF IInv, TypeOK
    <3>2. PICK p \in Procs : InsertUser(p)
      BY <3>1, UsersChange DEF UpdateUser, RemoveUser
    <3>3. users' = Put(users, nextUser, req[p].row) /\ req[p].row.role = "admin"
      BY <3>1, <3>2 DEF InsertUser, Bootstrapping
    <3>4. nextUser \in Admins(users')
      BY <3>3 DEF Put, Admins
    <3> QED
      BY <3>4
  <2> QED
    BY <2>2, <2>3
<1>3. IInv /\ Bootstrapping /\ BootstrapHasAdmin /\ [Next]_vars
        => (IInv /\ Bootstrapping /\ BootstrapHasAdmin)'
  BY <1>2, IInvStep, BootstrapStep
<1> QED
  BY <1>1, <1>3, PTL DEF Spec

-----------------------------------------------------------------------------
(* Self-protection.  An update of the caller's own row neither demotes nor *)
(* disables, and nobody deletes himself.                                   *)
Spares(r) ==
  /\ r.at = "update" /\ r.by = r.tgt => r.status # "disabled" /\ r.role # "user"
  /\ r.at \in {"count", "sweep", "remove"} => r.by # r.tgt

SelfSpared == \A p \in Procs : Spares(req[p])

LEMMA SparedStep == IInv /\ SelfSpared /\ [Next]_vars => SelfSpared'
<1> SUFFICES ASSUME IInv, SelfSpared, [Next]_vars PROVE SelfSpared'
  OBVIOUS
<1>1. ASSUME NEW q \in Procs, NEW r, Go(q, r), Spares(r) PROVE SelfSpared'
  BY <1>1 DEF SelfSpared, Go, IInv, TypeOK
<1>2. ASSUME NEW q \in Procs, Respond(q) PROVE SelfSpared'
  <2>1. Spares(Idle)
    BY DEF Spares, Idle
  <2> QED
    BY <1>1, <1>2, <2>1 DEF Respond
<1>3. ASSUME NEW q \in Procs, NEW s \in {"username", "insert", "sweep", "admitted"}, Step(q, s),
             \/ req[q].at \in {"switch", "username", "owner"} /\ s # "sweep"
             \/ req[q].at = "count" /\ s = "sweep"
      PROVE  SelfSpared'
  <2>1. Spares([req[q] EXCEPT !.at = s])
    BY <1>3, Held DEF IInv, Spares, SelfSpared
  <2> QED
    BY <1>1, <1>3, <2>1 DEF Step
<1>4. \A r : r.at \notin {"update", "count", "sweep", "remove"} => Spares(r)
  BY DEF Spares
<1>5. ASSUME NEW q \in Procs, NEW s \in sessions, NEW u, NEW role, NEW status,
             AdminUpdate(q, s, u, role, status)
      PROVE  SelfSpared'
  <2>1. Spares([at |-> "update", by |-> s.uid, tgt |-> u, role |-> role, status |-> status])
    BY <1>5 DEF AdminUpdate, Spares
  <2> QED
    BY <1>1, <1>5, <2>1 DEF AdminUpdate
<1>6. ASSUME NEW q \in Procs, NEW s \in sessions, NEW u \in Uids, DeleteUser(q, s, u)
      PROVE  SelfSpared'
  <2> DEFINE r == [at |-> IF users[u].role = "admin" THEN "count" ELSE "sweep",
                   by |-> s.uid, tgt |-> u]
  <2>1. Spares(r) /\ Go(q, r)
    BY <1>6 DEF DeleteUser, Spares
  <2> HIDE DEF r
  <2> QED
    BY <1>1, <2>1
<1>7. ASSUME NEW q \in Procs, SweepKeys(q) PROVE SelfSpared'
  <2> DEFINE r == [at |-> "remove", by |-> req[q].by, tgt |-> req[q].tgt,
                   keys |-> KeysOf(req[q].tgt)]
  <2>1. Spares(r) /\ Go(q, r)
    BY <1>7 DEF SweepKeys, Spares, SelfSpared
  <2> HIDE DEF r
  <2> QED
    BY <1>1, <2>1
<1>8. CASE UNCHANGED req
  BY <1>8 DEF SelfSpared
<1>9. Account => SelfSpared'
  BY <1>1, <1>2, <1>3, <1>4, <1>5, <1>6, <1>7, <1>8 DEF Account, Register, RegisterSwitch,
     AdminCreate, CheckUsername, InsertUser, UpdateUser, CountAdmins, RemoveUser, Login,
     IssueToken, Expire
<1>10. Key => SelfSpared'
  BY <1>1, <1>2, <1>3, <1>4, <1>8 DEF Key, CreateToken, UpdateToken, SaveToken, DeleteToken,
     AuthKey, AuthOwner, Serve
<1> QED
  BY <1>8, <1>9, <1>10 DEF Next, vars

(* An account loses its role, its status or its row only to a request of   *)
(* another account (user_ctrl.go 169-182, user_service.go 516-518).        *)
THEOREM OthersLower == Spec => OnlyOthersLower
<1>1. Init => IInv /\ SelfSpared
  BY IInvInit DEF Init, Idle, SelfSpared, Spares
<1>2. IInv /\ SelfSpared /\ [Next]_vars => (IInv /\ SelfSpared)'
  BY IInvStep, SparedStep
<1> DEFINE Kept(u) ==
       \/ /\ u \in DOMAIN users'
          /\ users[u].role = "admin" => users'[u].role = "admin"
          /\ users[u].status = "enabled" => users'[u].status = "enabled"
       \/ \E p \in Procs : /\ req[p].at \in {"update", "remove"}
                           /\ req[p].tgt = u /\ req[p].by # u
                           /\ req'[p] = Idle
<1>3. IInv /\ SelfSpared /\ [Next]_vars => [\A u \in DOMAIN users : Kept(u)]_vars
  <2> SUFFICES ASSUME IInv, SelfSpared, [Next]_vars, NEW u \in DOMAIN users PROVE Kept(u)
    OBVIOUS
  <2>1. CASE UNCHANGED users
    BY <2>1
  <2>2. ASSUME NEW p \in Procs, InsertUser(p) PROVE Kept(u)
    <3>1. nextUser \notin DOMAIN users
      BY AccountsAssumption DEF IInv, TypeOK
    <3>2. u \in DOMAIN users' /\ users'[u] = users[u]
      BY <2>2, <3>1 DEF InsertUser, Put
    <3> QED
      BY <3>2
  <2>3. ASSUME NEW p \in Procs, UpdateUser(p) PROVE Kept(u)
    <3>1. req'[p] = Idle /\ req[p].at = "update"
      BY <2>3 DEF UpdateUser, Respond, Go, IInv, TypeOK
    <3>2. CASE req[p].tgt = u /\ req[p].by = u
      <4>1. req[p].role # "user" /\ req[p].status # "disabled"
        BY <3>1, <3>2 DEF SelfSpared, Spares
      <4>2. req[p].role \in {"admin", "keep"} /\ req[p].status \in {"enabled", "keep"}
        BY <3>1, <4>1, Held DEF IInv, Roles, UserStatuses
      <4>3. users[u] \in UserRow
        BY DEF IInv, TypeOK
      <4>4. users'[u] = [users[u] EXCEPT !.role = Given(req[p].role, @),
                                         !.status = Given(req[p].status, @)]
            /\ u \in DOMAIN users'
        BY <2>3, <3>2, <4>3 DEF UpdateUser, UserRow
      <4>5. /\ users'[u].role = Given(req[p].role, users[u].role)
            /\ users'[u].status = Given(req[p].status, users[u].status)
        BY <4>3, <4>4 DEF UserRow
      <4> QED
        BY <4>2, <4>4, <4>5 DEF Given
    <3>3. CASE req[p].tgt = u /\ req[p].by # u
      BY <3>1, <3>3
    <3>4. CASE req[p].tgt # u
      <4>1. u \in DOMAIN users' /\ users'[u] = users[u]
        BY <2>3, <3>4 DEF UpdateUser
      <4> QED
        BY <4>1
    <3> QED
      BY <3>2, <3>3, <3>4
  <2>4. ASSUME NEW p \in Procs, RemoveUser(p) PROVE Kept(u)
    <3>1. req'[p] = Idle /\ req[p].at = "remove"
      BY <2>4 DEF RemoveUser, Respond, Go, IInv, TypeOK
    <3>2. CASE req[p].tgt = u
      <4>1. req[p].by # u
        BY <3>1, <3>2 DEF SelfSpared, Spares
      <4> QED
        BY <3>1, <3>2, <4>1
    <3>3. CASE req[p].tgt # u
      <4>1. u \in DOMAIN users' /\ users'[u] = users[u]
        BY <2>4, <3>3 DEF RemoveUser, Drop
      <4> QED
        BY <4>1
    <3> QED
      BY <3>2, <3>3
  <2> HIDE DEF Kept
  <2> QED
    BY <2>1, <2>2, <2>3, <2>4, UsersChange
<1> QED
  BY <1>1, <1>2, <1>3, PTL DEF Spec, OnlyOthersLower

-----------------------------------------------------------------------------
(* Where authority comes from.  What is asked for in the name of an        *)
(* administrator is asked by an account that was given the role, and a     *)
(* registration for one began when there was no account.                   *)
AuthorityInv ==
  /\ AuthorityIsGranted
  /\ \A p \in Procs :
       /\ req[p].at = "issue" /\ req[p].role = "admin" => req[p].uid \in granted
       /\ Registering(req[p]) /\ req[p].row.role = "admin" => p \in first
       /\ req[p].at \in {"switch", "username"} => req[p].by = Nobody
       /\ req[p].at = "insert" /\ req[p].by # Nobody => req[p].by \in granted
       /\ req[p].at = "update" => req[p].by \in granted

(* How a request comes to ask for an account, a change or a session. *)
Asking == {"switch", "username", "insert", "update", "issue"}

LEMMA ReachAsking ==
  ASSUME IInv, [Next]_vars, NEW p \in Procs, req'[p].at \in Asking
  PROVE  \/ req'[p] = req[p]
         \/ \E n \in Names : Register(p, n)
         \/ /\ req[p].at \in {"switch", "username"}
            /\ \E s \in {"username", "insert"} : req'[p] = [req[p] EXCEPT !.at = s]
         \/ \E s \in sessions, row \in UserRow : AdminCreate(p, s, row)
         \/ \E s \in sessions, u \in Uids, role \in Roles \cup {"keep"},
              status \in UserStatuses \cup {"keep"} : AdminUpdate(p, s, u, role, status)
         \/ \E u \in Uids : Login(p, u)
<1>1. ASSUME NEW q \in Procs, NEW r, Go(q, r), r.at \notin Asking \/ q # p
      PROVE  req'[p] = req[p]
  BY <1>1 DEF Go, IInv, TypeOK
<1>2. ASSUME NEW q \in Procs, NEW s \in {"sweep", "admitted"},
             req[q].at \in {"count", "owner"}, Step(q, s)
      PROVE  req'[p] = req[p]
  <2>1. [req[q] EXCEPT !.at = s].at \notin Asking
    BY <1>2, Held DEF IInv, Asking
  <2> QED
    BY <1>1, <1>2, <2>1 DEF Step
<1>3. ASSUME NEW q \in Procs, Respond(q) PROVE req'[p] = req[p]
  BY <1>1, <1>3 DEF Respond, Idle, Asking
<1>4. ASSUME NEW q \in Procs, NEW s \in {"username", "insert"}, Step(q, s),
             req[q].at \in {"switch", "username"}
      PROVE  \/ req'[p] = req[p]
             \/ req[p].at \in {"switch", "username"} /\ req'[p] = [req[p] EXCEPT !.at = s]
  BY <1>1, <1>4 DEF Step, Go, IInv, TypeOK
<1>5. ASSUME NEW q \in Procs, NEW s \in sessions, NEW u \in Uids, DeleteUser(q, s, u)
      PROVE  req'[p] = req[p]
  BY <1>1, <1>5 DEF DeleteUser, Asking
<1>6. ASSUME NEW q \in Procs, SweepKeys(q) PROVE req'[p] = req[p]
  BY <1>1, <1>6 DEF SweepKeys, Asking
<1>7. ASSUME NEW q \in Procs, NEW n \in Names, Register(q, n), q # p PROVE req'[p] = req[p]
  BY <1>1, <1>7 DEF Register
<1>8. ASSUME NEW q \in Procs, NEW s \in sessions, NEW row \in UserRow, AdminCreate(q, s, row),
             q # p
      PROVE  req'[p] = req[p]
  BY <1>1, <1>8 DEF AdminCreate
<1>9. ASSUME NEW q \in Procs, NEW s \in sessions, NEW u \in Uids, q # p,
             NEW role \in Roles \cup {"keep"}, NEW status \in UserStatuses \cup {"keep"},
             AdminUpdate(q, s, u, role, status)
      PROVE  req'[p] = req[p]
  BY <1>1, <1>9 DEF AdminUpdate
<1>10. ASSUME NEW q \in Procs, NEW u \in Uids, Login(q, u), q # p PROVE req'[p] = req[p]
  BY <1>1, <1>10 DEF Login
<1>11. ASSUME NEW q \in Procs,
              RegisterSwitch(q) \/ CheckUsername(q) \/ InsertUser(q) \/ UpdateUser(q)
                \/ CountAdmins(q) \/ RemoveUser(q) \/ IssueToken(q)
       PROVE  \/ req'[p] = req[p]
              \/ /\ req[p].at \in {"switch", "username"}
                 /\ \E s \in {"username", "insert"} : req'[p] = [req[p] EXCEPT !.at = s]
  BY <1>2, <1>3, <1>4, <1>11 DEF RegisterSwitch, CheckUsername, InsertUser, UpdateUser,
     CountAdmins, RemoveUser, IssueToken
<1>12. CASE Account
  BY <1>5, <1>6, <1>7, <1>8, <1>9, <1>10, <1>11, <1>12 DEF Account, Expire
<1>13. ASSUME NEW q \in Procs, NEW s \in sessions, NEW t \in Tids, NEW status \in TokenStatuses,
              UpdateToken(q, s, t, status)
       PROVE  req'[p] = req[p]
  BY <1>1, <1>13 DEF UpdateToken, Asking
<1>14. ASSUME NEW q \in Procs, NEW t \in Tids, AuthKey(q, t) PROVE req'[p] = req[p]
  BY <1>1, <1>14 DEF AuthKey, Asking
<1>15. Key => req'[p] = req[p]
  BY <1>2, <1>3, <1>13, <1>14 DEF Key, CreateToken, SaveToken, DeleteToken, AuthOwner, Serve
<1> QED
  BY <1>12, <1>15 DEF Next, vars

(* What an account is given, or asks for, is on record. *)
LEMMA AuthorityStep == IInv /\ AuthorityInv /\ [Next]_vars => AuthorityInv'
<1> SUFFICES ASSUME IInv, AuthorityInv, [Next]_vars PROVE AuthorityInv'
  OBVIOUS
<1>1. CASE UNCHANGED vars
  BY <1>1 DEF vars, AuthorityInv, AuthorityIsGranted, Registering
<1>2. CASE Next
  <2>1. /\ granted \subseteq granted'
        /\ \A u \in Admins(users'), p \in Procs : Grants(p, u) => u \in granted'
        /\ \A p \in Procs : Registering(req'[p]) =>
             (p \in first' <=> p \in first \/ (req[p] = Idle /\ DOMAIN users = {}))
    BY <1>2 DEF Next, Watch
  <2>2. /\ Admins(users) \subseteq granted
        /\ \A s \in sessions : s.role = "admin" => s.uid \in granted
    BY DEF AuthorityInv, AuthorityIsGranted
  <2>3. ASSUME NEW p \in Procs, Respond(p)
        PROVE  req'[p] = Idle
    BY <2>3 DEF Respond, Go, IInv, TypeOK
  (* Rows. *)
  <2>4. ASSUME NEW p \in Procs, InsertUser(p), nextUser \in DOMAIN users',
               nextUser \notin DOMAIN users, users'[nextUser].role = "admin"
        PROVE  nextUser \in granted'
    <3>1. req'[p] = Idle /\ req[p].at = "insert" /\ req[p].row.role = "admin"
      BY <2>3, <2>4 DEF InsertUser, Put
    <3>2. Authorised(p)
      BY <3>1 DEF AuthorityInv, Authorised, Registering
    <3> QED
      BY <2>1, <2>4, <3>1, <3>2 DEF Grants, Admins
  <2>5. ASSUME NEW p \in Procs, UpdateUser(p), NEW u \in DOMAIN users', users'[u].role = "admin"
        PROVE  u \in granted'
    <3>1. req'[p] = Idle /\ req[p].at = "update" /\ req[p].by \in granted
      BY <2>3, <2>5 DEF UpdateUser, AuthorityInv
    <3>2. CASE u = req[p].tgt
      <4>1. Authorised(p)
        BY <3>1 DEF Authorised, Registering
      <4> QED
        BY <2>1, <2>5, <3>1, <3>2, <4>1 DEF Grants, Admins
    <3>3. CASE u # req[p].tgt
      <4>1. u \in DOMAIN users /\ users[u].role = "admin"
        BY <2>5, <3>3 DEF UpdateUser, IInv, TypeOK, UserRow
      <4> QED
        BY <2>1, <2>2, <4>1 DEF Admins
    <3> QED
      BY <3>2, <3>3
  <2>6. ASSUME NEW u \in Admins(users')
        PROVE  u \in granted'
    <3>1. u \in DOMAIN users' /\ users'[u].role = "admin"
      BY <2>6 DEF Admins
    <3>2. CASE u \in Admins(users)
      BY <2>1, <2>2, <3>2
    <3>3. CASE u \notin Admins(users)
      <4>1. users' # users
        BY <2>6, <3>3
      <4>2. ASSUME NEW p \in Procs, InsertUser(p) PROVE u \in granted'
        <5>1. users' = Put(users, nextUser, req[p].row)
          BY <4>1, <4>2 DEF InsertUser
        <5>2. u = nextUser
          BY <3>1, <3>3, <5>1 DEF Put, Admins
        <5>3. nextUser \notin DOMAIN users
          BY AccountsAssumption DEF IInv, TypeOK
        <5> QED
          BY <2>4, <3>1, <4>2, <5>2, <5>3
      <4>3. ASSUME NEW p \in Procs, RemoveUser(p) PROVE u \in granted'
        BY <3>1, <3>3, <4>3 DEF RemoveUser, Drop, Admins
      <4> QED
        BY <2>5, <3>1, <4>1, <4>2, <4>3, UsersChange
    <3> QED
      BY <3>2, <3>3
  (* Sessions. *)
  <2>7. ASSUME NEW s \in sessions', s \notin sessions, s.role = "admin"
        PROVE  s.uid \in granted'
    <3>1. ASSUME NEW p \in Procs, InsertUser(p) PROVE s.uid \in granted'
      <4>1. /\ users' = Put(users, nextUser, req[p].row)
            /\ s = [uid |-> nextUser, role |-> req[p].row.role]
        BY <2>7, <3>1 DEF InsertUser
      <4>2. nextUser \in Admins(users')
        BY <2>7, <4>1 DEF Put, Admins
      <4> QED
        BY <2>6, <4>1, <4>2
    <3>2. ASSUME NEW p \in Procs, IssueToken(p) PROVE s.uid \in granted'
      <4>1. req[p].at = "issue" /\ s = [uid |-> req[p].uid, role |-> req[p].role]
        BY <2>7, <3>2 DEF IssueToken
      <4> QED
        BY <2>1, <2>7, <4>1 DEF AuthorityInv
    <3>3. \/ \E p \in Procs : InsertUser(p) \/ IssueToken(p)
          \/ sessions' \subseteq sessions
      BY <1>2 DEF Next, Account, Key, tables, Register, RegisterSwitch, AdminCreate,
         CheckUsername, AdminUpdate, UpdateUser, DeleteUser, CountAdmins, SweepKeys,
         RemoveUser, Login, Expire, CreateToken, UpdateToken, SaveToken, DeleteToken,
         AuthKey, AuthOwner, Serve
    <3> QED
      BY <2>7, <3>1, <3>2, <3>3
  (* Requests. *)
  <2>8. ASSUME NEW p \in Procs
        PROVE  /\ req'[p].at = "issue" /\ req'[p].role = "admin" => req'[p].uid \in granted'
               /\ Registering(req'[p]) /\ req'[p].row.role = "admin" => p \in first'
               /\ req'[p].at \in {"switch", "username"} => req'[p].by = Nobody
               /\ req'[p].at = "insert" /\ req'[p].by # Nobody => req'[p].by \in granted'
               /\ req'[p].at = "update" => req'[p].by \in granted'
    <3> DEFINE Sound(r, g, f) ==
          /\ r.at = "issue" /\ r.role = "admin" => r.uid \in g
          /\ Registering(r) /\ r.row.role = "admin" => p \in f
          /\ r.at \in {"switch", "username"} => r.by = Nobody
          /\ r.at = "insert" /\ r.by # Nobody => r.by \in g
          /\ r.at = "update" => r.by \in g
    <3>1. CASE req'[p].at \notin Asking
      BY <3>1 DEF Asking, Registering
    <3>2. CASE req'[p] = req[p]
      <4>1. Sound(req[p], granted, first)
        BY DEF AuthorityInv
      <4> QED
        BY <2>1, <3>2, <4>1
    <3>3. ASSUME NEW n \in Names, Register(p, n) PROVE Sound(req'[p], granted', first')
      <4>1. /\ req[p] = Idle /\ req'[p].by = Nobody /\ req'[p].at \in {"switch", "username"}
            /\ req'[p].row.role = "admin" => DOMAIN users = {}
        BY <3>3 DEF Register, Go, IInv, TypeOK
      <4> QED
        BY <2>1, <4>1 DEF Registering
    <3>4. ASSUME NEW s \in {"username", "insert"}, req[p].at \in {"switch", "username"},
                 req'[p] = [req[p] EXCEPT !.at = s]
          PROVE  Sound(req'[p], granted', first')
      <4>1. /\ req'[p].at = s /\ req'[p].by = req[p].by /\ req'[p].row = req[p].row
        BY <3>4, Held DEF IInv
      <4>2. /\ req[p].by = Nobody
            /\ req[p].row.role = "admin" => p \in first
        BY <3>4 DEF AuthorityInv, Registering
      <4> QED
        BY <2>1, <4>1, <4>2 DEF Registering
    <3>5. ASSUME NEW s \in sessions, NEW row \in UserRow, AdminCreate(p, s, row)
          PROVE  Sound(req'[p], granted', first')
      <4>1. /\ req'[p].at = "insert" /\ req'[p].by = s.uid /\ s.uid \in granted
            /\ s.uid # Nobody
        BY <2>2, <3>5 DEF AdminCreate, IsAdmin, Go, IInv, TypeOK, Uids, Nobody
      <4> QED
        BY <2>1, <4>1 DEF Registering
    <3>6. ASSUME NEW s \in sessions, NEW u \in Uids, NEW role \in Roles \cup {"keep"},
                 NEW status \in UserStatuses \cup {"keep"}, AdminUpdate(p, s, u, role, status)
          PROVE  Sound(req'[p], granted', first')
      <4>1. req'[p].at = "update" /\ req'[p].by = s.uid /\ s.uid \in granted
        BY <2>2, <3>6 DEF AdminUpdate, IsAdmin, Go, IInv, TypeOK
      <4> QED
        BY <2>1, <4>1 DEF Registering
    <3>7. ASSUME NEW u \in Uids, Login(p, u) PROVE Sound(req'[p], granted', first')
      <4>1. /\ req'[p].at = "issue" /\ req'[p].uid = u /\ req'[p].role = users[u].role
            /\ u \in DOMAIN users
        BY <3>7 DEF Login, Go, IInv, TypeOK
      <4> QED
        BY <2>1, <2>2, <4>1 DEF Registering, Admins
    <3> HIDE DEF Sound
    <3>8. req'[p].at \in Asking => Sound(req'[p], granted', first') \/ req'[p] = req[p]
      BY <3>3, <3>4, <3>5, <3>6, <3>7, ReachAsking
    <3> QED
      BY <3>1, <3>2, <3>8 DEF Sound
  <2>9. AuthorityIsGranted'
    BY <2>1, <2>2, <2>6, <2>7 DEF AuthorityIsGranted
  <2> QED
    BY <2>8, <2>9 DEF AuthorityInv
<1> QED
  BY <1>1, <1>2

(* Every administrator, and every session that still claims to be one's,   *)
(* goes back to a registration that found no account or to an account that *)
(* had been given the role (user_service.go 87-88, jwt_auth.go 86-105).    *)
THEOREM AuthorityDescends == Spec => []AuthorityIsGranted
<1>1. Init => IInv /\ AuthorityInv
  BY IInvInit DEF Init, Idle, AuthorityInv, AuthorityIsGranted, Admins, Registering
<1>2. IInv /\ AuthorityInv /\ [Next]_vars => (IInv /\ AuthorityInv)'
  BY IInvStep, AuthorityStep
<1>3. AuthorityInv => AuthorityIsGranted
  BY DEF AuthorityInv
<1> QED
  BY <1>1, <1>2, <1>3, PTL DEF Spec

-----------------------------------------------------------------------------
(* Keys.  A save writes its caller's key back to its caller, two saves of  *)
(* one key are its owner's, and a deletion holds its target's keys only.   *)
SavesOwnKey ==
  \A p \in Procs : req[p].at = "save" =>
    /\ req[p].row.owner = req[p].by
    /\ req[p].id \in DOMAIN tokens => tokens[req[p].id].owner = req[p].by

SavesAgree ==
  \A p, q \in Procs :
    req[p].at = "save" /\ req[q].at = "save" /\ req[p].id = req[q].id => req[p].by = req[q].by

HoldsTargetsKeys ==
  \A p \in Procs : req[p].at = "remove" =>
    \A t \in req[p].keys :
      t < nextToken /\ (t \in DOMAIN tokens => tokens[t].owner = req[p].tgt)

OwnersInv == SavesOwnKey /\ SavesAgree /\ HoldsTargetsKeys

LEMMA ReachSave ==
  ASSUME IInv, [Next]_vars, NEW p \in Procs, req'[p].at = "save"
  PROVE  \/ req'[p] = req[p]
         \/ \E s \in sessions, t \in Tids, status \in TokenStatuses : UpdateToken(p, s, t, status)
<1>1. ASSUME NEW q \in Procs, NEW r, Go(q, r), r.at # "save" PROVE req'[p] = req[p]
  BY <1>1 DEF Go, IInv, TypeOK
<1>2. ASSUME NEW q \in Procs, NEW s \in {"username", "insert", "sweep", "admitted"},
             req[q].at \in {"switch", "username", "count", "owner"}, Step(q, s)
      PROVE  req'[p] = req[p]
  <2>1. [req[q] EXCEPT !.at = s].at # "save"
    BY <1>2, Held DEF IInv
  <2> QED
    BY <1>1, <1>2, <2>1 DEF Step
<1>3. ASSUME NEW q \in Procs, Respond(q) PROVE req'[p] = req[p]
  BY <1>1, <1>3 DEF Respond, Idle
<1>4. ASSUME NEW q \in Procs, NEW s \in sessions, NEW t \in Tids, NEW status \in TokenStatuses,
             UpdateToken(q, s, t, status)
      PROVE  req'[p] = req[p] \/ UpdateToken(p, s, t, status)
  BY <1>4 DEF UpdateToken, Go, IInv, TypeOK
<1>5. ASSUME NEW q \in Procs, NEW s \in sessions, NEW u \in Uids, DeleteUser(q, s, u)
      PROVE  req'[p] = req[p]
  BY <1>1, <1>5 DEF DeleteUser
<1>6. Account => req'[p] = req[p]
  BY <1>1, <1>2, <1>3, <1>5 DEF Account, Register, RegisterSwitch, AdminCreate, CheckUsername,
     InsertUser, AdminUpdate, UpdateUser, CountAdmins, SweepKeys, RemoveUser, Login,
     IssueToken, Expire
<1>7. Key => \/ req'[p] = req[p]
             \/ \E s \in sessions, t \in Tids, status \in TokenStatuses :
                  UpdateToken(p, s, t, status)
  BY <1>1, <1>2, <1>3, <1>4 DEF Key, CreateToken, SaveToken, DeleteToken, AuthKey, AuthOwner, Serve
<1> QED
  BY <1>6, <1>7 DEF Next, vars

(* Who changes the tokens table. *)
LEMMA TokensChange ==
  ASSUME [Next]_vars
  PROVE  \/ UNCHANGED <<tokens, nextToken>>
         \/ \E s \in sessions, status \in TokenStatuses : CreateToken(s, status)
         \/ \E s \in sessions, t \in Tids : DeleteToken(s, t)
         \/ \E p \in Procs : SaveToken(p) \/ RemoveUser(p)
BY DEF Next, Account, Key, vars, tables, Register, RegisterSwitch, AdminCreate, CheckUsername,
       InsertUser, AdminUpdate, UpdateUser, DeleteUser, CountAdmins, SweepKeys, Login,
       IssueToken, Expire, UpdateToken, AuthKey, AuthOwner, Serve

(* A key that is there before and after a step keeps its owner, and one    *)
(* that is new has a new id or is written by a save.                       *)
LEMMA OwnersStay ==
  ASSUME IInv, SavesOwnKey, [Next]_vars, NEW t \in DOMAIN tokens'
  PROVE  \/ t \in DOMAIN tokens /\ tokens'[t].owner = tokens[t].owner
         \/ t \notin DOMAIN tokens /\ t = nextToken
         \/ /\ t \notin DOMAIN tokens
            /\ \E p \in Procs : /\ req[p].at = "save" /\ req[p].id = t /\ t \notin Locked
                                /\ tokens'[t].owner = req[p].by
<1>0. nextToken \notin DOMAIN tokens
  BY AccountsAssumption DEF IInv, TypeOK
<1>1. CASE UNCHANGED tokens
  BY <1>1
<1>2. ASSUME NEW s \in sessions, NEW status \in TokenStatuses, CreateToken(s, status)
      PROVE  t = nextToken \/ (t \in DOMAIN tokens /\ tokens'[t] = tokens[t])
  BY <1>2 DEF CreateToken, Put
<1>3. ASSUME NEW s \in sessions, NEW k \in Tids, DeleteToken(s, k)
      PROVE  t \in DOMAIN tokens /\ tokens'[t] = tokens[t]
  BY <1>3 DEF DeleteToken, Drop
<1>4. ASSUME NEW p \in Procs, RemoveUser(p)
      PROVE  t \in DOMAIN tokens /\ tokens'[t] = tokens[t]
  BY <1>4 DEF RemoveUser, Drop
<1>5. ASSUME NEW p \in Procs, SaveToken(p), t = req[p].id
      PROVE  /\ req[p].at = "save" /\ t \notin Locked /\ tokens'[t].owner = req[p].by
             /\ t \in DOMAIN tokens => tokens[t].owner = req[p].by
  BY <1>5 DEF SaveToken, Put, SavesOwnKey
<1>6. ASSUME NEW p \in Procs, SaveToken(p), t # req[p].id
      PROVE  t \in DOMAIN tokens /\ tokens'[t] = tokens[t]
  BY <1>6 DEF SaveToken, Put
<1> QED
  BY <1>0, <1>1, <1>2, <1>3, <1>4, <1>5, <1>6, TokensChange

LEMMA OwnersStep == IInv /\ OwnersInv /\ [Next]_vars => OwnersInv'
<1> SUFFICES ASSUME IInv, OwnersInv, [Next]_vars PROVE OwnersInv'
  OBVIOUS
<1>1. SavesOwnKey /\ SavesAgree /\ HoldsTargetsKeys
  BY DEF OwnersInv
<1>2. nextToken \in Nat /\ nextToken' \in Nat /\ nextToken' >= nextToken
  <2>1. nextToken' = nextToken \/ nextToken' = nextToken + 1
    BY TokensChange DEF CreateToken, DeleteToken, SaveToken, RemoveUser
  <2> QED
    BY <2>1, AccountsAssumption DEF IInv, TypeOK
<1>3. ASSUME NEW p \in Procs, NEW s \in sessions, NEW t \in Tids, NEW status \in TokenStatuses,
             UpdateToken(p, s, t, status)
      PROVE  /\ tokens' = tokens /\ req'[p].id = t /\ t \in DOMAIN tokens
             /\ req'[p].by = tokens[t].owner /\ req'[p].row.owner = tokens[t].owner
  BY <1>3 DEF UpdateToken, Owns, tables, Go, IInv, TypeOK, TokenRow
<1>4. ASSUME NEW p \in Procs, req'[p].at = "save"
      PROVE  /\ req'[p].row.owner = req'[p].by
             /\ req'[p].id \in DOMAIN tokens' => tokens'[req'[p].id].owner = req'[p].by
  <2>1. CASE req'[p] = req[p]
    <3>1. req[p].id < nextToken /\ req[p].id # nextToken
      BY <1>2, <1>4, <2>1, Held DEF IInv, SavesKnownKey, Tids
    <3>2. ASSUME req[p].id \in DOMAIN tokens' PROVE tokens'[req[p].id].owner = req[p].by
      BY <1>1, <1>4, <2>1, <3>1, <3>2, OwnersStay DEF SavesOwnKey, SavesAgree
    <3> QED
      BY <1>1, <1>4, <2>1, <3>2 DEF SavesOwnKey
  <2> QED
    BY <1>3, <1>4, <2>1, ReachSave
<1>5. ASSUME NEW p \in Procs, NEW q \in Procs, req'[p].at = "save", req'[q].at = "save",
             req'[p].id = req'[q].id
      PROVE  req'[p].by = req'[q].by
  <2>1. CASE req'[p] = req[p] /\ req'[q] = req[q]
    BY <1>1, <1>5, <2>1 DEF SavesAgree
  <2>2. CASE req'[p].id \in DOMAIN tokens'
    BY <1>4, <1>5, <2>2
  <2>3. req'[p] = req[p] \/ req'[p].id \in DOMAIN tokens'
    BY <1>3, <1>5, ReachSave
  <2>4. req'[q] = req[q] \/ req'[q].id \in DOMAIN tokens'
    BY <1>3, <1>5, ReachSave
  <2> QED
    BY <1>5, <2>1, <2>2, <2>3, <2>4
<1>6. ASSUME NEW p \in Procs, req'[p].at = "remove", NEW t \in req'[p].keys
      PROVE  t < nextToken' /\ (t \in DOMAIN tokens' => tokens'[t].owner = req'[p].tgt)
  <2>1. CASE SweepKeys(p)
    <3>1. /\ tokens' = tokens /\ nextToken' = nextToken /\ req'[p].keys = KeysOf(req[p].tgt)
          /\ req'[p].tgt = req[p].tgt
      BY <2>1 DEF SweepKeys, tables, Go, IInv, TypeOK
    <3>2. t \in DOMAIN tokens /\ tokens[t].owner = req[p].tgt
      BY <1>6, <3>1 DEF KeysOf
    <3>3. t < nextToken
      BY <1>2, <3>2 DEF IInv, TypeOK
    <3> QED
      BY <3>1, <3>2, <3>3
  <2>2. CASE req'[p] = req[p]
    <3>1. t < nextToken /\ (t \in DOMAIN tokens => tokens[t].owner = req[p].tgt) /\ t \in Tids
      BY <1>1, <1>6, <2>2, Held DEF HoldsTargetsKeys, IInv
    <3>2. t \in Locked
      BY <1>6, <2>2 DEF Locked
    <3>3. t < nextToken' /\ t # nextToken
      BY <1>2, <3>1 DEF Tids
    <3>4. ASSUME t \in DOMAIN tokens' PROVE tokens'[t].owner = req[p].tgt
      BY <1>1, <3>1, <3>2, <3>3, <3>4, OwnersStay
    <3> QED
      BY <2>2, <3>3, <3>4
  <2> QED
    BY <1>6, <2>1, <2>2, ReachRemove
<1> QED
  BY <1>4, <1>5, <1>6 DEF OwnersInv, SavesOwnKey, SavesAgree, HoldsTargetsKeys

(* Keys are per user (token_service.go 251-260, 346-360): a key appears,   *)
(* changes or goes only on a session of its owner or with its owner, even  *)
(* by a save whose key was deleted after it was read.                      *)
THEOREM KeysAreTheirOwners == Spec => KeysChangeForTheirOwner
<1>1. Init => IInv /\ OwnersInv
  BY IInvInit DEF Init, Idle, OwnersInv, SavesOwnKey, SavesAgree, HoldsTargetsKeys
<1>2. IInv /\ OwnersInv /\ [Next]_vars => (IInv /\ OwnersInv)'
  BY IInvStep, OwnersStep
<1> DEFINE OwnerOf(t) == IF t \in DOMAIN tokens THEN tokens[t].owner ELSE tokens'[t].owner
           Rightful(t) ==
           LET o == IF t \in DOMAIN tokens THEN tokens[t].owner ELSE tokens'[t].owner
           IN  \/ /\ t \in DOMAIN tokens /\ t \in DOMAIN tokens'
                  /\ tokens'[t] = tokens[t]
               \/ \E s \in sessions : s.uid = o
               \/ \E p \in Procs : /\ req'[p] = Idle
                                   /\ \/ req[p].at = "save" /\ req[p].by = o
                                      \/ req[p].at = "remove" /\ req[p].tgt = o
<1>3. IInv /\ OwnersInv /\ [Next]_vars
        => [\A t \in DOMAIN tokens \cup DOMAIN tokens' : Rightful(t)]_vars
  <2> SUFFICES ASSUME IInv, OwnersInv, [Next]_vars, NEW t \in DOMAIN tokens \cup DOMAIN tokens'
               PROVE  Rightful(t)
    OBVIOUS
  <2>1. CASE t \in DOMAIN tokens /\ t \in DOMAIN tokens' /\ tokens'[t] = tokens[t]
    BY <2>1
  <2>2. ASSUME NEW s \in sessions, NEW status \in TokenStatuses, CreateToken(s, status)
        PROVE  Rightful(t)
    <3>1. nextToken \notin DOMAIN tokens
      BY AccountsAssumption DEF IInv, TypeOK
    <3>2. CASE t = nextToken
      <4>1. OwnerOf(t) = s.uid
        BY <2>2, <3>1, <3>2 DEF CreateToken, Put
      <4> QED
        BY <4>1
    <3>3. CASE t # nextToken
      BY <2>1, <2>2, <3>3 DEF CreateToken, Put
    <3> QED
      BY <3>2, <3>3
  <2>3. ASSUME NEW s \in sessions, NEW k \in Tids, DeleteToken(s, k) PROVE Rightful(t)
    <3>1. CASE t = k
      BY <2>3, <3>1 DEF DeleteToken, Owns
    <3>2. CASE t # k
      BY <2>1, <2>3, <3>2 DEF DeleteToken, Drop
    <3> QED
      BY <3>1, <3>2
  <2>4. ASSUME NEW p \in Procs, SaveToken(p) PROVE Rightful(t)
    <3>1. req'[p] = Idle /\ req[p].at = "save"
      BY <2>4 DEF SaveToken, Respond, Go, IInv, TypeOK
    <3>2. CASE t = req[p].id
      <4>1. OwnerOf(t) = req[p].by
        BY <2>4, <3>1, <3>2 DEF SaveToken, Put, OwnersInv, SavesOwnKey
      <4> QED
        BY <3>1, <4>1
    <3>3. CASE t # req[p].id
      BY <2>1, <2>4, <3>3 DEF SaveToken, Put
    <3> QED
      BY <3>2, <3>3
  <2>5. ASSUME NEW p \in Procs, RemoveUser(p) PROVE Rightful(t)
    <3>1. req'[p] = Idle /\ req[p].at = "remove"
      BY <2>5 DEF RemoveUser, Respond, Go, IInv, TypeOK
    <3>2. CASE t \in req[p].keys
      <4>1. OwnerOf(t) = req[p].tgt
        BY <2>5, <3>1, <3>2 DEF RemoveUser, Drop, OwnersInv, HoldsTargetsKeys
      <4> QED
        BY <3>1, <4>1
    <3>3. CASE t \notin req[p].keys
      BY <2>1, <2>5, <3>3 DEF RemoveUser, Drop
    <3> QED
      BY <3>2, <3>3
  <2> HIDE DEF Rightful
  <2> QED
    BY <2>1, <2>2, <2>3, <2>4, <2>5, TokensChange
<1> QED
  BY <1>1, <1>2, <1>3, PTL DEF Spec, KeysChangeForTheirOwner
=============================================================================
