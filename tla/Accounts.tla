------------------------------ MODULE Accounts ------------------------------
(***************************************************************************)
(* Users, downstream keys and sessions: internal/service/user_service.go   *)
(* and token_service.go, the admin and self-service handlers above them,   *)
(* the JWT that authorises these and the key that authorises a relay call. *)
(*                                                                         *)
(* Every HTTP handler runs in a goroutine of its own (a member of Procs).  *)
(* PostgreSQL runs at read committed, so a transaction does not isolate    *)
(* its reads: each statement is one step, and the writes of a transaction  *)
(* appear together when it commits.  bcrypt runs between the reads and the *)
(* writes, so the windows between the steps are not small.                 *)
(*                                                                         *)
(* Passwords, profile fields, quotas and groups are data no step here      *)
(* depends on: Login succeeds or not, and a handler that writes only those *)
(* fields is a stutter.  A key past its expiry date is one whose status is *)
(* not "enabled".  Users and keys are known by their primary keys.         *)
(***************************************************************************)
EXTENDS Integers

CONSTANTS
  Procs,      \* handler goroutines, of any replica
  Names,      \* usernames
  MaxUsers,   \* bound: rows ever inserted into users
  MaxTokens   \* bound: rows ever inserted into tokens

ASSUME AccountsAssumption == MaxUsers \in Nat /\ MaxTokens \in Nat

Uids == 1 .. MaxUsers
Tids == 1 .. MaxTokens
Roles == {"admin", "user"}
UserStatuses == {"enabled", "disabled"}
TokenStatuses == {"enabled", "disabled"}  \* or "expired", refused alike
Nobody == 0   \* who asks for a registration

UserRow == [name : Names, role : Roles, status : UserStatuses]
TokenRow == [owner : Uids, status : TokenStatuses]

VARIABLES
  users, nextUser,    \* the users table by id, and its sequence
  tokens, nextToken,  \* the tokens table by id, and its sequence
  sessions,           \* JWTs in circulation: [uid, role] claims
  req,                \* what each handler holds and the step it is at
  calm,     \* history: no other handler changed users since this one read
  lowered,  \* history: an admin row has been demoted or deleted
  stray,    \* history: keys written when their owner's were already removed
  first,    \* history: registrations that began when there was no account
  granted   \* history: accounts that were given the admin role, by whom it had
            \* been given to before or by such a registration

tables == <<users, nextUser, tokens, nextToken>>
history == <<calm, lowered, stray, first, granted>>
vars == <<users, nextUser, tokens, nextToken, sessions, req,
          calm, lowered, stray, first, granted>>

-----------------------------------------------------------------------------
(* Tables and requests *)

Put(f, k, v) == [x \in DOMAIN f \cup {k} |-> IF x = k THEN v ELSE f[x]]
Drop(f, S) == [x \in DOMAIN f \ S |-> f[x]]

Admins(table) == {u \in DOMAIN table : table[u].role = "admin"}
Taken(n) == \E u \in DOMAIN users : users[u].name = n
KeysOf(u) == {t \in DOMAIN tokens : tokens[t].owner = u}

(* JWTAuth and AdminOnly: the claims decide, the users table is not read.  *)
IsAdmin(s) == s.role = "admin"

Idle == [at |-> "idle"]
Go(p, r) == req' = [req EXCEPT ![p] = r]
Step(p, s) == Go(p, [req[p] EXCEPT !.at = s])
Respond(p) == Go(p, Idle)

Requests ==
  [at : {"idle"}]
    \cup [at : {"switch", "username", "insert"}, by : Uids \cup {Nobody}, row : UserRow]
    \cup [at : {"update"}, by : Uids, tgt : Uids, role : Roles \cup {"keep"},
          status : UserStatuses \cup {"keep"}]
    \cup [at : {"count", "sweep"}, by : Uids, tgt : Uids]
    \cup [at : {"remove"}, by : Uids, tgt : Uids, keys : SUBSET Tids]
    \cup [at : {"issue"}, uid : Uids, role : Roles]
    \cup [at : {"save"}, by : Uids, id : Tids, row : TokenRow]
    \cup [at : {"owner", "admitted"}, owner : Uids]

(* Rows a transaction has deleted and not committed: other writers wait.   *)
Locked == UNION {req[p].keys : p \in {q \in Procs : req[q].at = "remove"}}

Init ==
  /\ users = [u \in {} |-> 0] /\ nextUser = 1
  /\ tokens = [t \in {} |-> 0] /\ nextToken = 1
  /\ sessions = {}
  /\ req = [p \in Procs |-> Idle]
  /\ calm = [p \in Procs |-> TRUE]
  /\ lowered = FALSE
  /\ stray = {} /\ first = {} /\ granted = {}

-----------------------------------------------------------------------------
(* UserService.Register and AdminCreate *)

(* Mutant: the first account is not promoted. *)
RegisterPlain(p, n) ==
  /\ req[p] = Idle
  /\ Go(p, [at |-> "switch", by |-> Nobody,
            row |-> [name |-> n, role |-> "user", status |-> "enabled"]])
  /\ UNCHANGED <<tables, sessions>>

(* The count decides the role; the switch is read only if users exist.     *)
Register(p, n) ==
  /\ req[p] = Idle
  /\ LET none == DOMAIN users = {}
     IN  Go(p, [at |-> IF none THEN "username" ELSE "switch", by |-> Nobody,
                row |-> [name |-> n, role |-> IF none THEN "admin" ELSE "user",
                         status |-> "enabled"]])
  /\ UNCHANGED <<tables, sessions>>

(* An administrator may set RegisterEnabled at any time, so a registration *)
(* meets either value.                                                     *)
RegisterSwitch(p) ==
  /\ req[p].at = "switch"
  /\ Step(p, "username") \/ Respond(p)
  /\ UNCHANGED <<tables, sessions>>

(* An administrator chooses role and status (a disabled account is left to *)
(* AdminUpdate); there is no switch to read, and the transaction begins    *)
(* with the check of the name.                                             *)
AdminCreate(p, s, row) ==
  /\ req[p] = Idle
  /\ IsAdmin(s)
  /\ ~ Taken(row.name) /\ row.status = "enabled"
  /\ Go(p, [at |-> "insert", by |-> s.uid, row |-> row])
  /\ UNCHANGED <<tables, sessions>>

CheckUsername(p) ==
  /\ req[p].at = "username"
  /\ IF Taken(req[p].row.name) THEN Respond(p) ELSE Step(p, "insert")
  /\ UNCHANGED <<tables, sessions>>

(* Mutant: no unique index behind the check. *)
InsertUnchecked(p) ==
  /\ req[p].at = "insert"
  /\ nextUser \in Uids
  /\ users' = Put(users, nextUser, req[p].row)
  /\ nextUser' = nextUser + 1
  /\ Respond(p)
  /\ UNCHANGED <<tokens, nextToken, sessions>>

(* The unique index refuses a name inserted meanwhile (and the store may   *)
(* fail, which here bounds the rows).  A registration answers with a       *)
(* session for the new account.                                            *)
InsertUser(p) ==
  /\ req[p].at = "insert"
  /\ LET r == req[p]
     IN  IF Taken(r.row.name) \/ nextUser \notin Uids
         THEN UNCHANGED <<users, nextUser, sessions>>
         ELSE /\ users' = Put(users, nextUser, r.row)
              /\ nextUser' = nextUser + 1
              /\ sessions' = IF r.by # Nobody THEN sessions
                             ELSE sessions \cup {[uid |-> nextUser, role |-> r.row.role]}
  /\ Respond(p)
  /\ UNCHANGED <<tokens, nextToken>>

-----------------------------------------------------------------------------
(* UserService.AdminUpdate and Delete *)

(* Mutant: self-protection watches the status only. *)
AdminUpdateDemotesSelf(p, s, u, role, status) ==
  /\ req[p] = Idle
  /\ IsAdmin(s)
  /\ u \in DOMAIN users
  /\ s.uid = u => status # "disabled"
  /\ Go(p, [at |-> "update", by |-> s.uid, tgt |-> u, role |-> role, status |-> status])
  /\ UNCHANGED <<tables, sessions>>

(* Mutant: users edit their own account through the same handler.          *)
AdminUpdateOpen(p, s, u, role, status) ==
  /\ req[p] = Idle
  /\ IsAdmin(s) \/ s.uid = u
  /\ u \in DOMAIN users
  /\ s.uid = u => status # "disabled" /\ role # "user"
  /\ Go(p, [at |-> "update", by |-> s.uid, tgt |-> u, role |-> role, status |-> status])
  /\ UNCHANGED <<tables, sessions>>

(* The handler refuses only to disable or demote the caller's own account. *)
AdminUpdate(p, s, u, role, status) ==
  /\ req[p] = Idle
  /\ IsAdmin(s)
  /\ u \in DOMAIN users
  /\ s.uid = u => status # "disabled" /\ role # "user"
  /\ Go(p, [at |-> "update", by |-> s.uid, tgt |-> u, role |-> role, status |-> status])
  /\ UNCHANGED <<tables, sessions>>

Given(input, old) == IF input = "keep" THEN old ELSE input

(* Mutant: an absent field is written like any other. *)
UpdateUserBlank(p) ==
  /\ req[p].at = "update"
  /\ LET r == req[p]
     IN  users' = IF r.tgt \notin DOMAIN users THEN users
                  ELSE [users EXCEPT ![r.tgt].role = r.role, ![r.tgt].status = r.status]
  /\ Respond(p)
  /\ UNCHANGED <<nextUser, tokens, nextToken, sessions>>

(* An UPDATE by id: nothing happens to a row deleted meanwhile.            *)
UpdateUser(p) ==
  /\ req[p].at = "update"
  /\ LET r == req[p]
     IN  users' = IF r.tgt \notin DOMAIN users THEN users
                  ELSE [users EXCEPT ![r.tgt].role = Given(r.role, @),
                                     ![r.tgt].status = Given(r.status, @)]
  /\ Respond(p)
  /\ UNCHANGED <<nextUser, tokens, nextToken, sessions>>

(* GetByID, before the transaction: whether the target is an admin is      *)
(* decided here.                                                           *)
DeleteUser(p, s, u) ==
  /\ req[p] = Idle
  /\ IsAdmin(s)
  /\ u # s.uid
  /\ u \in DOMAIN users
  /\ Go(p, [at |-> IF users[u].role = "admin" THEN "count" ELSE "sweep",
            by |-> s.uid, tgt |-> u])
  /\ UNCHANGED <<tables, sessions>>

(* Mutant: the guard refuses only when no admin is left to count. *)
CountAdminsOffByOne(p) ==
  /\ req[p].at = "count"
  /\ IF Admins(users) # {} THEN Step(p, "sweep") ELSE Respond(p)
  /\ UNCHANGED <<tables, sessions>>

CountAdmins(p) ==
  /\ req[p].at = "count"
  /\ IF \E a, b \in Admins(users) : a # b THEN Step(p, "sweep") ELSE Respond(p)
  /\ UNCHANGED <<tables, sessions>>

(* Mutant: the keys are left in place. *)
SweepNothing(p) ==
  /\ req[p].at = "sweep"
  /\ Go(p, [at |-> "remove", by |-> req[p].by, tgt |-> req[p].tgt, keys |-> {}])
  /\ UNCHANGED <<tables, sessions>>

(* DELETE FROM tokens, seen by others only at the commit.                  *)
SweepKeys(p) ==
  /\ req[p].at = "sweep"
  /\ LET keys == KeysOf(req[p].tgt)
     IN  /\ keys \cap Locked = {}
         /\ Go(p, [at |-> "remove", by |-> req[p].by, tgt |-> req[p].tgt, keys |-> keys])
  /\ UNCHANGED <<tables, sessions>>

(* DELETE FROM users and the commit.                                       *)
RemoveUser(p) ==
  /\ req[p].at = "remove"
  /\ users' = Drop(users, {req[p].tgt})
  /\ tokens' = Drop(tokens, req[p].keys)
  /\ Respond(p)
  /\ UNCHANGED <<nextUser, nextToken, sessions>>

-----------------------------------------------------------------------------
(* UserService.Login and the session it issues.  No session is revoked: it *)
(* ends with its TTL, and authorises by the role it was issued with.       *)

Login(p, u) ==
  /\ req[p] = Idle
  /\ u \in DOMAIN users
  /\ users[u].status = "enabled"
  /\ Go(p, [at |-> "issue", uid |-> u, role |-> users[u].role])
  /\ UNCHANGED <<tables, sessions>>

IssueToken(p) ==
  /\ req[p].at = "issue"
  /\ sessions' = sessions \cup {[uid |-> req[p].uid, role |-> req[p].role]}
  /\ Respond(p)
  /\ UNCHANGED <<tables>>

Expire(s) ==
  /\ sessions' = sessions \ {s}
  /\ UNCHANGED <<tables, req>>

-----------------------------------------------------------------------------
(* TokenService: a session is enough, the users table is not consulted *)

CreateToken(s, status) ==
  /\ nextToken \in Tids
  /\ tokens' = Put(tokens, nextToken, [owner |-> s.uid, status |-> status])
  /\ nextToken' = nextToken + 1
  /\ UNCHANGED <<users, nextUser, sessions, req>>

(* Mutant: getOwned forgets whose key it is. *)
OwnsAny(s, t) == t \in DOMAIN tokens

Owns(s, t) == t \in DOMAIN tokens /\ tokens[t].owner = s.uid

UpdateToken(p, s, t, status) ==
  /\ req[p] = Idle
  /\ Owns(s, t)
  /\ Go(p, [at |-> "save", by |-> s.uid, id |-> t,
            row |-> [tokens[t] EXCEPT !.status = status]])
  /\ UNCHANGED <<tables, sessions>>

(* db.Save writes the whole row, and inserts it when it is gone.           *)
SaveToken(p) ==
  /\ req[p].at = "save"
  /\ req[p].id \notin Locked
  /\ tokens' = Put(tokens, req[p].id, req[p].row)
  /\ Respond(p)
  /\ UNCHANGED <<users, nextUser, nextToken, sessions>>

DeleteToken(s, t) ==
  /\ Owns(s, t)
  /\ t \notin Locked
  /\ tokens' = Drop(tokens, {t})
  /\ UNCHANGED <<users, nextUser, nextToken, sessions, req>>

-----------------------------------------------------------------------------
(* RelayAuth; a refusal leaves everything as it was *)

AuthKey(p, t) ==
  /\ req[p] = Idle
  /\ t \in DOMAIN tokens
  /\ tokens[t].status = "enabled"
  /\ Go(p, [at |-> "owner", owner |-> tokens[t].owner])
  /\ UNCHANGED <<tables, sessions>>

AuthOwner(p) ==
  /\ req[p].at = "owner"
  /\ LET u == req[p].owner
     IN  IF u \in DOMAIN users /\ users[u].status = "enabled"
         THEN Step(p, "admitted") ELSE Respond(p)
  /\ UNCHANGED <<tables, sessions>>

Serve(p) ==
  /\ req[p].at = "admitted"
  /\ Respond(p)
  /\ UNCHANGED <<tables, sessions>>

-----------------------------------------------------------------------------
(* History: what the step being taken means for the properties below.      *)

Deleting(r) == r.at \in {"count", "sweep", "remove"}
Swept(u) == u \notin DOMAIN users
            \/ \E p \in Procs : req[p].at = "remove" /\ req[p].tgt = u
Written(t) == t \notin DOMAIN tokens \/ tokens'[t] # tokens[t]

Registering(r) == r.at \in {"switch", "username", "insert"} /\ r.by = Nobody

(* Is what p ends with done for an administrator, or for the first account?*)
Authorised(p) == IF Registering(req[p]) THEN p \in first ELSE req[p].by \in granted
Grants(p, u) ==
  /\ req'[p] = Idle
  /\ \/ req[p].at = "insert" /\ u = nextUser
     \/ req[p].at = "update" /\ u = req[p].tgt
  /\ Authorised(p)

Watch ==
  /\ calm' = [p \in Procs |->
                Deleting(req'[p]) => calm[p] /\ (req[p] = Idle \/ users' = users)]
  /\ lowered' = (lowered \/ ~ Admins(users) \subseteq Admins(users'))
  /\ stray' = {t \in DOMAIN tokens' :
                t \in stray \/ (Written(t) /\ Swept(tokens'[t].owner))}
  /\ first' = {p \in Procs : /\ Registering(req'[p])
                             /\ p \in first \/ (req[p] = Idle /\ DOMAIN users = {})}
  /\ granted' = granted \cup {u \in Admins(users') : \E p \in Procs : Grants(p, u)}

Account ==
  \/ \E p \in Procs :
       \/ \E n \in Names : Register(p, n)
       \/ RegisterSwitch(p)
       \/ \E s \in sessions, row \in UserRow : AdminCreate(p, s, row)
       \/ CheckUsername(p)
       \/ InsertUser(p)
       \/ \E s \in sessions, u \in Uids, role \in Roles : AdminUpdate(p, s, u, role, "keep")
       \/ \E s \in sessions, u \in Uids, status \in UserStatuses :
            AdminUpdate(p, s, u, "keep", status)
       \/ UpdateUser(p)
       \/ \E s \in sessions, u \in Uids : DeleteUser(p, s, u)
       \/ CountAdmins(p)
       \/ SweepKeys(p)
       \/ RemoveUser(p)
       \/ \E u \in Uids : Login(p, u)
       \/ IssueToken(p)
  \/ \E s \in sessions : Expire(s)

Key ==
  \/ \E s \in sessions, status \in TokenStatuses : CreateToken(s, status)
  \/ \E p \in Procs :
       \/ \E s \in sessions, t \in Tids, status \in TokenStatuses :
            UpdateToken(p, s, t, status)
       \/ SaveToken(p)
       \/ \E t \in Tids : AuthKey(p, t)
       \/ AuthOwner(p)
       \/ Serve(p)
  \/ \E s \in sessions, t \in Tids : DeleteToken(s, t)

Next == (Account \/ Key) /\ Watch

Spec == Init /\ [][Next]_vars

-----------------------------------------------------------------------------
(* Properties *)

(* Tables hold well-formed rows with ids their sequences have passed, and  *)
(* every handler is at a step of an operation.                             *)
TypeOK ==
  /\ nextUser \in 1 .. MaxUsers + 1 /\ nextToken \in 1 .. MaxTokens + 1
  /\ DOMAIN users \subseteq 1 .. nextUser - 1
  /\ \A u \in DOMAIN users : users[u] \in UserRow
  /\ DOMAIN tokens \subseteq 1 .. nextToken - 1
  /\ \A t \in DOMAIN tokens : tokens[t] \in TokenRow
  /\ sessions \subseteq [uid : Uids, role : Roles]
  /\ req \in [Procs -> Requests]
  /\ calm \in [Procs -> BOOLEAN] /\ lowered \in BOOLEAN /\ stray \subseteq Tids
  /\ first \subseteq Procs /\ granted \subseteq Uids

(* No two accounts share a name, though two registrations may both find it *)
(* free (user_service.go 110-116) before either inserts.                   *)
UsernamesUnique ==
  \A u, v \in DOMAIN users : users[u].name = users[v].name => u = v

(* However the first registrations interleave (user_service.go 101-128), a *)
(* system with accounts has an administrator until one is demoted or       *)
(* deleted: the bootstrap never ends with ordinary users only.             *)
BootstrapHasAdmin == nextUser > 1 /\ ~ lowered => Admins(users) # {}

(* A deletion that nothing else disturbs between its reads and its commit  *)
(* (user_service.go 520-541) leaves an administrator if there was one.     *)
CalmDeleteKeepsAdmin ==
  [][\A p \in Procs : req[p].at = "remove" /\ req'[p] = Idle /\ calm[p] =>
       (Admins(users) # {} => Admins(users') # {})]_vars

(* "cannot delete the last admin account" (user_service.go 31-33): no      *)
(* deletion takes away the last administrator.                             *)
LastAdminGuard ==
  [][\A p \in Procs : req[p].at = "remove" /\ req'[p] = Idle =>
       (Admins(users) # {} => Admins(users') # {})]_vars

(* Self-protection (user_ctrl.go 169-182, user_service.go 516-518): an     *)
(* account is demoted, disabled or deleted only by another account.        *)
OnlyOthersLower ==
  [][\A u \in DOMAIN users :
       \/ /\ u \in DOMAIN users'
          /\ users[u].role = "admin" => users'[u].role = "admin"
          /\ users[u].status = "enabled" => users'[u].status = "enabled"
       \/ \E p \in Procs : /\ req[p].at \in {"update", "remove"}
                           /\ req[p].tgt = u /\ req[p].by # u
                           /\ req'[p] = Idle]_vars

(* "so no orphan tokens survive" (user_service.go 532-533), as far as it   *)
(* goes: a key whose owner is gone was written, by a create or a save,     *)
(* after the deletion had already removed the owner's keys.                *)
OrphansAreLate ==
  \A t \in DOMAIN tokens : tokens[t].owner \in DOMAIN users \/ t \in stray

(* Keys are per user (token_service.go 251-260, 346-360): a key appears,   *)
(* changes or goes only on a session of its owner or with its owner.       *)
KeysChangeForTheirOwner ==
  [][\A t \in DOMAIN tokens \cup DOMAIN tokens' :
       LET o == IF t \in DOMAIN tokens THEN tokens[t].owner ELSE tokens'[t].owner
       IN  \/ /\ t \in DOMAIN tokens /\ t \in DOMAIN tokens'
              /\ tokens'[t] = tokens[t]
           \/ \E s \in sessions : s.uid = o
           \/ \E p \in Procs : /\ req'[p] = Idle
                               /\ \/ req[p].at = "save" /\ req[p].by = o
                                  \/ req[p].at = "remove" /\ req[p].tgt = o]_vars

(* Where authority comes from (user_service.go 87-88, jwt_auth.go 86-105,  *)
(* user_ctrl.go): every administrator, and every session that still claims *)
(* to be one's, goes back to a registration that found no account at all   *)
(* or to an account that had been given the role before.  So no sequence   *)
(* of ordinary accounts' requests makes an administrator, and the claims   *)
(* of a stale session were true of its account once.                       *)
AuthorityIsGranted ==
  /\ Admins(users) \subseteq granted
  /\ \A s \in sessions : s.role = "admin" => s.uid \in granted
=============================================================================
