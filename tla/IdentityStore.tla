---------------------------- MODULE IdentityStore ----------------------------
(***************************************************************************)
(* The tables behind authentication in apps/api/src/auth (core_user,       *)
(* user_role, user_account_membership, impersonation_grant,                *)
(* auth0_event_ingestion and the impersonation rows of audit_event), the   *)
(* accounts Auth0 holds, and the API requests that work on them.           *)
(*                                                                         *)
(* Transactions run at READ COMMITTED, as in BookingStore: a statement     *)
(* sees what is committed and what its own transaction staged, and waits   *)
(* for the transaction that holds the row or the unique value it touches.  *)
(* now() inside a transaction is the time of its BEGIN; new Date() in the  *)
(* service is the time of the step.  Both read one clock.                  *)
(***************************************************************************)
EXTENDS Permissions, Naturals, FiniteSets, Sequences

CONSTANTS
  Users,       \* Auth0 identities (the sub claim)
  Tenants,
  Accounts,
  AccountRow,  \* the core_account row of each account: its type and tenant
  SeedUsers,   \* the core_user rows, with roles and membership, at the start
  Tokens,      \* what valid tokens claim: user, tenant, account
  Orders,      \* what provisioning may be asked for: user, row, rights
  GrantIds,    \* ids of impersonation grants, drawn fresh
  LogIds,      \* log_id of each Auth0 log event
  EventOf,     \* what each event says
  Workers,     \* API requests that can run at the same time
  PoolSize,    \* connections of pg.Pool
  TTL,         \* lifetime of a grant
  MaxTime,     \* bound of the clock
  NoGrant, NoAccount, NoUser

ASSUME IdentityNullAssumption ==
  NoGrant \notin GrantIds /\ NoAccount \notin Accounts /\ NoUser \notin Users

ASSUME ClockAssumption == TTL \in Nat \ {0} /\ MaxTime \in Nat /\ PoolSize \in Nat

Classes == {"OPERATOR", "AGENCY"}

(* A core_user row.  "ABSENT" stands for: there is no such row.            *)
UserRow == [status : {"ABSENT", "ACTIVE", "DEACTIVATED"}, class : Classes,
            tenant : Tenants]

(* The rows that hang from it: active roles and the account of the one     *)
(* membership a user may have.                                             *)
Rights == [roles : SUBSET Roles, account : Accounts \cup {NoAccount}]

(* A user as provisioning or the bootstrap leaves it.  The bootstrap gives *)
(* an agency user the role of the administrator too.                       *)
Fits(row, held) ==
  /\ held.roles # {}
  /\ row.class = "OPERATOR" => held.roles \subseteq OperatorRoles /\ held.account = NoAccount
  /\ row.class = "AGENCY" =>
       held.account # NoAccount /\ held.roles \subseteq AgencyRoles \cup {"platform_admin"}

ASSUME SeedAssumption ==
  /\ Tenants # {}
  /\ DOMAIN SeedUsers \subseteq Users
  /\ \A u \in DOMAIN SeedUsers :
       /\ SeedUsers[u] \in [row : UserRow, rights : Rights]
       /\ SeedUsers[u].row.status # "ABSENT"
       /\ Fits(SeedUsers[u].row, SeedUsers[u].rights)

(* provisionOperator is given no account.                                  *)
ASSUME InputAssumption ==
  /\ Tokens \subseteq [user : Users, tenant : Tenants, account : Accounts \cup {NoAccount}]
  /\ Orders \subseteq [user : Users, row : UserRow, rights : Rights]
  /\ \A o \in Orders : o.row.class = "OPERATOR" => o.rights.account = NoAccount
  /\ \A l \in LogIds : EventOf[l].user \in Users

Grant == [state : {"FREE", "OPEN", "ENDED"}, actor : Users \cup {NoUser},
          account : Accounts \cup {NoAccount}, tenant : Tenants \cup {"NONE"},
          started : Nat, expires : Nat,
          reason : {"NONE", "OPERATOR_ENDED", "EXPIRED"}]

FreeGrant == [state |-> "FREE", actor |-> NoUser, account |-> NoAccount, tenant |-> "NONE",
              started |-> 0, expires |-> 0, reason |-> "NONE"]

AuthContext == [class : Classes, account : Accounts \cup {NoAccount}, impersonating : BOOLEAN,
                grant : GrantIds \cup {NoGrant}]

NoContext == [class |-> "OPERATOR", account |-> NoAccount, impersonating |-> FALSE,
              grant |-> NoGrant]

(* A connection a request has checked out, and what its transaction        *)
(* staged: the row of user, the rights of owner, the end of one grant and  *)
(* a new grant, and the grant it audited the end of.  "held": the          *)
(* transaction is over, but the connection is not back in the pool yet.    *)
Tx == [state : {"none", "open", "held"}, at : Nat,
       user : Users \cup {NoUser}, row : UserRow,
       owner : Users \cup {NoUser}, rights : Rights,
       ends : GrantIds \cup {NoGrant}, grant : GrantIds \cup {NoGrant}, value : Grant,
       ended : GrantIds \cup {NoGrant}]

SomeRow == [status |-> "ABSENT", class |-> "OPERATOR", tenant |-> CHOOSE t \in Tenants : TRUE]

NoRights == [roles |-> {}, account |-> NoAccount]

NoTx == [state |-> "none", at |-> 0, user |-> NoUser, row |-> SomeRow,
         owner |-> NoUser, rights |-> NoRights, ends |-> NoGrant, grant |-> NoGrant,
         value |-> FreeGrant, ended |-> NoGrant]

Kinds == {"search", "confirm", "start", "stop", "provision", "bootstrap"}

(* The permission each guarded route asks for; the search and the confirm  *)
(* of a booking stand for what agencies and what operators do.             *)
RequiredBy(kind) ==
  CASE kind = "search"  -> {"search.execute"}
    [] kind = "confirm" -> {"booking.confirm.manual"}
    [] kind \in {"start", "stop"} -> {"impersonate.agency_account"}

(* What a request keeps between two awaits; open and past are the grants   *)
(* that were active, and that had ended, when a search or confirm began.   *)
Request == [kind : Kinds, user : Users \cup {NoUser}, ctx : AuthContext,
            target : Accounts \cup {NoAccount},
            complete : BOOLEAN, grant : GrantIds \cup {NoGrant},
            waits : GrantIds \cup {NoGrant}, row : UserRow, rights : Rights,
            open : SUBSET GrantIds, past : SUBSET GrantIds]

NoRequest == [kind |-> "search", user |-> NoUser, ctx |-> NoContext, 
              target |-> NoAccount, complete |-> TRUE, grant |-> NoGrant, waits |-> NoGrant,
              row |-> SomeRow, rights |-> NoRights, open |-> {}, past |-> {}]

Steps == {"idle", "find_grant", "roles", "serve", "lookup", "connect", "find_unended",
          "end_expired", "end_expired_wait", "insert_grant", "commit_start", "reject",
          "stop_connect", "end_open", "end_open_wait", "commit_stop",
          "create_auth0", "insert_user", "commit_user", "compensate",
          "ensure_find", "ensure_user", "ensure_role", "commit_ensure"}
-----------------------------------------------------------------------------
VARIABLES
  users,      \* core_user
  rights,     \* user_role and user_account_membership
  grants,     \* impersonation_grant
  auditLog,   \* how often each impersonation event was written for a grant
  ledger,     \* auth0_event_ingestion
  unmatched,  \* recorded events whose UPDATE found no core_user row
  applied,    \* the recorded events in the order of their transactions
  emitted,    \* the events in the order Auth0 logged them (external)
  pending,    \* the events Auth0 still has to deliver (external)
  auth0,      \* the identities Auth0 holds (external)
  inDoubt,    \* users whose provisioning COMMIT was not acknowledged
  now,        \* the clock
  pc, req, tx

people == <<users, rights, auth0, inDoubt>>

grantTables == <<grants, auditLog>>

webhook == <<ledger, unmatched, applied, emitted, pending>>

vars == <<users, rights, grants, auditLog, ledger, unmatched, applied, emitted, pending, auth0,
          inDoubt, now, pc, req, tx>>

TypeOK ==
  /\ users \in [Users -> UserRow]
  /\ rights \in [Users -> Rights]
  /\ grants \in [GrantIds -> Grant]
  /\ auditLog \in [GrantIds -> [STARTED : Nat, ENDED : Nat]]
  /\ ledger \subseteq LogIds
  /\ unmatched \subseteq ledger
  /\ applied \in Seq(LogIds)
  /\ emitted \in Seq(LogIds)
  /\ pending \subseteq LogIds
  /\ auth0 \subseteq Users
  /\ inDoubt \subseteq Users
  /\ now \in Nat
  /\ pc \in [Workers -> Steps]
  /\ req \in [Workers -> Request]
  /\ tx \in [Workers -> Tx]

Init ==
  /\ users = [u \in Users |-> IF u \in DOMAIN SeedUsers THEN SeedUsers[u].row ELSE SomeRow]
  /\ rights = [u \in Users |-> IF u \in DOMAIN SeedUsers THEN SeedUsers[u].rights ELSE NoRights]
  /\ grants = [g \in GrantIds |-> FreeGrant]
  /\ auditLog = [g \in GrantIds |-> [STARTED |-> 0, ENDED |-> 0]]
  /\ ledger = {} /\ unmatched = {}
  /\ applied = <<>> /\ emitted = <<>> /\ pending = {}
  /\ auth0 = DOMAIN SeedUsers
  /\ inDoubt = {}
  /\ now = 0
  /\ pc = [w \in Workers |-> "idle"]
  /\ req = [w \in Workers |-> NoRequest]
  /\ tx = [w \in Workers |-> NoTx]
-----------------------------------------------------------------------------
Exists(u) == users[u].status # "ABSENT"

Others(w) == Workers \ {w}

FreeConnections == PoolSize - Cardinality({w \in Workers : tx[w].state # "none"})

(* The user row, or the grant row, another open transaction holds.         *)
UserHeld(w, u) == \E v \in Others(w) : tx[v].user = u

RightsHeld(w, u) == \E v \in Others(w) : tx[v].owner = u

GrantHeld(w, g) == g # NoGrant /\ \E v \in Others(w) : tx[v].ends = g

OpenGrants(u) == {g \in GrantIds : grants[g].state = "OPEN" /\ grants[g].actor = u}

Goto(w, step) == pc' = [pc EXCEPT ![w] = step]

(* The request is answered, its connection goes back to the pool and what  *)
(* its transaction staged is gone.                                         *)
Finish(w) ==
  /\ pc' = [pc EXCEPT ![w] = "idle"]
  /\ tx' = [tx EXCEPT ![w] = NoTx]
  /\ req' = [req EXCEPT ![w] = NoRequest]

(* BEGIN on a connection of the pool; waiting for one times out.           *)
Connect(w, step) ==
  IF FreeConnections > 0
  THEN /\ tx' = [tx EXCEPT ![w] = [NoTx EXCEPT !.state = "open", !.at = now]]
       /\ Goto(w, step)
       /\ UNCHANGED req
  ELSE Finish(w)

(* What a COMMIT makes visible.                                            *)
Publish(w) ==
  LET t == tx[w] IN
  /\ grants' = [g \in GrantIds |->
       IF g = t.grant THEN t.value
       ELSE IF g = t.ends
            THEN [grants[g] EXCEPT !.state = "ENDED",
                    !.reason = IF req[w].kind = "stop" THEN "OPERATOR_ENDED" ELSE "EXPIRED"]
            ELSE grants[g]]
  /\ auditLog' = [g \in GrantIds |->
       [STARTED |-> auditLog[g].STARTED + (IF g = t.grant THEN 1 ELSE 0),
        ENDED   |-> auditLog[g].ENDED + (IF g = t.ended THEN 1 ELSE 0)]]
  /\ users' = IF t.user = NoUser THEN users ELSE [users EXCEPT ![t.user] = t.row]
  /\ rights' = IF t.owner = NoUser THEN rights ELSE [rights EXCEPT ![t.owner] = t.rights]

(* Mutant of RequestFails: the catch block forgets the ROLLBACK and the     *)
(* release of the client.                                                  *)
FailWithoutRollback(w) ==
  /\ pc[w] \notin {"idle", "compensate", "create_auth0", "insert_user", "commit_user"}
  /\ pc' = [pc EXCEPT ![w] = "idle"]
  /\ req' = [req EXCEPT ![w] = NoRequest]
  /\ UNCHANGED <<people, grantTables, webhook, now, tx>>

(* A statement, a query or a connection attempt (it times out after five   *)
(* seconds) fails: the request is answered 5xx.                            *)
RequestFails(w) ==
  /\ pc[w] \notin {"idle", "compensate", "create_auth0", "insert_user", "commit_user"}
  /\ Finish(w)
  /\ UNCHANGED <<people, grantTables, webhook, now>>

Tick ==
  /\ now < MaxTime
  /\ now' = now + 1
  /\ UNCHANGED <<people, grantTables, webhook, pc, req, tx>>
=============================================================================
