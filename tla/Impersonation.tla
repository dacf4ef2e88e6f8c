---------------------------- MODULE Impersonation ----------------------------
(***************************************************************************)
(* A guarded request of apps/api: JwtAuthGuard (TokenCaches has the check  *)
(* of the token itself), RolesGuard, and the handlers: a search, a         *)
(* confirm, and the start and stop of an impersonation session.  Every     *)
(* await is a step of its own, so that any other request can run between.  *)
(***************************************************************************)
EXTENDS IdentityStore

(* JwtAuthGuard and UserSyncService: the row must exist, belong to the     *)
(* tenant the token claims and be ACTIVE.  The bootstrap branch needs an   *)
(* e-mail, which the guard never passes on, so an unknown user is refused  *)
(* whatever the bootstrap mode.  A refused request changes nothing.        *)
SyncUser(u, t) == users[u].status = "ACTIVE" /\ users[u].tenant = t

(* findActiveByActor: un-ended, and not expired by the database's clock.   *)
ActiveGrants(u) == {g \in OpenGrants(u) : grants[g].expires > now}

(* The AuthContext before any grant is looked for.                         *)
OwnContext(token) ==
  LET class == users[token.user].class IN
  [NoContext EXCEPT !.class = class,
                    !.account = IF class = "AGENCY" THEN token.account ELSE NoAccount]

(* The grants that are noted for a request that will be served.            *)
Noted(kind, some) == IF kind \in {"search", "confirm"} THEN some ELSE {}

EndedGrants == {g \in GrantIds : grants[g].state = "ENDED"}

(* The request as the guard lets it in.                                    *)
Admission(token, kind, target, complete) ==
  [NoRequest EXCEPT !.kind = kind, !.user = token.user, !.row = users[token.user],
                    !.target = target, !.complete = complete, !.ctx = OwnContext(token),
                    !.open = Noted(kind, ActiveGrants(token.user)),
                    !.past = Noted(kind, EndedGrants)]

Authenticate(w) ==
  /\ pc[w] = "idle"
  /\ \E token \in Tokens, kind \in Kinds \ {"provision", "bootstrap"},
        target \in Accounts, complete \in BOOLEAN :
       /\ kind # "start" \/ ~complete => target = (CHOOSE a \in Accounts : TRUE)
       /\ kind # "start" => complete
       /\ SyncUser(token.user, token.tenant)
       /\ req' = [req EXCEPT ![w] = Admission(token, kind, target, complete)]
       /\ Goto(w, IF users[token.user].class = "OPERATOR" THEN "find_grant" ELSE "roles")
  /\ UNCHANGED <<people, grantTables, webhook, now, tx>>

(* The AuthContext of an operator: AGENCY-shaped under an active grant of  *)
(* the operator's own tenant.                                              *)
OperatorContext(u, tenant) ==
  LET mine == {g \in ActiveGrants(u) : grants[g].tenant = tenant} IN
  IF mine = {} THEN NoContext
  ELSE LET g == CHOOSE x \in mine : TRUE
       IN [class |-> "AGENCY", account |-> grants[g].account, impersonating |-> TRUE,
           grant |-> g]

FindGrant(w) ==
  /\ pc[w] = "find_grant"
  /\ req' = [req EXCEPT ![w].ctx = OperatorContext(req[w].user, req[w].row.tenant)]
  /\ Goto(w, "roles")
  /\ UNCHANGED <<people, grantTables, webhook, now, tx>>

(* RolesGuard, and the checks the handler makes before its first query.    *)
(* Roles and membership are written once, with the user or by the          *)
(* bootstrap, so their two queries are one step.                           *)
Authorize(w) ==
  /\ pc[w] = "roles"
  /\ LET u == req[w].user IN
     IF ~Granted(req[w].ctx, rights[u].roles, rights[u].account, NoAccount,
                 RequiredBy(req[w].kind))
     THEN Finish(w)
     ELSE IF req[w].kind = "start" /\ req[w].ctx.impersonating
          THEN Finish(w)
          ELSE /\ Goto(w, CASE req[w].kind \in {"search", "confirm"} -> "serve"
                            [] req[w].kind = "stop" -> "stop_connect"
                            [] req[w].kind = "start" ->
                                 IF req[w].complete THEN "lookup" ELSE "reject")
               /\ UNCHANGED <<req, tx>>
  /\ UNCHANGED <<people, grantTables, webhook, now>>

Serve(w) ==
  /\ pc[w] = "serve"
  /\ Finish(w)
  /\ UNCHANGED <<people, grantTables, webhook, now>>

(* The target must be an AGENCY account of the operator's tenant.          *)
LookupAccount(w) ==
  /\ pc[w] = "lookup"
  /\ Goto(w, IF AccountRow[req[w].target] = [type |-> "AGENCY", tenant |-> req[w].row.tenant]
             THEN "connect" ELSE "reject")
  /\ UNCHANGED <<people, grantTables, webhook, now, req, tx>>

BeginStart(w) ==
  /\ pc[w] = "connect"
  /\ Connect(w, "find_unended")
  /\ UNCHANGED <<people, grantTables, webhook, now>>

(* An un-ended grant stands in the way until it has expired by the         *)
(* service's clock; ROLLBACK keeps the connection checked out.             *)
FindUnended(w) ==
  /\ pc[w] = "find_unended"
  /\ IF OpenGrants(req[w].user) = {}
     THEN Goto(w, "insert_grant") /\ UNCHANGED <<req, tx>>
     ELSE LET g == CHOOSE x \in OpenGrants(req[w].user) : TRUE IN
          IF grants[g].expires <= now
          THEN /\ req' = [req EXCEPT ![w].grant = g]
               /\ Goto(w, "end_expired")
               /\ UNCHANGED tx
          ELSE /\ tx' = [tx EXCEPT ![w] = [NoTx EXCEPT !.state = "held"]]
               /\ Goto(w, "reject")
               /\ UNCHANGED req
  /\ UNCHANGED <<people, grantTables, webhook, now>>

(* A start audits the end of the grant it had found, a stop the end of the *)
(* grant its UPDATE returned.                                              *)
Audited(w, g) == IF req[w].kind = "stop" THEN g ELSE req[w].grant

(* now() of the transaction must not be before the grant's started_at.     *)
EndNow(w, g, next) ==
  IF g # NoGrant /\ grants[g].started > tx[w].at
  THEN Finish(w)
  ELSE /\ tx' = [tx EXCEPT ![w].ends = g, ![w].ended = Audited(w, g)]
       /\ req' = [req EXCEPT ![w].waits = NoGrant]
       /\ Goto(w, next)

(* The UPDATE of repository.end picks the actor's un-ended grant, whichever *)
(* that is by now.  If another transaction holds the row it waits, looks at *)
(* the same row again, and then updates it or nothing.                     *)
EndGrant(w, waiting, next) ==
  LET open == OpenGrants(req[w].user)
      g == IF open = {} THEN NoGrant ELSE CHOOSE x \in open : TRUE
  IN IF GrantHeld(w, g)
     THEN /\ Goto(w, waiting)
          /\ req' = [req EXCEPT ![w].waits = g]
          /\ UNCHANGED tx
     ELSE EndNow(w, g, next)

EndGrantAfterWait(w, next) ==
  LET g == IF grants[req[w].waits].state = "OPEN" THEN req[w].waits ELSE NoGrant IN
  /\ ~GrantHeld(w, req[w].waits)
  /\ EndNow(w, g, next)

EndExpired(w) ==
  /\ pc[w] = "end_expired"
  /\ EndGrant(w, "end_expired_wait", "insert_grant")
  /\ UNCHANGED <<people, grantTables, webhook, now>>

EndExpiredAfterWait(w) ==
  /\ pc[w] = "end_expired_wait"
  /\ EndGrantAfterWait(w, "insert_grant")
  /\ UNCHANGED <<people, grantTables, webhook, now>>

(* Mutant of InsertGrant: no unique index, only the SELECT before it.      *)
InsertGrantUnindexed(w) ==
  /\ pc[w] = "insert_grant"
  /\ \E g \in GrantIds :
       /\ grants[g].state = "FREE" /\ \A v \in Others(w) : tx[v].grant # g
       /\ tx' = [tx EXCEPT ![w].grant = g,
                   ![w].value = [state |-> "OPEN", actor |-> req[w].user,
                                 account |-> req[w].target,
                                 tenant |-> req[w].row.tenant, started |-> tx[w].at,
                                 expires |-> now + TTL, reason |-> "NONE"]]
  /\ Goto(w, "commit_start")
  /\ UNCHANGED <<people, grantTables, webhook, now, req>>

(* The partial unique index admits one un-ended grant per actor: the       *)
(* INSERT waits for a transaction that is inserting or ending one, and     *)
(* fails when one is there (or when GrantIds, the bound on grants, is      *)
(* spent, like any statement that fails).                                  *)
InsertGrant(w) ==
  LET u == req[w].user
      fresh == {g \in GrantIds : grants[g].state = "FREE" /\ \A v \in Others(w) : tx[v].grant # g}
  IN /\ pc[w] = "insert_grant"
     /\ \A v \in Others(w) : tx[v].value.actor # u
     /\ \A g \in OpenGrants(u) : ~GrantHeld(w, g)
     /\ IF OpenGrants(u) \subseteq {tx[w].ends} /\ fresh # {}
        THEN /\ \E g \in fresh :
                  tx' = [tx EXCEPT ![w].grant = g,
                           ![w].value = [state |-> "OPEN", actor |-> u,
                                         account |-> req[w].target,
                                         tenant |-> req[w].row.tenant, started |-> tx[w].at,
                                         expires |-> now + TTL, reason |-> "NONE"]]
             /\ Goto(w, "commit_start")
             /\ UNCHANGED req
        ELSE Finish(w)
     /\ UNCHANGED <<people, grantTables, webhook, now>>

(* The request is answered 500 when the COMMIT is not acknowledged.        *)
CommitStart(w) ==
  /\ pc[w] = "commit_start"
  /\ Publish(w)
  /\ Finish(w)
  /\ UNCHANGED <<auth0, inDoubt, webhook, now>>

(* emitRejection takes a connection of its own, while a conflicting start  *)
(* still holds one.  Whether its audit event is written does not matter to *)
(* the caller, but a connection that does not come within five seconds     *)
(* turns the refusal into a 500.                                           *)
Reject(w) ==
  /\ pc[w] = "reject"
  /\ Finish(w)
  /\ UNCHANGED <<people, grantTables, webhook, now>>

BeginStop(w) ==
  /\ pc[w] = "stop_connect"
  /\ Connect(w, "end_open")
  /\ UNCHANGED <<people, grantTables, webhook, now>>

EndOpen(w) ==
  /\ pc[w] = "end_open"
  /\ EndGrant(w, "end_open_wait", "commit_stop")
  /\ UNCHANGED <<people, grantTables, webhook, now>>

EndOpenAfterWait(w) ==
  /\ pc[w] = "end_open_wait"
  /\ EndGrantAfterWait(w, "commit_stop")
  /\ UNCHANGED <<people, grantTables, webhook, now>>

CommitStop(w) ==
  /\ pc[w] = "commit_stop"
  /\ Publish(w)
  /\ Finish(w)
  /\ UNCHANGED <<auth0, inDoubt, webhook, now>>

GuardStep(w) == FindGrant(w) \/ Authorize(w) \/ Serve(w)

StartStep(w) ==
  \/ LookupAccount(w) \/ BeginStart(w) \/ FindUnended(w) \/ EndExpired(w)
  \/ EndExpiredAfterWait(w) \/ InsertGrant(w) \/ CommitStart(w) \/ Reject(w)

StopStep(w) == BeginStop(w) \/ EndOpen(w) \/ EndOpenAfterWait(w) \/ CommitStop(w)
=============================================================================
