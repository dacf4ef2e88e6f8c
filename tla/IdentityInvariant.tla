-------------------------- MODULE IdentityInvariant --------------------------
(***************************************************************************)
(* The inductive invariant of Identity.  The properties of the tables rest *)
(* on what a request has read, or staged, some awaits before it writes or  *)
(* is served; this says what of that is still so.                          *)
(***************************************************************************)
EXTENDS Identity

StartSteps == {"lookup", "connect", "find_unended", "end_expired", "end_expired_wait",
               "insert_grant", "commit_start", "reject"}

StopSteps == {"stop_connect", "end_open", "end_open_wait", "commit_stop"}

ProvisionSteps == {"create_auth0", "insert_user", "commit_user", "compensate"}

BootstrapSteps == {"ensure_find", "ensure_user", "ensure_role", "commit_ensure"}

GuardedSteps == {"find_grant", "roles", "serve"} \cup StartSteps \cup StopSteps

(* The statements of the request of w come in the order of its handler.    *)
Placed(w) ==
  /\ pc[w] \in {"find_grant", "roles"} => req[w].kind \in {"search", "confirm", "start", "stop"}
  /\ pc[w] = "serve" => req[w].kind \in {"search", "confirm"}
  /\ pc[w] \in StartSteps => req[w].kind = "start"
  /\ pc[w] \in StopSteps => req[w].kind = "stop"
  /\ pc[w] \in ProvisionSteps => req[w].kind = "provision"
  /\ pc[w] \in BootstrapSteps => req[w].kind = "bootstrap"
  /\ pc[w] # "idle" => req[w].user \in Users

(* What the transaction of w has staged when.                              *)
Staged(w) ==
  /\ tx[w].user # NoUser =>
       pc[w] \in {"commit_user", "ensure_role", "commit_ensure"} /\ tx[w].user = req[w].user
  /\ tx[w].owner # NoUser =>
       pc[w] \in {"commit_user", "commit_ensure"} /\ tx[w].owner = req[w].user
  /\ tx[w].ends # NoGrant => pc[w] \in {"insert_grant", "commit_start", "commit_stop"}
  /\ tx[w].ended # NoGrant => pc[w] \in {"insert_grant", "commit_start", "commit_stop"}
  /\ pc[w] = "commit_stop" => tx[w].ended = tx[w].ends
  /\ tx[w].grant # NoGrant <=> pc[w] = "commit_start"
  /\ tx[w].grant = NoGrant => tx[w].value.actor = NoUser

(* The row and the rights a provisioning or a bootstrap will write.        *)
Ordered(w) ==
  /\ pc[w] \in ProvisionSteps => req[w].row.status = "ACTIVE" /\ Fits(req[w].row, req[w].rights)
  /\ pc[w] = "commit_user" => /\ tx[w].user = req[w].user /\ tx[w].row = req[w].row
                              /\ tx[w].owner = req[w].user /\ tx[w].rights = req[w].rights
  /\ tx[w].user # NoUser => tx[w].row.status = "ACTIVE"
  /\ pc[w] = "ensure_find" => req[w].row.class = "OPERATOR"

(* The grant a start has staged: its id is not used, and nobody else can   *)
(* give the actor a grant before it commits.                               *)
Starting(w) ==
  tx[w].grant # NoGrant =>
    /\ grants[tx[w].grant].state = "FREE"
    /\ tx[w].value.state = "OPEN" /\ tx[w].value.reason = "NONE"
    /\ tx[w].value.actor = req[w].user /\ tx[w].value.tenant = req[w].row.tenant
    /\ OpenGrants(req[w].user) \subseteq {tx[w].ends}
    /\ \A v \in Others(w) : tx[v].grant # tx[w].grant /\ tx[v].value.actor # req[w].user

(* The grant a transaction ends is still open and it alone holds the row;  *)
(* the grant it will audit is that one, or has ended without it.           *)
Ending(w) ==
  /\ tx[w].ends # NoGrant =>
       /\ grants[tx[w].ends].state = "OPEN" /\ grants[tx[w].ends].actor = req[w].user
       /\ \A v \in Others(w) : tx[v].ends # tx[w].ends
  /\ tx[w].ended # NoGrant =>
       tx[w].ended = tx[w].ends \/ grants[tx[w].ended].state = "ENDED"

(* The grants a request has found, or waits for, are of its actor; and a   *)
(* start that waits for another grant than it had found, found one that    *)
(* has ended.                                                              *)
Found(w) ==
  LET ofActor(g) == g \in GrantIds /\ grants[g].state # "FREE" /\ grants[g].actor = req[w].user
  IN /\ pc[w] \in {"end_expired", "end_expired_wait"} => ofActor(req[w].grant)
     /\ pc[w] \in {"end_expired_wait", "end_open_wait"} => ofActor(req[w].waits)
     /\ pc[w] = "end_expired_wait" =>
          req[w].grant = req[w].waits \/ grants[req[w].grant].state = "ENDED"

GrantsInv == GrantHistory /\ \A w \in Workers : Starting(w) /\ Ending(w) /\ Found(w)

(* The row a transaction has staged, and it alone, keeps the class and the *)
(* tenant of the row that is there.                                        *)
RowStaged(w) ==
  LET u == tx[w].user IN
  u # NoUser =>
    /\ \A v \in Others(w) : tx[v].user # u
    /\ Exists(u) => tx[w].row.class = users[u].class /\ tx[w].row.tenant = users[u].tenant
    /\ pc[w] = "commit_user" => ~Exists(u)
    /\ pc[w] # "commit_user" /\ ~Exists(u) => tx[w].row.class = "OPERATOR"

(* The rights a transaction has staged, and it alone, are those of a user  *)
(* that is there or comes with it.                                         *)
RightsStaged(w) ==
  LET u == tx[w].owner IN
  u # NoUser =>
    /\ \A v \in Others(w) : tx[v].owner # u
    /\ Exists(u) \/ tx[w].user = u
    /\ pc[w] = "commit_ensure" =>
         tx[w].rights = [rights[u] EXCEPT !.roles = @ \cup {"platform_admin"}]

(* What the bootstrap has read still holds, but for the status of the row  *)
(* and the role.                                                           *)
BootstrapRead(w) ==
  LET u == req[w].user
      row == req[w].row
  IN /\ pc[w] = "ensure_user" =>
          IF row.status = "ABSENT" THEN row.class = "OPERATOR"
          ELSE Exists(u) /\ row.class = users[u].class /\ row.tenant = users[u].tenant
     /\ pc[w] = "ensure_role" =>
          (Exists(u) \/ tx[w].user = u) /\ req[w].rights.roles \subseteq rights[u].roles
     /\ pc[w] = "commit_ensure" /\ tx[w].owner = NoUser => "platform_admin" \in rights[u].roles

Whole(u) == IF Exists(u) THEN Fits(users[u], rights[u]) ELSE rights[u] = NoRights

UsersInv ==
  /\ \A u \in Users : Whole(u)
  /\ \A w \in Workers : RowStaged(w) /\ RightsStaged(w) /\ BootstrapRead(w)

(* Grants are of operators, and of their tenant.                           *)
GrantOfOperator(g) ==
  LET u == grants[g].actor IN
  grants[g].state # "FREE" =>
    /\ u \in Users /\ Exists(u)
    /\ users[u].class = "OPERATOR" /\ users[u].tenant = grants[g].tenant

(* What the guard has read of the user still holds, but for the status and *)
(* the roles; only operators get as far as the handlers of impersonation.  *)
Admitted(w) ==
  LET u == req[w].user
      row == req[w].row
  IN /\ pc[w] \in GuardedSteps =>
          Exists(u) /\ row.class = users[u].class /\ row.tenant = users[u].tenant
     /\ pc[w] \in {"find_grant"} \cup StartSteps \cup StopSteps => row.class = "OPERATOR"
     /\ pc[w] = "roles" /\ row.class = "AGENCY" =>
          req[w].ctx.class = "AGENCY" /\ ~req[w].ctx.impersonating

(* What was so when the request began, and the grant it is judged under.   *)
Judged(w) ==
  LET ctx == req[w].ctx IN
  /\ pc[w] \in {"find_grant", "roles", "serve"} =>
       /\ \A g \in req[w].past : grants[g].state = "ENDED"
       /\ \A g \in req[w].open : grants[g].state # "FREE" /\ grants[g].actor = req[w].user
  /\ pc[w] \in {"roles", "serve"} =>
       /\ ctx.impersonating => ctx.grant \notin req[w].past
       /\ \A g \in req[w].open : g \in ActiveGrants(req[w].user) => ctx.grant = g
  /\ pc[w] = "serve" /\ ctx.impersonating => req[w].kind # "confirm"

GuardInv ==
  /\ \A g \in GrantIds : GrantOfOperator(g)
  /\ \A w \in Workers : Admitted(w) /\ Judged(w)

(* Why a user may have no account at Auth0.                                *)
Excused(u) == u \in inDoubt \/ DeletedAtAuth0(u) \/ "platform_admin" \in rights[u].roles

(* The provisioning of w has created the account of u at Auth0, and may    *)
(* still delete it.                                                        *)
Claims(w, u) == pc[w] \in {"insert_user", "commit_user", "compensate"} /\ req[w].user = u

Auth0Inv ==
  \A u \in Users :
    /\ Exists(u) => u \in auth0 \/ Excused(u)
    /\ \A w \in Workers :
         Claims(w, u) =>
           /\ u \in auth0 \/ DeletedAtAuth0(u)
           /\ pc[w] # "commit_user" /\ Exists(u) => Excused(u)
           /\ \A v \in Others(w) : Claims(v, u) => DeletedAtAuth0(u)

EventsInv ==
  /\ EventsAppliedOnce
  /\ \A i \in DOMAIN applied, u \in Users :
       AboutStatus(applied[i], u) /\ applied[i] \notin unmatched => Exists(u)

Inductive ==
  /\ TypeOK
  /\ \A w \in Workers : Placed(w) /\ Staged(w) /\ Ordered(w)
  /\ GrantsInv /\ UsersInv /\ GuardInv /\ Auth0Inv /\ EventsInv
=============================================================================
