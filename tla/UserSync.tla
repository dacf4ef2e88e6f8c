------------------------------- MODULE UserSync -------------------------------
(***************************************************************************)
(* How core_user follows Auth0: the webhook that applies Auth0's log       *)
(* events, the provisioning of a user (Auth0 first, then the database, and *)
(* a compensating delete when the database fails), and the bootstrap of    *)
(* the platform administrator.                                             *)
(***************************************************************************)
EXTENDS IdentityStore, SequencesExt
-----------------------------------------------------------------------------
(* Auth0 logs an event about one of its users (whom "sd" deletes) and owes *)
(* its delivery.                                                           *)
Emit(l) ==
  /\ ~Contains(emitted, l)
  /\ EventOf[l].user \in auth0
  /\ emitted' = Append(emitted, l)
  /\ pending' = pending \cup {l}
  /\ auth0' = IF EventOf[l].type = "sd" THEN auth0 \ {EventOf[l].user} ELSE auth0
  /\ UNCHANGED <<ledger, unmatched, applied, users, rights, inDoubt, grantTables, now,
                 pc, req, tx>>

(* Mutant of EffectOf: "block user" is looked for first.                   *)
EffectBlockFirst(e) ==
  CASE e.type = "sd" -> "DEACTIVATED"
    [] e.type = "sapi" /\ "block user" \in e.says -> "DEACTIVATED"
    [] e.type = "sapi" /\ "unblock user" \in e.says \ {"block user"} -> "ACTIVE"
    [] e.type = "sapi" /\ e.says \cap {"unblock user", "block user"} = {} -> "NONE"
    [] e.type \notin {"sd", "sapi"} -> "NONE"

(* What the event says about the user's status.  says: the words of its    *)
(* description; "unblock user" contains "block user" and is looked for     *)
(* first.  E-mail and name changes touch no column modelled here.          *)
EffectOf(e) ==
  CASE e.type = "sd" -> "DEACTIVATED"
    [] e.type = "sapi" /\ "unblock user" \in e.says -> "ACTIVE"
    [] e.type = "sapi" /\ "unblock user" \notin e.says /\ "block user" \in e.says -> "DEACTIVATED"
    [] e.type = "sapi" /\ e.says \cap {"unblock user", "block user"} = {} -> "NONE"
    [] e.type \notin {"sd", "sapi"} -> "NONE"

(* Mutant of HandleEntry: an event that matches no user is not recorded.   *)
HandleEntryUnrecorded(l) ==
  LET u == EventOf[l].user
      status == EffectOf(EventOf[l])
  IN /\ l \in pending /\ l \notin ledger
     /\ \A w \in Workers : tx[w].user # u
     /\ IF status # "NONE" /\ Exists(u)
        THEN /\ users' = [users EXCEPT ![u].status = status]
             /\ ledger' = ledger \cup {l}
             /\ UNCHANGED unmatched
        ELSE /\ UNCHANGED <<users, ledger>>
             /\ unmatched' = unmatched \cup (IF status = "NONE" THEN {} ELSE {l})
     /\ applied' = Append(applied, l)
     /\ UNCHANGED <<pending, emitted, rights, auth0, inDoubt, grantTables, now, pc, req, tx>>

(* One entry of a batch, in its own transaction: the ledger row and the    *)
(* UPDATE of a user row nobody holds.  The UPDATE of a user that is not    *)
(* there (yet) matches nothing, and the event counts as applied.           *)
HandleEntry(l) ==
  LET u == EventOf[l].user
      status == EffectOf(EventOf[l])
  IN /\ l \in pending /\ l \notin ledger
     /\ \A w \in Workers : tx[w].user # u
     /\ ledger' = ledger \cup {l}
     /\ applied' = Append(applied, l)
     /\ IF status # "NONE" /\ Exists(u)
        THEN users' = [users EXCEPT ![u].status = status] /\ UNCHANGED unmatched
        ELSE UNCHANGED users /\ unmatched' = unmatched \cup (IF status = "NONE" THEN {} ELSE {l})
     /\ UNCHANGED <<pending, emitted, rights, auth0, inDoubt, grantTables, now,
                    pc, req, tx>>

(* The batch is acknowledged with 200, also for an entry that was recorded *)
(* by an earlier delivery, or whose transaction failed, or that came under *)
(* a signature that did not verify (401 is not retried either).  Until     *)
(* then, and after a 5xx or a lost answer, Auth0 delivers it again.        *)
Acknowledge(l) ==
  /\ l \in pending
  /\ pending' = pending \ {l}
  /\ UNCHANGED <<ledger, unmatched, applied, emitted, people, grantTables, now, pc, req, tx>>
-----------------------------------------------------------------------------
(* provisionOperator and provisionAgencyUser refuse a request without      *)
(* roles, with a role of the other class, or for an agency user without    *)
(* an account.                                                             *)
ValidProvisioning(class, held, account) ==
  /\ held # {}
  /\ held \subseteq (IF class = "OPERATOR" THEN OperatorRoles ELSE AgencyRoles)
  /\ class = "AGENCY" => account # NoAccount

RequestProvisioning(w) ==
  /\ pc[w] = "idle"
  /\ \E o \in Orders :
       /\ ValidProvisioning(o.row.class, o.rights.roles, o.rights.account)
       /\ req' = [req EXCEPT ![w] = [NoRequest EXCEPT !.kind = "provision", !.user = o.user,
                                       !.row = [o.row EXCEPT !.status = "ACTIVE"],
                                       !.rights = o.rights]]
  /\ Goto(w, "create_auth0")
  /\ UNCHANGED <<people, grantTables, webhook, now, tx>>

(* createUser: Auth0 refuses an e-mail it has (409), or fails, or creates  *)
(* the user and the answer is lost or names no user_id; then nobody knows  *)
(* what to delete.                                                         *)
CreateAuth0User(w) ==
  LET u == req[w].user IN
  /\ pc[w] = "create_auth0"
  /\ \/ u \in auth0 /\ Finish(w) /\ UNCHANGED auth0
     \/ Finish(w) /\ UNCHANGED auth0
     \/ u \notin auth0 /\ auth0' = auth0 \cup {u} /\ Finish(w)
     \/ /\ u \notin auth0
        /\ auth0' = auth0 \cup {u}
        /\ Goto(w, "insert_user")
        /\ UNCHANGED <<req, tx>>
  /\ UNCHANGED <<users, rights, inDoubt, grantTables, webhook, now>>

(* Mutant of InsertUser: the INSERT of core_user commits on its own.       *)
InsertUserAlone(w) ==
  LET u == req[w].user IN
  /\ pc[w] = "insert_user"
  /\ ~UserHeld(w, u)
  /\ \/ /\ ~Exists(u) /\ FreeConnections > 0
        /\ users' = [users EXCEPT ![u] = req[w].row]
        /\ tx' = [tx EXCEPT ![w] = [NoTx EXCEPT !.state = "open", !.at = now,
                                      !.owner = u, !.rights = req[w].rights]]
        /\ Goto(w, "commit_user")
     \/ Goto(w, "compensate") /\ UNCHANGED <<users, tx>>
  /\ UNCHANGED <<rights, auth0, inDoubt, grantTables, webhook, now, req>>

(* runProvisionTx: BEGIN, core_user, membership, one user_role per role.   *)
(* auth0_sub is unique: the INSERT waits for one that is under way, and    *)
(* fails if the row is there, or for any other reason.                     *)
InsertUser(w) ==
  LET u == req[w].user IN
  /\ pc[w] = "insert_user"
  /\ ~UserHeld(w, u)
  /\ \/ /\ ~Exists(u) /\ FreeConnections > 0
        /\ tx' = [tx EXCEPT ![w] = [NoTx EXCEPT !.state = "open", !.at = now, !.user = u,
                                      !.row = req[w].row, !.owner = u, !.rights = req[w].rights]]
        /\ Goto(w, "commit_user")
     \/ Goto(w, "compensate") /\ UNCHANGED tx
  /\ UNCHANGED <<people, grantTables, webhook, now, req>>

CommitUser(w) ==
  /\ pc[w] = "commit_user"
  /\ \/ /\ Publish(w)
        /\ Finish(w)
        /\ UNCHANGED inDoubt
     \/ /\ Publish(w)                           \* committed, but the answer is lost
        /\ inDoubt' = inDoubt \cup {req[w].user}
        /\ Goto(w, "compensate") /\ tx' = [tx EXCEPT ![w] = NoTx] /\ UNCHANGED req
     \/ /\ Goto(w, "compensate") /\ tx' = [tx EXCEPT ![w] = NoTx]
        /\ UNCHANGED <<users, rights, grantTables, inDoubt, req>>
  /\ UNCHANGED <<auth0, webhook, now>>

(* The compensating delete; its failure is only logged.                    *)
Compensate(w) ==
  /\ pc[w] = "compensate"
  /\ auth0' \in {auth0, auth0 \ {req[w].user}}
  /\ Finish(w)
  /\ UNCHANGED <<users, rights, inDoubt, grantTables, webhook, now>>
-----------------------------------------------------------------------------
(* BootstrapPlatformAdminService.ensure, for an identity Auth0 holds.      *)
RequestBootstrap(w) ==
  /\ pc[w] = "idle"
  /\ \E u \in auth0, t \in Tenants :
       req' = [req EXCEPT ![w] =
                 [NoRequest EXCEPT !.kind = "bootstrap", !.user = u,
                    !.row = [status |-> "ACTIVE", class |-> "OPERATOR", tenant |-> t]]]
  /\ Goto(w, "ensure_find")
  /\ UNCHANGED <<people, grantTables, webhook, now, tx>>

EnsureFind(w) ==
  /\ pc[w] = "ensure_find"
  /\ IF FreeConnections > 0
     THEN /\ tx' = [tx EXCEPT ![w] = [NoTx EXCEPT !.state = "open", !.at = now]]
          /\ req' = [req EXCEPT ![w].row =
                       IF Exists(req[w].user) THEN users[req[w].user]
                       ELSE [@ EXCEPT !.status = "ABSENT"]]
          /\ Goto(w, "ensure_user")
     ELSE Finish(w)
  /\ UNCHANGED <<people, grantTables, webhook, now>>

(* The row it found absent is inserted (and the INSERT fails if somebody   *)
(* else inserted it since), the one it found deactivated is reactivated,   *)
(* and the active roles are read.                                          *)
EnsureUser(w) ==
  LET u == req[w].user
      found == req[w].row.status
  IN /\ pc[w] = "ensure_user"
     /\ found # "ACTIVE" => ~UserHeld(w, u)
     /\ IF found = "ABSENT" /\ Exists(u)
        THEN Finish(w)
        ELSE /\ tx' = [tx EXCEPT ![w].user = IF found = "ACTIVE" THEN NoUser ELSE u,
                                 ![w].row = [req[w].row EXCEPT !.status = "ACTIVE"]]
             /\ req' = [req EXCEPT ![w].rights = rights[u]]
             /\ Goto(w, "ensure_role")
     /\ UNCHANGED <<people, grantTables, webhook, now>>

(* The self-grant is inserted if it was not there; its unique index makes  *)
(* the INSERT wait for another one under way, and fail after it.           *)
EnsureRole(w) ==
  LET u == req[w].user IN
  /\ pc[w] = "ensure_role"
  /\ IF "platform_admin" \in req[w].rights.roles
     THEN Goto(w, "commit_ensure") /\ UNCHANGED <<req, tx>>
     ELSE /\ ~RightsHeld(w, u)
          /\ IF "platform_admin" \in rights[u].roles
             THEN Finish(w)
             ELSE /\ tx' = [tx EXCEPT ![w].owner = u,
                              ![w].rights = [rights[u] EXCEPT !.roles = @ \cup {"platform_admin"}]]
                  /\ Goto(w, "commit_ensure")
                  /\ UNCHANGED req
  /\ UNCHANGED <<people, grantTables, webhook, now>>

CommitEnsure(w) ==
  /\ pc[w] = "commit_ensure"
  /\ Publish(w)
  /\ Finish(w)
  /\ UNCHANGED <<auth0, inDoubt, webhook, now>>

WebhookStep(l) == HandleEntry(l) \/ Acknowledge(l)

ProvisionStep(w) == CreateAuth0User(w) \/ InsertUser(w) \/ CommitUser(w) \/ Compensate(w)

BootstrapStep(w) == EnsureFind(w) \/ EnsureUser(w) \/ EnsureRole(w) \/ CommitEnsure(w)
=============================================================================
