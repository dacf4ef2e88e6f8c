------------------------------- MODULE Identity -------------------------------
(***************************************************************************)
(* Authentication as a whole: guarded requests and impersonation sessions, *)
(* the Auth0 webhook, provisioning and the bootstrap, over one set of      *)
(* tables.                                                                 *)
(***************************************************************************)
EXTENDS Impersonation, UserSync

WorkerStep(w) ==
  GuardStep(w) \/ StartStep(w) \/ StopStep(w) \/ ProvisionStep(w) \/ BootstrapStep(w)

Next ==
  \/ \E w \in Workers :
       \/ Authenticate(w) \/ RequestProvisioning(w) \/ RequestBootstrap(w)
       \/ GuardStep(w) \/ StartStep(w) \/ StopStep(w)
       \/ ProvisionStep(w) \/ BootstrapStep(w) \/ RequestFails(w)
  \/ \E l \in LogIds : Emit(l) \/ WebhookStep(l)
  \/ Tick

Spec == Init /\ [][Next]_vars

(* The event loop runs the next step of every request it has begun, and    *)
(* PostgreSQL wakes a waiter when the transaction it waits for ends, so    *)
(* nobody is overtaken for ever (strong fairness).  Nothing is assumed     *)
(* about failures, the clock or Auth0.                                     *)
FairSpec == Spec /\ \A w \in Workers : SF_vars(WorkerStep(w))
-----------------------------------------------------------------------------
(* ImpersonationService and the partial unique index: an actor has at most *)
(* one un-ended grant; a grant is audited as started exactly once, in the  *)
(* transaction that inserts it, whatever fails or races; it is audited as  *)
(* ended only once it has ended; and a grant an operator stopped has that  *)
(* in the log.  (A grant ended as EXPIRED may not: see the README.)        *)
GrantHistory ==
  /\ \A u \in Users : \A g, h \in OpenGrants(u) : g = h
  /\ \A g \in GrantIds :
       /\ auditLog[g].STARTED = IF grants[g].state = "FREE" THEN 0 ELSE 1
       /\ auditLog[g].ENDED > 0 => grants[g].state = "ENDED"
       /\ grants[g].reason = "OPERATOR_ENDED" => auditLog[g].ENDED > 0

(* JwtAuthGuard and PermissionResolverService: nothing is confirmed under  *)
(* a grant, a request is not served under a grant that had ended when the  *)
(* request began (a stop that was answered holds for every later request), *)
(* and while one grant stays active, its operator is never served with     *)
(* powers of the operator's own.                                           *)
ServedUnderTheGrant ==
  [][\A w \in Workers :
       pc[w] = "serve" /\ pc'[w] = "idle" =>
         /\ req[w].ctx.impersonating =>
              req[w].kind # "confirm" /\ req[w].ctx.grant \notin req[w].past
         /\ \A g \in req[w].open : g \in ActiveGrants(req[w].user) => req[w].ctx.grant = g]_vars

DeletedAtAuth0(u) ==
  \E i \in DOMAIN emitted : EventOf[emitted[i]].user = u /\ EventOf[emitted[i]].type = "sd"

(* UserProvisioningService and BootstrapPlatformAdminService: a user, the  *)
(* user's roles and the membership are there together or not at all, and   *)
(* fit the user's class (the bootstrap alone does not look at the class).  *)
(* A committed user keeps the Auth0 account: the compensation deletes one  *)
(* only after a COMMIT whose answer was lost, or when a bootstrap created  *)
(* the row in between.                                                     *)
ProvisionedWhole ==
  \A u \in Users :
    IF ~Exists(u) THEN rights[u] = NoRights
    ELSE /\ Fits(users[u], rights[u])
         /\ u \in auth0 \cup inDoubt \/ DeletedAtAuth0(u) \/ "platform_admin" \in rights[u].roles

(* Event l says something about the status of user u.                      *)
AboutStatus(l, u) == EventOf[l].user = u /\ EffectOf(EventOf[l]) # "NONE"

(* Auth0EventHandlerService: however often Auth0 delivers an event, it is  *)
(* applied once; and unless it came before the user's row, or the          *)
(* bootstrap reactivated the user, the status of a user is what the last   *)
(* of the user's status events to be applied says it is.                   *)
EventsAppliedOnce ==
  /\ IsInjective(applied) /\ ToSet(applied) = ledger
  /\ \A u \in Users : \A i \in DOMAIN applied :
       LET e == EventOf[applied[i]] IN
       /\ AboutStatus(applied[i], u) /\ applied[i] \notin unmatched
       /\ \A j \in DOMAIN applied : AboutStatus(applied[j], u) => j <= i
       /\ "platform_admin" \notin rights[u].roles
       => users[u].status = IF e.type = "sapi" /\ "unblock user" \in e.says
                            THEN "ACTIVE" ELSE "DEACTIVATED"

(* Every request is answered: no queue for a row or for a unique value     *)
(* lasts, whichever requests fail while others wait for what they hold.    *)
EveryRequestAnswered == \A w \in Workers : (pc[w] # "idle") ~> (pc[w] = "idle")

(* docs/adr/ADR-027: IMPERSONATION_ENDED is emitted on the row update that *)
(* sets ended_at, hence exactly once for every grant that has ended.       *)
EveryEndIsAudited ==
  \A g \in GrantIds : grants[g].state = "ENDED" => auditLog[g].ENDED = 1
=============================================================================
