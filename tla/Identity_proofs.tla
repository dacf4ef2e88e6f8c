--------------------------- MODULE Identity_proofs ---------------------------
(***************************************************************************)
(* The invariant of IdentityInvariant is inductive, so what Identity says  *)
(* of grants, of served requests, of provisioned users and of Auth0's      *)
(* events holds for every value of the constants.                          *)
(***************************************************************************)
EXTENDS IdentityInvariant, TLAPS

LEMMA NullsTyped ==
  /\ NoTx \in Tx /\ NoRequest \in Request /\ FreeGrant \in Grant
  /\ SomeRow \in UserRow /\ NoRights \in Rights /\ NoContext \in AuthContext
<1>1. (CHOOSE t \in Tenants : TRUE) \in Tenants
  BY SeedAssumption
<1>2. SomeRow \in UserRow
  BY <1>1 DEF SomeRow, UserRow, Classes
<1>3. NoRights \in Rights
  BY DEF NoRights, Rights
<1>4. FreeGrant \in Grant
  BY DEF FreeGrant, Grant
<1>5. NoContext \in AuthContext
  BY DEF NoContext, AuthContext, Classes
<1>6. NoTx \in Tx
  BY <1>2, <1>3, <1>4 DEF NoTx, Tx
<1>7. NoRequest \in Request
  BY <1>2, <1>3, <1>5 DEF NoRequest, Request, Kinds
<1> QED
  BY <1>2, <1>3, <1>4, <1>5, <1>6, <1>7

THEOREM InitTyped == Init => TypeOK
<1> SUFFICES ASSUME Init PROVE TypeOK
  OBVIOUS
<1> USE DEF Init
<1>1. users \in [Users -> UserRow] /\ rights \in [Users -> Rights]
  BY NullsTyped, SeedAssumption
<1>2. grants \in [GrantIds -> Grant]
  BY NullsTyped
<1>3. applied \in Seq(LogIds) /\ emitted \in Seq(LogIds)
  OBVIOUS
<1>4. auth0 \subseteq Users
  BY SeedAssumption
<1>5. pc \in [Workers -> Steps]
  BY DEF Steps
<1>6. req \in [Workers -> Request] /\ tx \in [Workers -> Tx]
  BY NullsTyped
<1> QED
  BY <1>1, <1>2, <1>3, <1>4, <1>5, <1>6 DEF TypeOK

(* The step is of w: the other requests are where they were.               *)
StepOf(w) ==
  /\ pc' \in [Workers -> Steps] /\ req' \in [Workers -> Request] /\ tx' \in [Workers -> Tx]
  /\ \A v \in Others(w) : pc'[v] = pc[v] /\ req'[v] = req[v] /\ tx'[v] = tx[v]

(* The tables a transaction can write.                                     *)
TablesTyped ==
  /\ users' \in [Users -> UserRow] /\ rights' \in [Users -> Rights]
  /\ grants' \in [GrantIds -> Grant]
  /\ auditLog' \in [GrantIds -> [STARTED : Nat, ENDED : Nat]]

LEMMA FinishOf ==
  ASSUME TypeOK, NEW w \in Workers, Finish(w)
  PROVE  StepOf(w)
BY NullsTyped DEF TypeOK, Finish, StepOf, Steps, Others

LEMMA PublishTyped ==
  ASSUME TypeOK, NEW w \in Workers, Publish(w)
  PROVE  TablesTyped
<1> DEFINE t == tx[w]
<1>0. t \in Tx
  BY DEF TypeOK
<1>1. users' \in [Users -> UserRow]
  BY <1>0 DEF TypeOK, Publish, Tx
<1>2. rights' \in [Users -> Rights]
  BY <1>0 DEF TypeOK, Publish, Tx
<1>3. grants' \in [GrantIds -> Grant]
  <2>1. \A g \in GrantIds :
          [grants[g] EXCEPT !.state = "ENDED",
             !.reason = IF req[w].kind = "stop" THEN "OPERATOR_ENDED" ELSE "EXPIRED"] \in Grant
    BY DEF TypeOK, Grant
  <2>2. t.value \in Grant /\ \A g \in GrantIds : grants[g] \in Grant
    BY <1>0 DEF Tx, TypeOK
  <2> DEFINE after(g) == IF g = t.grant THEN t.value
                         ELSE IF g = t.ends
                              THEN [grants[g] EXCEPT !.state = "ENDED", !.reason =
                                      IF req[w].kind = "stop" THEN "OPERATOR_ENDED" ELSE "EXPIRED"]
                              ELSE grants[g]
  <2>3. \A g \in GrantIds : after(g) \in Grant
    BY <2>1, <2>2
  <2>4. grants' = [g \in GrantIds |-> after(g)]
    BY Zenon DEF Publish
  <2> HIDE DEF after
  <2> QED
    BY <2>3, <2>4
<1>4. auditLog' \in [GrantIds -> [STARTED : Nat, ENDED : Nat]]
  <2> DEFINE after(g) == [STARTED |-> auditLog[g].STARTED + (IF g = t.grant THEN 1 ELSE 0),
                          ENDED   |-> auditLog[g].ENDED + (IF g = t.ended THEN 1 ELSE 0)]
  <2>1. \A g \in GrantIds : after(g) \in [STARTED : Nat, ENDED : Nat]
    BY DEF TypeOK
  <2>2. auditLog' = [g \in GrantIds |-> after(g)]
    BY Zenon DEF Publish
  <2> HIDE DEF after
  <2> QED
    BY <2>1, <2>2
<1> QED
  BY <1>1, <1>2, <1>3, <1>4 DEF TablesTyped

(* A step of w that leaves the tables well typed, and writes no others.    *)
LEMMA RequestTyped ==
  ASSUME TypeOK, NEW w \in Workers, StepOf(w), TablesTyped, auth0' \subseteq Users,
         inDoubt' \subseteq Users, UNCHANGED <<webhook, now>>
  PROVE  TypeOK'
BY DEF TypeOK, StepOf, TablesTyped, webhook

(* The steps that change nothing but the requests.                         *)
LEMMA QuietTyped ==
  ASSUME TypeOK, NEW w \in Workers, StepOf(w), UNCHANGED <<people, grantTables, webhook, now>>
  PROVE  TypeOK'
BY RequestTyped DEF TypeOK, TablesTyped, people, grantTables

LEMMA AdmissionTyped ==
  ASSUME TypeOK, NEW token \in Tokens, NEW kind \in Kinds, NEW target \in Accounts,
         NEW complete \in BOOLEAN
  PROVE  Admission(token, kind, target, complete) \in Request
<1>1. token.user \in Users /\ token.account \in Accounts \cup {NoAccount}
  BY InputAssumption
<1>2. users[token.user] \in UserRow
  BY <1>1 DEF TypeOK
<1>3. /\ Noted(kind, ActiveGrants(token.user)) \subseteq GrantIds
      /\ Noted(kind, EndedGrants) \subseteq GrantIds
  BY DEF Noted, ActiveGrants, OpenGrants, EndedGrants
<1>4. OwnContext(token) \in AuthContext
  BY <1>1, <1>2 DEF OwnContext, AuthContext, UserRow, NoContext
<1>5. NoRequest \in Request
  BY NullsTyped
<1> QED
  BY <1>1, <1>2, <1>3, <1>4, <1>5 DEF Admission, Request

LEMMA AuthenticateOf ==
  ASSUME TypeOK, NEW w \in Workers, Authenticate(w)
  PROVE  StepOf(w)
<1>1. PICK token \in Tokens, kind \in Kinds, target \in Accounts, complete \in BOOLEAN :
        /\ req' = [req EXCEPT ![w] = Admission(token, kind, target, complete)]
        /\ Goto(w, IF users[token.user].class = "OPERATOR" THEN "find_grant" ELSE "roles")
  BY DEF Authenticate
<1>2. Admission(token, kind, target, complete) \in Request
  BY AdmissionTyped
<1> QED
  BY <1>1, <1>2 DEF Authenticate, StepOf, Goto, TypeOK, Steps, Others

LEMMA RequestProvisioningOf ==
  ASSUME TypeOK, NEW w \in Workers, RequestProvisioning(w)
  PROVE  StepOf(w)
<1>1. PICK o \in Orders :
        req' = [req EXCEPT ![w] = [NoRequest EXCEPT !.kind = "provision", !.user = o.user,
                                       !.row = [o.row EXCEPT !.status = "ACTIVE"],
                                       !.rights = o.rights]]
  BY DEF RequestProvisioning
<1>2. o.user \in Users /\ o.rights \in Rights /\ [o.row EXCEPT !.status = "ACTIVE"] \in UserRow
  BY InputAssumption DEF UserRow
<1>3. req'[w] \in Request
  BY <1>1, <1>2, NullsTyped DEF TypeOK, NoRequest, Request, Kinds
<1> QED
  BY <1>1, <1>3 DEF RequestProvisioning, StepOf, Goto, TypeOK, Steps, Others

LEMMA RequestBootstrapOf ==
  ASSUME TypeOK, NEW w \in Workers, RequestBootstrap(w)
  PROVE  StepOf(w)
<1>1. PICK u \in auth0, t \in Tenants :
        req' = [req EXCEPT ![w] =
                 [NoRequest EXCEPT !.kind = "bootstrap", !.user = u,
                    !.row = [status |-> "ACTIVE", class |-> "OPERATOR", tenant |-> t]]]
  BY DEF RequestBootstrap
<1>2. u \in Users /\ [status |-> "ACTIVE", class |-> "OPERATOR", tenant |-> t] \in UserRow
  BY DEF UserRow, TypeOK, Classes
<1>3. req'[w] \in Request
  BY <1>1, <1>2, NullsTyped DEF TypeOK, NoRequest, Request, Kinds
<1> QED
  BY <1>1, <1>3 DEF RequestBootstrap, StepOf, Goto, TypeOK, Steps, Others
LEMMA OperatorContextTyped ==
  ASSUME TypeOK, NEW u, NEW tenant
  PROVE  OperatorContext(u, tenant) \in AuthContext
<1> DEFINE mine == {g \in ActiveGrants(u) : grants[g].tenant = tenant}
           some == CHOOSE g \in mine : TRUE
<1>1. CASE mine = {}
  BY <1>1, NullsTyped DEF OperatorContext
<1>2. CASE mine # {}
  <2>1. some \in mine
    BY <1>2
  <2>2. some \in GrantIds
    BY <2>1 DEF ActiveGrants, OpenGrants
  <2>3. grants[some] \in Grant
    BY <2>2 DEF TypeOK
  <2>4. OperatorContext(u, tenant) = [class |-> "AGENCY", account |-> grants[some].account,
                                      impersonating |-> TRUE, grant |-> some]
    BY <1>2 DEF OperatorContext
  <2> HIDE DEF some, mine
  <2> QED
    BY <2>2, <2>3, <2>4 DEF AuthContext, Grant, Classes
<1> QED
  BY <1>1, <1>2

LEMMA GuardStepOf ==
  ASSUME TypeOK, NEW w \in Workers, Placed(w), GuardStep(w)
  PROVE  StepOf(w)
<1>1. req[w] \in Request
  BY DEF TypeOK
<1>2. CASE FindGrant(w)
  <2>1. OperatorContext(req[w].user, req[w].row.tenant) \in AuthContext
    BY OperatorContextTyped
  <2>2. req' = [req EXCEPT ![w].ctx = OperatorContext(req[w].user, req[w].row.tenant)]
    BY <1>2 DEF FindGrant
  <2>3. req'[w] \in Request
    BY <1>1, <2>1, <2>2 DEF Request, TypeOK
  <2> QED
    BY <1>2, <2>2, <2>3 DEF FindGrant, StepOf, Goto, Others, TypeOK, Steps
<1>3. CASE Authorize(w)
  <2>1. CASE Finish(w)
    BY <2>1, FinishOf
  <2>2. CASE ~Finish(w)
    <3>1. req[w].kind \in {"search", "confirm", "start", "stop"}
      BY <1>3 DEF Authorize, Placed
    <3>2. \E p \in Steps : Goto(w, p)
      BY <1>3, <2>2, <3>1 DEF Authorize, Steps
    <3>3. UNCHANGED <<req, tx>>
      BY <1>3, <2>2 DEF Authorize
    <3> QED
      BY <3>2, <3>3 DEF StepOf, Goto, Others, TypeOK
  <2> QED
    BY <2>1, <2>2
<1>4. CASE Serve(w)
  BY <1>4, FinishOf DEF Serve
<1> QED
  BY <1>2, <1>3, <1>4 DEF GuardStep

LEMMA ConnectOf ==
  ASSUME TypeOK, NEW w \in Workers, NEW next \in Steps, Connect(w, next)
  PROVE  StepOf(w)
<1>1. CASE Finish(w)
  BY <1>1, FinishOf
<1>2. CASE ~Finish(w)
  <2>1. [NoTx EXCEPT !.state = "open", !.at = now] \in Tx
    BY NullsTyped DEF Tx, TypeOK
  <2> QED
    BY <1>2, <2>1 DEF Connect, StepOf, Goto, Others, TypeOK
<1> QED
  BY <1>1, <1>2

LEMMA EndNowOf ==
  ASSUME TypeOK, NEW w \in Workers, NEW g \in GrantIds \cup {NoGrant}, NEW next \in Steps,
         EndNow(w, g, next)
  PROVE  StepOf(w)
<1>1. CASE Finish(w)
  BY <1>1, FinishOf
<1>2. CASE ~Finish(w)
  <2>1. req[w] \in Request /\ tx[w] \in Tx
    BY DEF TypeOK
  <2>2. Audited(w, g) \in GrantIds \cup {NoGrant}
    BY <2>1 DEF Audited, Request
  <2>3. /\ tx' = [tx EXCEPT ![w].ends = g, ![w].ended = Audited(w, g)]
        /\ req' = [req EXCEPT ![w].waits = NoGrant]
        /\ Goto(w, next)
    BY <1>2 DEF EndNow
  <2>4. tx'[w] \in Tx
    BY <2>1, <2>2, <2>3 DEF Tx, TypeOK
  <2>5. req'[w] \in Request
    BY <2>1, <2>3 DEF Request, TypeOK
  <2> QED
    BY <2>3, <2>4, <2>5 DEF StepOf, Goto, Others, TypeOK
<1> QED
  BY <1>1, <1>2

(* The grant an UPDATE of repository.end works on.                         *)
LEMMA SomeOpen ==
  ASSUME NEW u, OpenGrants(u) # {}
  PROVE  (CHOOSE x \in OpenGrants(u) : TRUE) \in OpenGrants(u)
OBVIOUS

LEMMA EndGrantOf ==
  ASSUME TypeOK, NEW w \in Workers, NEW waiting \in Steps, NEW next \in Steps,
         EndGrant(w, waiting, next)
  PROVE  StepOf(w)
<1> DEFINE open == OpenGrants(req[w].user)
           g == IF open = {} THEN NoGrant ELSE CHOOSE x \in open : TRUE
<1>1. g \in GrantIds \cup {NoGrant}
  BY SomeOpen DEF OpenGrants
<1>2. CASE ~GrantHeld(w, g)
  BY <1>1, <1>2, EndNowOf DEF EndGrant
<1>3. CASE GrantHeld(w, g)
  <2>1. Goto(w, waiting) /\ req' = [req EXCEPT ![w].waits = g] /\ UNCHANGED tx
    BY <1>3 DEF EndGrant
  <2>2. req'[w] \in Request
    <3>1. req[w] \in Request
      BY DEF TypeOK
    <3> HIDE DEF g
    <3> QED
      BY <1>1, <2>1, <3>1 DEF Request, TypeOK
  <2> HIDE DEF g
  <2> QED
    BY <2>1, <2>2 DEF StepOf, Goto, Others, TypeOK
<1> QED
  BY <1>2, <1>3

LEMMA EndGrantAfterWaitOf ==
  ASSUME TypeOK, NEW w \in Workers, NEW next \in Steps, EndGrantAfterWait(w, next)
  PROVE  StepOf(w)
<1>1. req[w].waits \in GrantIds \cup {NoGrant}
  BY DEF TypeOK, Request
<1> QED
  BY <1>1, EndNowOf DEF EndGrantAfterWait

LEMMA StartStepOf ==
  ASSUME TypeOK, NEW w \in Workers, Placed(w), StartStep(w)
  PROVE  StepOf(w)
<1> USE DEF StartSteps
<1>1. req[w] \in Request /\ tx[w] \in Tx
  BY DEF TypeOK
<1>2. CASE LookupAccount(w)
  BY <1>2 DEF LookupAccount, StepOf, Goto, Others, TypeOK, Steps
<1>3. CASE BeginStart(w)
  BY <1>3, ConnectOf DEF BeginStart, Steps
<1>4. CASE FindUnended(w)
  <2> DEFINE g == CHOOSE x \in OpenGrants(req[w].user) : TRUE
  <2>1. CASE OpenGrants(req[w].user) = {}
    BY <1>4, <2>1 DEF FindUnended, StepOf, Goto, Others, TypeOK, Steps
  <2>2. CASE OpenGrants(req[w].user) # {} /\ grants[g].expires <= now
    <3>1. g \in GrantIds
      BY <2>2, SomeOpen DEF OpenGrants
    <3>2. req' = [req EXCEPT ![w].grant = g] /\ Goto(w, "end_expired") /\ UNCHANGED tx
      BY <1>4, <2>2 DEF FindUnended
    <3> HIDE DEF g
    <3>3. req'[w] \in Request
      BY <1>1, <3>1, <3>2 DEF Request, TypeOK
    <3> QED
      BY <3>2, <3>3 DEF StepOf, Goto, Others, TypeOK, Steps
  <2>3. CASE OpenGrants(req[w].user) # {} /\ ~(grants[g].expires <= now)
    <3>1. [NoTx EXCEPT !.state = "held"] \in Tx
      BY NullsTyped DEF Tx
    <3> QED
      BY <1>4, <2>3, <3>1 DEF FindUnended, StepOf, Goto, Others, TypeOK, Steps
  <2> QED
    BY <2>1, <2>2, <2>3
<1>5. CASE EndExpired(w)
  BY <1>5, EndGrantOf DEF EndExpired, Steps
<1>6. CASE EndExpiredAfterWait(w)
  BY <1>6, EndGrantAfterWaitOf DEF EndExpiredAfterWait, Steps
<1>7. CASE InsertGrant(w)
  <2>1. CASE Finish(w)
    BY <2>1, FinishOf
  <2>2. CASE ~Finish(w)
    <3> DEFINE value == [state |-> "OPEN", actor |-> req[w].user, account |-> req[w].target,
                         tenant |-> req[w].row.tenant, started |-> tx[w].at,
                         expires |-> now + TTL, reason |-> "NONE"]
    <3>1. PICK g \in GrantIds : tx' = [tx EXCEPT ![w].grant = g, ![w].value = value]
      BY <1>7, <2>2 DEF InsertGrant
    <3>2. value \in Grant
      BY <1>1, ClockAssumption DEF Request, Tx, UserRow, Grant, TypeOK
    <3> HIDE DEF value
    <3>3. tx'[w] \in Tx
      BY <1>1, <3>1, <3>2 DEF Tx, TypeOK
    <3> QED
      BY <1>7, <2>2, <3>1, <3>3 DEF InsertGrant, StepOf, Goto, Others, TypeOK, Steps
  <2> QED
    BY <2>1, <2>2
<1>8. CASE CommitStart(w)
  BY <1>8, FinishOf DEF CommitStart
<1>9. CASE Reject(w)
  BY <1>9, FinishOf DEF Reject
<1> QED
  BY <1>2, <1>3, <1>4, <1>5, <1>6, <1>7, <1>8, <1>9 DEF StartStep

LEMMA StopStepOf ==
  ASSUME TypeOK, NEW w \in Workers, StopStep(w)
  PROVE  StepOf(w)
<1>1. CASE BeginStop(w)
  BY <1>1, ConnectOf DEF BeginStop, Steps
<1>2. CASE EndOpen(w)
  BY <1>2, EndGrantOf DEF EndOpen, Steps
<1>3. CASE EndOpenAfterWait(w)
  BY <1>3, EndGrantAfterWaitOf DEF EndOpenAfterWait, Steps
<1>4. CASE CommitStop(w)
  BY <1>4, FinishOf DEF CommitStop
<1> QED
  BY <1>1, <1>2, <1>3, <1>4 DEF StopStep

LEMMA ProvisionStepOf ==
  ASSUME TypeOK, NEW w \in Workers, Placed(w), ProvisionStep(w)
  PROVE  StepOf(w)
<1>1. req[w] \in Request /\ tx[w] \in Tx
  BY DEF TypeOK
<1>2. CASE CreateAuth0User(w)
  <2>1. Finish(w) \/ (Goto(w, "insert_user") /\ UNCHANGED <<req, tx>>)
    BY <1>2 DEF CreateAuth0User
  <2> QED
    BY <2>1, FinishOf DEF StepOf, Goto, Others, TypeOK, Steps
<1>3. CASE InsertUser(w)
  <2>1. CASE Goto(w, "compensate") /\ UNCHANGED tx
    BY <1>3, <2>1 DEF InsertUser, StepOf, Goto, Others, TypeOK, Steps
  <2>2. CASE ~(Goto(w, "compensate") /\ UNCHANGED tx)
    <3> DEFINE staged == [NoTx EXCEPT !.state = "open", !.at = now, !.user = req[w].user,
                            !.row = req[w].row, !.owner = req[w].user, !.rights = req[w].rights]
    <3>1. tx' = [tx EXCEPT ![w] = staged] /\ Goto(w, "commit_user")
      BY <1>3, <2>2 DEF InsertUser
    <3>2. NoTx \in Tx
      BY NullsTyped
    <3>3. staged \in Tx
      BY <1>1, <3>2 DEF Request, Tx, TypeOK
    <3> HIDE DEF staged
    <3> QED
      BY <1>3, <3>1, <3>3 DEF InsertUser, StepOf, Goto, Others, TypeOK, Steps
  <2> QED
    BY <2>1, <2>2
<1>4. CASE CommitUser(w)
  <2>1. \/ Finish(w)
        \/ Goto(w, "compensate") /\ tx' = [tx EXCEPT ![w] = NoTx] /\ UNCHANGED req
    BY <1>4 DEF CommitUser
  <2> QED
    BY <2>1, FinishOf, NullsTyped DEF StepOf, Goto, Others, TypeOK, Steps
<1>5. CASE Compensate(w)
  BY <1>5, FinishOf DEF Compensate
<1> QED
  BY <1>2, <1>3, <1>4, <1>5 DEF ProvisionStep

LEMMA BootstrapStepOf ==
  ASSUME TypeOK, NEW w \in Workers, Placed(w), BootstrapStep(w)
  PROVE  StepOf(w)
<1> USE DEF BootstrapSteps
<1>1. req[w] \in Request /\ tx[w] \in Tx
  BY DEF TypeOK
<1> DEFINE u == req[w].user
<1>2. u \in Users
  BY DEF BootstrapStep, EnsureFind, EnsureUser, EnsureRole, CommitEnsure, Placed
<1>3. users[u] \in UserRow /\ rights[u] \in Rights
  BY <1>2 DEF TypeOK
<1>4. CASE EnsureFind(w)
  <2>1. CASE Finish(w)
    BY <2>1, FinishOf
  <2>2. CASE ~Finish(w)
    <3> DEFINE row == IF Exists(u) THEN users[u] ELSE [req[w].row EXCEPT !.status = "ABSENT"]
    <3>1. /\ tx' = [tx EXCEPT ![w] = [NoTx EXCEPT !.state = "open", !.at = now]]
          /\ req' = [req EXCEPT ![w].row = row]
          /\ Goto(w, "ensure_user")
      BY <1>4, <2>2 DEF EnsureFind
    <3>2. row \in UserRow
      BY <1>1, <1>3 DEF Request, UserRow
    <3>3. [NoTx EXCEPT !.state = "open", !.at = now] \in Tx
      BY NullsTyped DEF Tx, TypeOK
    <3> HIDE DEF row
    <3>4. req'[w] \in Request
      BY <1>1, <3>1, <3>2 DEF Request, TypeOK
    <3> QED
      BY <3>1, <3>3, <3>4 DEF StepOf, Goto, Others, TypeOK, Steps
  <2> QED
    BY <2>1, <2>2
<1>5. CASE EnsureUser(w)
  <2>1. CASE Finish(w)
    BY <2>1, FinishOf
  <2>2. CASE ~Finish(w)
    <3> DEFINE holds == IF req[w].row.status = "ACTIVE" THEN NoUser ELSE u
               row == [req[w].row EXCEPT !.status = "ACTIVE"]
    <3>1. /\ tx' = [tx EXCEPT ![w].user = holds, ![w].row = row]
          /\ req' = [req EXCEPT ![w].rights = rights[u]]
          /\ Goto(w, "ensure_role")
      BY <1>5, <2>2 DEF EnsureUser
    <3>2. row \in UserRow /\ holds \in Users \cup {NoUser}
      BY <1>1, <1>2 DEF Request, UserRow
    <3> HIDE DEF row, holds
    <3>3. tx'[w] \in Tx
      BY <1>1, <3>1, <3>2 DEF Tx, TypeOK
    <3>4. req'[w] \in Request
      BY <1>1, <1>3, <3>1 DEF Request, TypeOK
    <3> QED
      BY <3>1, <3>3, <3>4 DEF StepOf, Goto, Others, TypeOK, Steps
  <2> QED
    BY <2>1, <2>2
<1>6. CASE EnsureRole(w)
  <2>1. CASE Finish(w)
    BY <2>1, FinishOf
  <2>2. CASE Goto(w, "commit_ensure") /\ UNCHANGED <<req, tx>>
    BY <2>2 DEF StepOf, Goto, Others, TypeOK, Steps
  <2>3. CASE ~Finish(w) /\ ~(Goto(w, "commit_ensure") /\ UNCHANGED <<req, tx>>)
    <3> DEFINE more == [rights[u] EXCEPT !.roles = @ \cup {"platform_admin"}]
    <3>1. /\ tx' = [tx EXCEPT ![w].owner = u, ![w].rights = more]
          /\ Goto(w, "commit_ensure")
          /\ UNCHANGED req
      BY <1>6, <2>3 DEF EnsureRole
    <3>2. more \in Rights
      BY <1>3 DEF Rights, Roles, OperatorRoles
    <3> HIDE DEF more
    <3>3. tx'[w] \in Tx
      BY <1>1, <1>2, <3>1, <3>2 DEF Tx, TypeOK
    <3> QED
      BY <3>1, <3>3 DEF StepOf, Goto, Others, TypeOK, Steps
  <2> QED
    BY <2>1, <2>2, <2>3
<1>7. CASE CommitEnsure(w)
  BY <1>7, FinishOf DEF CommitEnsure
<1> QED
  BY <1>4, <1>5, <1>6, <1>7 DEF BootstrapStep

LEMMA WorkerStepOf ==
  ASSUME TypeOK, NEW w \in Workers, Placed(w),
         \/ Authenticate(w) \/ RequestProvisioning(w) \/ RequestBootstrap(w)
         \/ WorkerStep(w) \/ RequestFails(w)
  PROVE  StepOf(w)
BY AuthenticateOf, RequestProvisioningOf, RequestBootstrapOf, GuardStepOf, StartStepOf,
   StopStepOf, ProvisionStepOf, BootstrapStepOf, FinishOf DEF WorkerStep, RequestFails
-----------------------------------------------------------------------------
(* What a request has at hand follows from its own steps alone.            *)
Local(w) == Placed(w) /\ Staged(w) /\ Ordered(w)

LEMMA FinishLocal ==
  ASSUME TypeOK, NEW w \in Workers, Finish(w)
  PROVE  Local(w)' /\ pc'[w] = "idle" /\ req'[w] = NoRequest /\ tx'[w] = NoTx
<1>1. pc'[w] = "idle" /\ req'[w] = NoRequest /\ tx'[w] = NoTx
  BY DEF Finish, TypeOK
<1> QED
  BY <1>1 DEF Local, Placed, Staged, Ordered, StartSteps, StopSteps, ProvisionSteps,
     BootstrapSteps, NoTx, FreeGrant

LEMMA AuthenticateLocal ==
  ASSUME TypeOK, NEW w \in Workers, Local(w), Authenticate(w)
  PROVE  Local(w)'
<1>1. PICK token \in Tokens, kind \in Kinds \ {"provision", "bootstrap"},
           target \in Accounts, complete \in BOOLEAN :
        /\ req' = [req EXCEPT ![w] = Admission(token, kind, target, complete)]
        /\ Goto(w, IF users[token.user].class = "OPERATOR" THEN "find_grant" ELSE "roles")
  BY DEF Authenticate
<1>2. req'[w].kind = kind /\ req'[w].user = token.user
  BY <1>1 DEF TypeOK, Admission, NoRequest
<1>3. token.user \in Users
  BY InputAssumption
<1>4. pc'[w] \in {"find_grant", "roles"} /\ tx' = tx /\ pc[w] = "idle"
  BY <1>1 DEF Goto, TypeOK, Authenticate
<1> QED
  BY <1>2, <1>3, <1>4 DEF Local, Placed, Staged, Ordered, StartSteps, StopSteps, ProvisionSteps,
     BootstrapSteps, Kinds

LEMMA RequestProvisioningLocal ==
  ASSUME TypeOK, NEW w \in Workers, Local(w), RequestProvisioning(w)
  PROVE  Local(w)'
<1>1. PICK o \in Orders :
        /\ ValidProvisioning(o.row.class, o.rights.roles, o.rights.account)
        /\ req' = [req EXCEPT ![w] = [NoRequest EXCEPT !.kind = "provision", !.user = o.user,
                                       !.row = [o.row EXCEPT !.status = "ACTIVE"],
                                       !.rights = o.rights]]
  BY DEF RequestProvisioning
<1>2. /\ req'[w].kind = "provision" /\ req'[w].user = o.user /\ req'[w].rights = o.rights
      /\ req'[w].row = [o.row EXCEPT !.status = "ACTIVE"]
  BY <1>1 DEF TypeOK, NoRequest
<1>3. o.user \in Users /\ o.row \in UserRow /\ o.rights \in Rights
      /\ (o.row.class = "OPERATOR" => o.rights.account = NoAccount)
  BY InputAssumption
<1>4. req'[w].row.status = "ACTIVE" /\ req'[w].row.class = o.row.class
  BY <1>2, <1>3 DEF UserRow
<1>5. Fits(req'[w].row, req'[w].rights)
  BY <1>1, <1>2, <1>3, <1>4 DEF Fits, ValidProvisioning
<1>6. pc'[w] = "create_auth0" /\ tx' = tx /\ pc[w] = "idle"
  BY DEF RequestProvisioning, Goto, TypeOK
<1> QED
  BY <1>2, <1>3, <1>4, <1>5, <1>6 DEF Local, Placed, Staged, Ordered, StartSteps, StopSteps,
     ProvisionSteps, BootstrapSteps

LEMMA RequestBootstrapLocal ==
  ASSUME TypeOK, NEW w \in Workers, Local(w), RequestBootstrap(w)
  PROVE  Local(w)'
<1>1. PICK u \in auth0, t \in Tenants :
        req' = [req EXCEPT ![w] =
                 [NoRequest EXCEPT !.kind = "bootstrap", !.user = u,
                    !.row = [status |-> "ACTIVE", class |-> "OPERATOR", tenant |-> t]]]
  BY DEF RequestBootstrap
<1>2. /\ req'[w].kind = "bootstrap" /\ req'[w].user = u /\ req'[w].row.class = "OPERATOR"
      /\ u \in Users
  BY <1>1 DEF TypeOK, NoRequest
<1>3. pc'[w] = "ensure_find" /\ tx' = tx /\ pc[w] = "idle"
  BY DEF RequestBootstrap, Goto, TypeOK
<1> QED
  BY <1>2, <1>3 DEF Local, Placed, Staged, Ordered, StartSteps, StopSteps,
     ProvisionSteps, BootstrapSteps

LEMMA GuardStepLocal ==
  ASSUME TypeOK, NEW w \in Workers, Local(w), GuardStep(w)
  PROVE  Local(w)'
<1> USE DEF Local, Placed, Staged, Ordered, StartSteps, StopSteps, ProvisionSteps, BootstrapSteps
<1>1. CASE FindGrant(w)
  <2>1. pc[w] = "find_grant" /\ pc'[w] = "roles" /\ tx'[w] = tx[w]
    BY <1>1 DEF FindGrant, Goto, TypeOK
  <2>2. req'[w].kind = req[w].kind /\ req'[w].user = req[w].user
    BY <1>1 DEF FindGrant, TypeOK, Request
  <2> QED
    BY <2>1, <2>2
<1>2. CASE Authorize(w)
  <2>1. CASE Finish(w)
    BY <2>1, FinishLocal
  <2>2. CASE ~Finish(w)
    <3>1. pc[w] = "roles" /\ req'[w] = req[w] /\ tx'[w] = tx[w]
      BY <1>2, <2>2 DEF Authorize
    <3>2. req[w].kind \in {"search", "confirm", "start", "stop"}
      BY <3>1
    <3>3. \/ req[w].kind \in {"search", "confirm"} /\ pc'[w] = "serve"
          \/ req[w].kind = "start" /\ pc'[w] \in {"lookup", "reject"}
          \/ req[w].kind = "stop" /\ pc'[w] = "stop_connect"
      BY <1>2, <2>2, <3>2 DEF Authorize, Goto, TypeOK
    <3> QED
      BY <3>1, <3>2, <3>3
  <2> QED
    BY <2>1, <2>2
<1>3. CASE Serve(w)
  BY <1>3, FinishLocal DEF Serve
<1> QED
  BY <1>1, <1>2, <1>3 DEF GuardStep

(* What the UPDATE that ends a grant leaves of the request.                *)
LEMMA EndNowDoes ==
  ASSUME TypeOK, NEW w \in Workers, NEW g, NEW next, EndNow(w, g, next), ~Finish(w)
  PROVE  /\ pc'[w] = next
         /\ req'[w].kind = req[w].kind /\ req'[w].user = req[w].user
         /\ req'[w].row = req[w].row /\ req'[w].rights = req[w].rights
         /\ req'[w].grant = req[w].grant
         /\ tx'[w].user = tx[w].user /\ tx'[w].row = tx[w].row
         /\ tx'[w].owner = tx[w].owner /\ tx'[w].rights = tx[w].rights
         /\ tx'[w].grant = tx[w].grant /\ tx'[w].value = tx[w].value
         /\ tx'[w].ends = g /\ tx'[w].ended = Audited(w, g)
<1>1. tx' = [tx EXCEPT ![w].ends = g, ![w].ended = Audited(w, g)]
  BY DEF EndNow
<1>2. req' = [req EXCEPT ![w].waits = NoGrant]
  BY DEF EndNow
<1>3. tx[w] \in Tx /\ req[w] \in Request
  BY DEF TypeOK
<1>4. pc'[w] = next
  BY DEF EndNow, Goto, TypeOK
<1> QED
  BY <1>1, <1>2, <1>3, <1>4 DEF TypeOK, Tx, Request

(* A statement that ends a grant, waits for it, or fails.                  *)
LEMMA EndGrantLocal ==
  ASSUME TypeOK, NEW w \in Workers, Local(w), NEW waiting, NEW next,
         EndGrant(w, waiting, next) \/ EndGrantAfterWait(w, next),
         \/ /\ pc[w] \in {"end_expired", "end_expired_wait"}
            /\ waiting = "end_expired_wait" /\ next = "insert_grant"
         \/ /\ pc[w] \in {"end_open", "end_open_wait"}
            /\ waiting = "end_open_wait" /\ next = "commit_stop"
  PROVE  Local(w)'
<1> USE DEF Local, Placed, Staged, Ordered, StartSteps, StopSteps, ProvisionSteps, BootstrapSteps
<1>1. CASE Finish(w)
  BY <1>1, FinishLocal
<1>2. ASSUME NEW g, EndNow(w, g, next), ~Finish(w) PROVE Local(w)'
  <2>1. pc[w] \in {"end_open", "end_open_wait"} => Audited(w, g) = g
    BY DEF Audited
  <2> QED
    BY <1>2, <2>1, EndNowDoes
<1>3. CASE \E g \in GrantIds : /\ Goto(w, waiting)
                               /\ req' = [req EXCEPT ![w].waits = g]
                               /\ UNCHANGED tx
  <2>1. pc'[w] = waiting /\ tx'[w] = tx[w]
    BY <1>3 DEF Goto, TypeOK
  <2>2. /\ req'[w].kind = req[w].kind /\ req'[w].user = req[w].user
        /\ req'[w].row = req[w].row /\ req'[w].rights = req[w].rights
    BY <1>3 DEF TypeOK, Request
  <2> QED
    BY <2>1, <2>2
<1>4. \/ \E g : EndNow(w, g, next)
      \/ \E g \in GrantIds : /\ Goto(w, waiting)
                             /\ req' = [req EXCEPT ![w].waits = g]
                             /\ UNCHANGED tx
  <2> DEFINE open == OpenGrants(req[w].user)
             g == IF open = {} THEN NoGrant ELSE CHOOSE x \in open : TRUE
  <2>1. CASE EndGrantAfterWait(w, next)
    BY <2>1 DEF EndGrantAfterWait
  <2>2. CASE EndGrant(w, waiting, next) /\ ~GrantHeld(w, g)
    BY <2>2 DEF EndGrant
  <2>3. CASE EndGrant(w, waiting, next) /\ GrantHeld(w, g)
    <3>1. g \in GrantIds
      BY <2>3, SomeOpen DEF OpenGrants, GrantHeld
    <3> QED
      BY <2>3, <3>1 DEF EndGrant
  <2> QED
    BY <2>1, <2>2, <2>3
<1> QED
  BY <1>1, <1>2, <1>3, <1>4

LEMMA ConnectLocal ==
  ASSUME TypeOK, NEW w \in Workers, Local(w), NEW next, Connect(w, next),
         \/ pc[w] = "connect" /\ next = "find_unended"
         \/ pc[w] = "stop_connect" /\ next = "end_open"
  PROVE  Local(w)'
<1>1. CASE Finish(w)
  BY <1>1, FinishLocal
<1>2. CASE ~Finish(w)
  <2>1. tx'[w] = [NoTx EXCEPT !.state = "open", !.at = now]
    BY <1>2 DEF Connect, TypeOK
  <2>2. pc'[w] = next /\ req'[w] = req[w]
    BY <1>2 DEF Connect, Goto, TypeOK
  <2> QED
    BY <2>1, <2>2 DEF Local, Placed, Staged, Ordered, StartSteps, StopSteps, ProvisionSteps,
       BootstrapSteps, NoTx, FreeGrant
<1> QED
  BY <1>1, <1>2

LEMMA StartStepLocal ==
  ASSUME TypeOK, NEW w \in Workers, Local(w), StartStep(w)
  PROVE  Local(w)'
<1>2. CASE BeginStart(w)
  <2>1. pc[w] = "connect" /\ Connect(w, "find_unended")
    BY <1>2 DEF BeginStart
  <2> QED
    BY <2>1, ConnectLocal
<1>4. CASE EndExpired(w) \/ EndExpiredAfterWait(w)
  BY <1>4, EndGrantLocal DEF EndExpired, EndExpiredAfterWait
<1>6. CASE CommitStart(w) \/ Reject(w)
  BY <1>6, FinishLocal DEF CommitStart, Reject
<1> USE DEF Local, Placed, Staged, Ordered, StartSteps, StopSteps, ProvisionSteps, BootstrapSteps
<1>1. CASE LookupAccount(w)
  BY <1>1 DEF LookupAccount, Goto, TypeOK
<1>3. CASE FindUnended(w)
  <2>1. pc[w] = "find_unended" /\ pc'[w] \in {"insert_grant", "end_expired", "reject"}
    BY <1>3 DEF FindUnended, Goto, TypeOK
  <2>2. /\ req'[w].kind = req[w].kind /\ req'[w].user = req[w].user
    BY <1>3 DEF FindUnended, TypeOK, Request
  <2>3. tx'[w] = tx[w] \/ tx'[w] = [NoTx EXCEPT !.state = "held"]
    BY <1>3 DEF FindUnended, TypeOK
  <2> QED
    BY <2>1, <2>2, <2>3 DEF NoTx, FreeGrant
<1>5. CASE InsertGrant(w)
  <2>1. CASE Finish(w)
    BY <2>1, FinishLocal
  <2>2. CASE ~Finish(w)
    <3>1. pc[w] = "insert_grant" /\ pc'[w] = "commit_start" /\ req'[w] = req[w]
      BY <1>5, <2>2 DEF InsertGrant, Goto, TypeOK
    <3>2. \E g \in GrantIds : \E value : tx' = [tx EXCEPT ![w].grant = g, ![w].value = value]
      BY <1>5, <2>2 DEF InsertGrant
    <3>3. /\ tx'[w].user = tx[w].user /\ tx'[w].owner = tx[w].owner
          /\ tx'[w].grant \in GrantIds
      BY <3>2 DEF TypeOK, Tx
    <3> QED
      BY <3>1, <3>3, IdentityNullAssumption
  <2> QED
    BY <2>1, <2>2
<1> QED
  BY <1>1, <1>2, <1>3, <1>4, <1>5, <1>6 DEF StartStep

LEMMA StopStepLocal ==
  ASSUME TypeOK, NEW w \in Workers, Local(w), StopStep(w)
  PROVE  Local(w)'
<1>1. CASE BeginStop(w)
  BY <1>1, ConnectLocal DEF BeginStop
<1>2. CASE EndOpen(w) \/ EndOpenAfterWait(w)
  BY <1>2, EndGrantLocal DEF EndOpen, EndOpenAfterWait
<1>3. CASE CommitStop(w)
  BY <1>3, FinishLocal DEF CommitStop
<1> QED
  BY <1>1, <1>2, <1>3 DEF StopStep

LEMMA ProvisionStepLocal ==
  ASSUME TypeOK, NEW w \in Workers, Local(w), ProvisionStep(w)
  PROVE  Local(w)'
<1> USE DEF Local, Placed, Staged, Ordered, StartSteps, StopSteps, ProvisionSteps, BootstrapSteps
<1>1. CASE CreateAuth0User(w)
  <2>1. Finish(w) \/ (Goto(w, "insert_user") /\ UNCHANGED <<req, tx>>)
    BY <1>1 DEF CreateAuth0User
  <2>2. pc[w] = "create_auth0"
    BY <1>1 DEF CreateAuth0User
  <2>3. CASE Finish(w)
    BY <2>3, FinishLocal
  <2>4. CASE Goto(w, "insert_user") /\ UNCHANGED <<req, tx>>
    BY <2>2, <2>4 DEF Goto, TypeOK
  <2> QED
    BY <2>1, <2>3, <2>4
<1>2. CASE InsertUser(w)
  <2>1. pc[w] = "insert_user" /\ req'[w] = req[w]
    BY <1>2 DEF InsertUser
  <2>2. CASE Goto(w, "compensate") /\ UNCHANGED tx
    BY <2>1, <2>2 DEF Goto, TypeOK
  <2>3. CASE ~(Goto(w, "compensate") /\ UNCHANGED tx)
    <3>1. pc'[w] = "commit_user"
      BY <1>2, <2>3 DEF InsertUser, Goto, TypeOK
    <3>2. tx'[w] = [NoTx EXCEPT !.state = "open", !.at = now, !.user = req[w].user,
                      !.row = req[w].row, !.owner = req[w].user, !.rights = req[w].rights]
      BY <1>2, <2>3 DEF InsertUser, TypeOK
    <3>3. /\ tx'[w].user = req[w].user /\ tx'[w].row = req[w].row
          /\ tx'[w].owner = req[w].user /\ tx'[w].rights = req[w].rights
          /\ tx'[w].ends = NoGrant /\ tx'[w].ended = NoGrant /\ tx'[w].grant = NoGrant
          /\ tx'[w].value.actor = NoUser
      BY <3>2 DEF NoTx, FreeGrant
    <3> QED
      BY <2>1, <3>1, <3>3
  <2> QED
    BY <2>2, <2>3
<1>3. CASE CommitUser(w)
  <2>1. \/ Finish(w)
        \/ Goto(w, "compensate") /\ tx' = [tx EXCEPT ![w] = NoTx] /\ UNCHANGED req
    BY <1>3 DEF CommitUser
  <2>2. pc[w] = "commit_user"
    BY <1>3 DEF CommitUser
  <2>3. CASE Finish(w)
    BY <2>3, FinishLocal
  <2>4. CASE Goto(w, "compensate") /\ tx' = [tx EXCEPT ![w] = NoTx] /\ UNCHANGED req
    <3>1. pc'[w] = "compensate" /\ tx'[w] = NoTx /\ req'[w] = req[w]
      BY <2>4 DEF Goto, TypeOK
    <3> QED
      BY <2>2, <3>1 DEF NoTx, FreeGrant
  <2> QED
    BY <2>1, <2>3, <2>4
<1>4. CASE Compensate(w)
  BY <1>4, FinishLocal DEF Compensate
<1> QED
  BY <1>1, <1>2, <1>3, <1>4 DEF ProvisionStep

(* What EnsureFind has read.                                               *)
FoundRow(w) ==
  IF Exists(req[w].user) THEN users[req[w].user] ELSE [req[w].row EXCEPT !.status = "ABSENT"]

LEMMA EnsureFindDoes ==
  ASSUME TypeOK, NEW w \in Workers, EnsureFind(w), ~Finish(w)
  PROVE  /\ pc[w] = "ensure_find" /\ pc'[w] = "ensure_user"
         /\ req'[w].kind = req[w].kind /\ req'[w].user = req[w].user
         /\ req'[w].row = FoundRow(w)
         /\ tx'[w] = [NoTx EXCEPT !.state = "open", !.at = now]
<1>1. req' = [req EXCEPT ![w].row = FoundRow(w)]
  BY DEF EnsureFind, FoundRow
<1>2. req[w] \in Request
  BY DEF TypeOK
<1>3. /\ req'[w].kind = req[w].kind /\ req'[w].user = req[w].user
      /\ req'[w].row = FoundRow(w)
  BY <1>1, <1>2 DEF TypeOK, Request
<1>4. /\ pc[w] = "ensure_find" /\ pc'[w] = "ensure_user"
      /\ tx'[w] = [NoTx EXCEPT !.state = "open", !.at = now]
  BY DEF EnsureFind, Goto, TypeOK
<1> QED
  BY <1>3, <1>4

LEMMA EnsureUserDoes ==
  ASSUME TypeOK, NEW w \in Workers, EnsureUser(w), ~Finish(w)
  PROVE  LET u == req[w].user
             found == req[w].row
         IN /\ pc[w] = "ensure_user" /\ pc'[w] = "ensure_role"
            /\ found.status # "ACTIVE" => ~UserHeld(w, u)
            /\ found.status = "ABSENT" => ~Exists(u)
            /\ req'[w].kind = req[w].kind /\ req'[w].user = u
            /\ req'[w].row = found /\ req'[w].rights = rights[u]
            /\ tx'[w].user = IF found.status = "ACTIVE" THEN NoUser ELSE u
            /\ tx'[w].row.status = "ACTIVE"
            /\ tx'[w].row.class = found.class /\ tx'[w].row.tenant = found.tenant
            /\ tx'[w].owner = tx[w].owner /\ tx'[w].grant = tx[w].grant
            /\ tx'[w].value = tx[w].value
            /\ tx'[w].ends = tx[w].ends /\ tx'[w].ended = tx[w].ended
<1> DEFINE u == req[w].user
           found == req[w].row
           holds == IF found.status = "ACTIVE" THEN NoUser ELSE u
           row == [found EXCEPT !.status = "ACTIVE"]
<1>1. /\ tx' = [tx EXCEPT ![w].user = holds, ![w].row = row]
      /\ req' = [req EXCEPT ![w].rights = rights[u]]
  BY DEF EnsureUser
<1>2. req[w] \in Request /\ tx[w] \in Tx /\ found \in UserRow
  BY DEF TypeOK, Request
<1>3. row.status = "ACTIVE" /\ row.class = found.class /\ row.tenant = found.tenant
  BY <1>2 DEF UserRow
<1>4. /\ req'[w].kind = req[w].kind /\ req'[w].user = u
      /\ req'[w].row = found /\ req'[w].rights = rights[u]
  BY <1>1, <1>2 DEF TypeOK, Request
<1> HIDE DEF row, holds
<1>5. /\ tx'[w].user = holds /\ tx'[w].row = row
      /\ tx'[w].owner = tx[w].owner /\ tx'[w].grant = tx[w].grant /\ tx'[w].value = tx[w].value
      /\ tx'[w].ends = tx[w].ends /\ tx'[w].ended = tx[w].ended
  BY <1>1, <1>2 DEF TypeOK, Tx
<1>6. /\ pc[w] = "ensure_user" /\ pc'[w] = "ensure_role"
      /\ found.status # "ACTIVE" => ~UserHeld(w, u)
      /\ found.status = "ABSENT" => ~Exists(u)
  BY DEF EnsureUser, Goto, TypeOK
<1> QED
  BY <1>3, <1>4, <1>5, <1>6 DEF holds

LEMMA EnsureRoleDoes ==
  ASSUME TypeOK, NEW w \in Workers, EnsureRole(w), ~Finish(w)
  PROVE  LET u == req[w].user IN
         /\ pc[w] = "ensure_role" /\ pc'[w] = "commit_ensure" /\ req'[w] = req[w]
         /\ \/ tx'[w] = tx[w] /\ "platform_admin" \in req[w].rights.roles
            \/ /\ ~RightsHeld(w, u)
               /\ "platform_admin" \notin req[w].rights.roles
               /\ tx'[w].owner = u
               /\ tx'[w].rights = [rights[u] EXCEPT !.roles = @ \cup {"platform_admin"}]
               /\ tx'[w].user = tx[w].user /\ tx'[w].row = tx[w].row
               /\ tx'[w].grant = tx[w].grant /\ tx'[w].value = tx[w].value
               /\ tx'[w].ends = tx[w].ends /\ tx'[w].ended = tx[w].ended
<1> DEFINE u == req[w].user
           more == [rights[u] EXCEPT !.roles = @ \cup {"platform_admin"}]
<1>1. pc[w] = "ensure_role" /\ pc'[w] = "commit_ensure" /\ req'[w] = req[w]
  BY DEF EnsureRole, Goto, TypeOK
<1>2. CASE "platform_admin" \in req[w].rights.roles
  BY <1>1, <1>2 DEF EnsureRole
<1>3. CASE "platform_admin" \notin req[w].rights.roles
  <2>1. ~RightsHeld(w, u) /\ tx' = [tx EXCEPT ![w].owner = u, ![w].rights = more]
    BY <1>3 DEF EnsureRole
  <2>2. tx[w] \in Tx
    BY DEF TypeOK
  <2> HIDE DEF more
  <2>3. /\ tx'[w].owner = u /\ tx'[w].rights = more
        /\ tx'[w].user = tx[w].user /\ tx'[w].row = tx[w].row
        /\ tx'[w].grant = tx[w].grant /\ tx'[w].value = tx[w].value
        /\ tx'[w].ends = tx[w].ends /\ tx'[w].ended = tx[w].ended
    BY <2>1, <2>2 DEF TypeOK, Tx
  <2> QED
    BY <1>1, <1>3, <2>1, <2>3 DEF more
<1> QED
  BY <1>2, <1>3

LEMMA BootstrapStepLocal ==
  ASSUME TypeOK, NEW w \in Workers, Local(w), BootstrapStep(w)
  PROVE  Local(w)'
<1>1. CASE Finish(w)
  BY <1>1, FinishLocal
<1> USE DEF Local, Placed, Staged, Ordered, StartSteps, StopSteps, ProvisionSteps, BootstrapSteps
<1>2. CASE EnsureFind(w) /\ ~Finish(w)
  <2>1. /\ pc[w] = "ensure_find" /\ pc'[w] = "ensure_user"
        /\ req'[w].kind = req[w].kind /\ req'[w].user = req[w].user
    BY <1>2, EnsureFindDoes
  <2>2. tx'[w] = [NoTx EXCEPT !.state = "open", !.at = now]
    BY <1>2, EnsureFindDoes
  <2> QED
    BY <2>1, <2>2 DEF NoTx, FreeGrant
<1>3. CASE EnsureUser(w) /\ ~Finish(w)
  BY <1>3, EnsureUserDoes
<1>4. CASE EnsureRole(w) /\ ~Finish(w)
  <2>1. pc[w] = "ensure_role" /\ pc'[w] = "commit_ensure" /\ req'[w] = req[w]
    BY <1>4, EnsureRoleDoes
  <2>2. \/ tx'[w] = tx[w]
        \/ /\ tx'[w].owner = req[w].user
           /\ tx'[w].user = tx[w].user /\ tx'[w].row = tx[w].row
           /\ tx'[w].grant = tx[w].grant /\ tx'[w].value = tx[w].value
           /\ tx'[w].ends = tx[w].ends /\ tx'[w].ended = tx[w].ended
    BY <1>4, EnsureRoleDoes
  <2> QED
    BY <2>1, <2>2
<1> QED
  BY <1>1, <1>2, <1>3, <1>4 DEF BootstrapStep, CommitEnsure
-----------------------------------------------------------------------------
(* A step that a request takes.                                            *)
RequestStep(w) ==
  \/ Authenticate(w) \/ RequestProvisioning(w) \/ RequestBootstrap(w)
  \/ WorkerStep(w) \/ RequestFails(w)

Commits(w) == CommitStart(w) \/ CommitStop(w) \/ CommitUser(w) \/ CommitEnsure(w)

(* Only a COMMIT and the calls of Auth0 change what others can see.        *)
LEMMA QuietStep ==
  ASSUME NEW w \in Workers, RequestStep(w), ~Commits(w), ~CreateAuth0User(w), ~Compensate(w)
  PROVE  UNCHANGED <<people, grantTables>>
<1>1. CASE Authenticate(w) \/ RequestProvisioning(w) \/ RequestBootstrap(w) \/ RequestFails(w)
  BY <1>1 DEF Authenticate, RequestProvisioning, RequestBootstrap, RequestFails
<1>2. CASE GuardStep(w)
  BY <1>2 DEF GuardStep, FindGrant, Authorize, Serve
<1>3. CASE StartStep(w)
  BY <1>3 DEF StartStep, Commits, LookupAccount, BeginStart, FindUnended, EndExpired,
     EndExpiredAfterWait, InsertGrant, Reject
<1>4. CASE StopStep(w)
  BY <1>4 DEF StopStep, Commits, BeginStop, EndOpen, EndOpenAfterWait
<1>5. CASE ProvisionStep(w)
  BY <1>5 DEF ProvisionStep, Commits, InsertUser
<1>6. CASE BootstrapStep(w)
  BY <1>6 DEF BootstrapStep, Commits, EnsureFind, EnsureUser, EnsureRole
<1> QED
  BY <1>1, <1>2, <1>3, <1>4, <1>5, <1>6 DEF RequestStep, WorkerStep

LEMMA WebhookKept ==
  ASSUME NEW w \in Workers, RequestStep(w)
  PROVE  UNCHANGED <<webhook, now>>
<1>1. CASE Authenticate(w) \/ RequestProvisioning(w) \/ RequestBootstrap(w) \/ RequestFails(w)
  BY <1>1 DEF Authenticate, RequestProvisioning, RequestBootstrap, RequestFails
<1>2. CASE GuardStep(w)
  BY <1>2 DEF GuardStep, FindGrant, Authorize, Serve
<1>3. CASE StartStep(w)
  BY <1>3 DEF StartStep, CommitStart, LookupAccount, BeginStart, FindUnended, EndExpired,
     EndExpiredAfterWait, InsertGrant, Reject
<1>4. CASE StopStep(w)
  BY <1>4 DEF StopStep, CommitStop, BeginStop, EndOpen, EndOpenAfterWait
<1>5. CASE ProvisionStep(w)
  BY <1>5 DEF ProvisionStep, CreateAuth0User, CommitUser, Compensate, InsertUser
<1>6. CASE BootstrapStep(w)
  BY <1>6 DEF BootstrapStep, CommitEnsure, EnsureFind, EnsureUser, EnsureRole
<1> QED
  BY <1>1, <1>2, <1>3, <1>4, <1>5, <1>6 DEF RequestStep, WorkerStep

LEMMA StepsOfNext ==
  ASSUME Next
  PROVE  \/ \E w \in Workers : RequestStep(w)
         \/ \E l \in LogIds : Emit(l) \/ HandleEntry(l) \/ Acknowledge(l)
         \/ Tick
BY DEF Next, RequestStep, WorkerStep, WebhookStep

LEMMA RequestStepTyped ==
  ASSUME TypeOK, NEW w \in Workers, Local(w), RequestStep(w)
  PROVE  TypeOK' /\ StepOf(w)
<1>1. StepOf(w)
  BY WorkerStepOf DEF RequestStep, Local
<1>2. UNCHANGED <<webhook, now>>
  BY WebhookKept
<1>3. CASE UNCHANGED <<people, grantTables>>
  BY <1>1, <1>2, <1>3, QuietTyped
<1>4. CASE Commits(w)
  <2>1. TablesTyped
    <3>1. CASE Publish(w)
      BY <3>1, PublishTyped
    <3>2. CASE ~Publish(w)
      BY <1>4, <3>2 DEF Commits, CommitStart, CommitStop, CommitUser, CommitEnsure,
         TablesTyped, TypeOK, grantTables
    <3> QED
      BY <3>1, <3>2
  <2>2. auth0' = auth0
    BY <1>4 DEF Commits, CommitStart, CommitStop, CommitUser, CommitEnsure
  <2>3. inDoubt' = inDoubt \/ (inDoubt' = inDoubt \cup {req[w].user} /\ pc[w] = "commit_user")
    BY <1>4 DEF Commits, CommitStart, CommitStop, CommitUser, CommitEnsure
  <2>4. inDoubt' \subseteq Users
    BY <2>3 DEF TypeOK, Local, Placed
  <2> QED
    BY <1>1, <1>2, <2>1, <2>2, <2>4, RequestTyped DEF TypeOK
<1>5. CASE CreateAuth0User(w) \/ Compensate(w)
  <2>1. req[w].user \in Users
    BY <1>5 DEF CreateAuth0User, Compensate, Local, Placed
  <2>2. auth0' \subseteq Users
    BY <1>5, <2>1 DEF CreateAuth0User, Compensate, TypeOK
  <2>3. TablesTyped /\ inDoubt' = inDoubt
    BY <1>5 DEF CreateAuth0User, Compensate, TablesTyped, TypeOK, grantTables
  <2> QED
    BY <1>1, <1>2, <2>2, <2>3, RequestTyped DEF TypeOK
<1> QED
  BY <1>1, <1>3, <1>4, <1>5, QuietStep

LEMMA RequestStepLocal ==
  ASSUME TypeOK, NEW w \in Workers, Local(w), RequestStep(w)
  PROVE  Local(w)'
BY AuthenticateLocal, RequestProvisioningLocal, RequestBootstrapLocal, GuardStepLocal,
   StartStepLocal, StopStepLocal, ProvisionStepLocal, BootstrapStepLocal, FinishLocal
   DEF RequestStep, WorkerStep, RequestFails

LEMMA EffectTyped ==
  ASSUME NEW e
  PROVE  EffectOf(e) \in {"DEACTIVATED", "ACTIVE", "NONE"}
BY DEF EffectOf

LEMMA OutsideTyped ==
  ASSUME TypeOK, NEW l \in LogIds, Emit(l) \/ HandleEntry(l) \/ Acknowledge(l)
  PROVE  TypeOK' /\ UNCHANGED <<pc, req, tx>>
<1>1. CASE Emit(l)
  BY <1>1 DEF Emit, TypeOK, grantTables
<1>2. CASE HandleEntry(l)
  <2> DEFINE u == EventOf[l].user
             status == EffectOf(EventOf[l])
  <2>1. users' \in [Users -> UserRow]
    <3>1. status # "NONE" => [users EXCEPT ![u].status = status] \in [Users -> UserRow]
      <4>1. status \in {"DEACTIVATED", "ACTIVE", "NONE"}
        BY EffectTyped
      <4> HIDE DEF status, u
      <4> QED
        BY <4>1 DEF TypeOK, UserRow
    <3> HIDE DEF status
    <3>2. users' = users \/ (status # "NONE" /\ users' = [users EXCEPT ![u].status = status])
      BY <1>2 DEF HandleEntry, status
    <3> QED
      BY <3>1, <3>2 DEF TypeOK
  <2>2. ledger' \subseteq LogIds /\ unmatched' \subseteq ledger' /\ applied' \in Seq(LogIds)
    BY <1>2 DEF HandleEntry, TypeOK
  <2>3. UNCHANGED <<pending, emitted, rights, auth0, inDoubt, grantTables, now, pc, req, tx>>
    BY <1>2 DEF HandleEntry
  <2> QED
    BY <2>1, <2>2, <2>3 DEF TypeOK, grantTables
<1>3. CASE Acknowledge(l)
  BY <1>3 DEF Acknowledge, TypeOK, grantTables, people
<1> QED
  BY <1>1, <1>2, <1>3

LEMMA TickTyped ==
  ASSUME TypeOK, Tick
  PROVE  TypeOK' /\ UNCHANGED <<pc, req, tx>>
BY DEF Tick, TypeOK, people, grantTables, webhook

THEOREM InitLocal == Init => \A w \in Workers : Local(w)
<1> SUFFICES ASSUME Init, NEW w \in Workers PROVE Local(w)
  OBVIOUS
<1>1. pc[w] = "idle" /\ req[w] = NoRequest /\ tx[w] = NoTx
  BY DEF Init
<1> QED
  BY <1>1 DEF Local, Placed, Staged, Ordered, StartSteps, StopSteps, ProvisionSteps,
     BootstrapSteps, NoTx, FreeGrant

LEMMA LocalUnchanged ==
  ASSUME NEW v, Local(v), pc'[v] = pc[v], req'[v] = req[v], tx'[v] = tx[v]
  PROVE  Local(v)'
BY DEF Local, Placed, Staged, Ordered

THEOREM TypedStep ==
  TypeOK /\ (\A w \in Workers : Local(w)) /\ [Next]_vars
    => TypeOK' /\ (\A w \in Workers : Local(w)')
<1> SUFFICES ASSUME TypeOK, \A w \in Workers : Local(w), [Next]_vars
             PROVE  TypeOK' /\ (\A w \in Workers : Local(w)')
  OBVIOUS
<1>1. ASSUME NEW w \in Workers, RequestStep(w)
      PROVE  TypeOK' /\ (\A v \in Workers : Local(v)')
  <2>1. TypeOK' /\ StepOf(w)
    BY <1>1, RequestStepTyped
  <2>2. ASSUME NEW v \in Workers PROVE Local(v)'
    <3>1. CASE v = w
      BY <1>1, <3>1, RequestStepLocal
    <3>2. CASE v # w
      BY <2>1, <3>2, LocalUnchanged DEF StepOf, Others
    <3> QED
      BY <3>1, <3>2
  <2> QED
    BY <2>1, <2>2
<1>2. ASSUME UNCHANGED <<pc, req, tx>>, TypeOK' PROVE TypeOK' /\ (\A v \in Workers : Local(v)')
  BY <1>2, LocalUnchanged
<1>3. CASE UNCHANGED vars
  BY <1>2, <1>3 DEF vars, TypeOK
<1> QED
  BY <1>1, <1>2, <1>3, StepsOfNext, OutsideTyped, TickTyped

(* Every variable keeps its type.                                          *)
THEOREM TypeInvariant == Spec => []TypeOK
<1>1. Init => TypeOK /\ \A w \in Workers : Local(w)
  BY InitTyped, InitLocal
<1>2. TypeOK /\ (\A w \in Workers : Local(w)) /\ [Next]_vars
        => (TypeOK /\ \A w \in Workers : Local(w))'
  BY TypedStep
<1> QED
  BY <1>1, <1>2, PTL DEF Spec
-----------------------------------------------------------------------------
(* What a COMMIT does to a grant: it starts the one that was staged, ends  *)
(* the one whose end was staged, and leaves the others alone.              *)
LEMMA PublishedGrant ==
  ASSUME TypeOK, NEW w \in Workers, Publish(w), NEW g \in GrantIds
  PROVE  /\ g = tx[w].grant => grants'[g] = tx[w].value
         /\ g # tx[w].grant /\ g # tx[w].ends => grants'[g] = grants[g]
         /\ g # tx[w].grant /\ g = tx[w].ends =>
              /\ grants'[g].state = "ENDED"
              /\ grants'[g].actor = grants[g].actor /\ grants'[g].tenant = grants[g].tenant
              /\ grants'[g].expires = grants[g].expires
              /\ grants'[g].reason = IF req[w].kind = "stop" THEN "OPERATOR_ENDED" ELSE "EXPIRED"
         /\ auditLog'[g].STARTED = auditLog[g].STARTED + (IF g = tx[w].grant THEN 1 ELSE 0)
         /\ auditLog'[g].ENDED = auditLog[g].ENDED + (IF g = tx[w].ended THEN 1 ELSE 0)
<1> DEFINE reason == IF req[w].kind = "stop" THEN "OPERATOR_ENDED" ELSE "EXPIRED"
           over == [grants[g] EXCEPT !.state = "ENDED", !.reason = reason]
<1>1. grants'[g] = IF g = tx[w].grant THEN tx[w].value
                   ELSE IF g = tx[w].ends THEN over ELSE grants[g]
  BY DEF Publish
<1>2. grants[g] \in Grant
  BY DEF TypeOK
<1>3. /\ over.state = "ENDED" /\ over.reason = reason /\ over.actor = grants[g].actor
      /\ over.tenant = grants[g].tenant /\ over.expires = grants[g].expires
  <2> HIDE DEF reason
  <2> QED
    BY <1>2 DEF Grant
<1> HIDE DEF over
<1>4. /\ auditLog'[g].STARTED = auditLog[g].STARTED + (IF g = tx[w].grant THEN 1 ELSE 0)
      /\ auditLog'[g].ENDED = auditLog[g].ENDED + (IF g = tx[w].ended THEN 1 ELSE 0)
  BY DEF Publish
<1> QED
  BY <1>1, <1>3, <1>4

(* The grants and the requests that the invariant of the grants is about.  *)
AllLocal == \A w \in Workers : Local(w)

LEMMA StagesOf ==
  ASSUME AllLocal, NEW v \in Workers
  PROVE  /\ tx[v].grant # NoGrant => pc[v] = "commit_start" /\ req[v].user \in Users
         /\ tx[v].ends # NoGrant \/ tx[v].ended # NoGrant =>
              pc[v] \in {"insert_grant", "commit_start", "commit_stop"} /\ req[v].user \in Users
         /\ pc[v] = "commit_start" => tx[v].grant # NoGrant
         /\ tx[v].grant = NoGrant => tx[v].value.actor = NoUser
BY DEF AllLocal, Local, Staged, Placed

(* A COMMIT keeps what the other requests rely on.                         *)
LEMMA PublishGrants ==
  ASSUME TypeOK, AllLocal, GrantsInv, NEW w \in Workers, Publish(w), StepOf(w),
         tx'[w] = NoTx, pc'[w] \in {"idle", "compensate"}
  PROVE  GrantsInv'
<1>1. tx[w] \in Tx /\ Starting(w) /\ Ending(w)
  BY DEF TypeOK, GrantsInv
<1>2. /\ tx[w].grant # NoGrant => tx[w].grant \in GrantIds
      /\ tx[w].ends # NoGrant => tx[w].ends \in GrantIds
      /\ tx[w].ended # NoGrant => tx[w].ended \in GrantIds
  BY <1>1 DEF Tx
<1>3. ASSUME NEW g \in GrantIds
      PROVE  /\ grants[g].state = "ENDED" => grants'[g] = grants[g]
             /\ grants[g].state = "OPEN" => grants'[g].actor = grants[g].actor
             /\ grants[g].state = "OPEN" /\ g # tx[w].ends => grants'[g] = grants[g]
             /\ grants[g].state = "OPEN" /\ g = tx[w].ends => grants'[g].state = "ENDED"
             /\ grants[g].state = "FREE" /\ g # tx[w].grant => grants'[g] = grants[g]
             /\ g = tx[w].grant => /\ grants[g].state = "FREE" /\ grants'[g].state = "OPEN"
                                   /\ grants'[g].actor = tx[w].value.actor
                                   /\ grants'[g].reason = "NONE"
             /\ grants[g].state \in {"FREE", "OPEN", "ENDED"}
  <2>1. grants[g] \in Grant
    BY DEF TypeOK
  <2>2. g = tx[w].grant => g # NoGrant
    BY IdentityNullAssumption
  <2>3. g = tx[w].ends => g # NoGrant
    BY IdentityNullAssumption
  <2> QED
    BY <1>1, <2>1, <2>2, <2>3, PublishedGrant DEF Grant, Starting, Ending
<1>4. ASSUME NEW v \in Workers PROVE Starting(v)'
  <2>1. CASE v = w
    BY <2>1 DEF Starting, NoTx
  <2>2. CASE v # w
    <3>1. tx'[v] = tx[v] /\ req'[v] = req[v] /\ Starting(v)
      BY <2>2 DEF StepOf, Others, GrantsInv
    <3> SUFFICES ASSUME tx[v].grant # NoGrant PROVE Starting(v)'
      BY <3>1 DEF Starting
    <3>2. tx[v].grant \in GrantIds
      BY DEF TypeOK, Tx
    <3>3. tx[w].grant # tx[v].grant /\ tx[w].value.actor # req[v].user
      BY <2>2, <3>1 DEF Starting, Others
    <3>4. grants'[tx[v].grant].state = "FREE"
      BY <1>3, <3>1, <3>2, <3>3 DEF Starting
    <3>5. OpenGrants(req[v].user)' \subseteq OpenGrants(req[v].user)
      BY <1>3, <3>1, <3>3 DEF OpenGrants
    <3>6. req[v].user # NoUser
      BY StagesOf, IdentityNullAssumption
    <3>7. ASSUME NEW x \in Others(v)
          PROVE  tx'[x].grant # tx[v].grant /\ tx'[x].value.actor # req[v].user
      <4>1. CASE x = w
        BY <3>6, <4>1 DEF NoTx, FreeGrant
      <4>2. CASE x # w
        BY <3>1, <4>2 DEF Starting, StepOf, Others
      <4> QED
        BY <4>1, <4>2
    <3> QED
      BY <3>1, <3>4, <3>5, <3>7 DEF Starting, Others
  <2> QED
    BY <2>1, <2>2
<1>5. ASSUME NEW v \in Workers PROVE Ending(v)'
  <2>1. CASE v = w
    BY <2>1 DEF Ending, NoTx
  <2>2. CASE v # w
    <3>1. tx'[v] = tx[v] /\ req'[v] = req[v] /\ Ending(v)
      BY <2>2 DEF StepOf, Others, GrantsInv
    <3>2. tx[v] \in Tx
      BY DEF TypeOK
    <3>3. ASSUME tx[v].ends # NoGrant
          PROVE  /\ grants'[tx[v].ends].state = "OPEN" /\ grants'[tx[v].ends].actor = req[v].user
                 /\ \A x \in Others(v) : tx'[x].ends # tx[v].ends
      <4>1. tx[v].ends \in GrantIds /\ tx[w].ends # tx[v].ends
        BY <2>2, <3>1, <3>2, <3>3 DEF Ending, Tx, Others
      <4>2. \A x \in Others(v) : tx'[x].ends # tx[v].ends
        BY <3>1, <3>3 DEF Ending, StepOf, Others, NoTx
      <4> QED
        BY <1>3, <3>1, <3>3, <4>1, <4>2 DEF Ending
    <3>4. ASSUME tx[v].ended # NoGrant
          PROVE  tx[v].ended = tx[v].ends \/ grants'[tx[v].ended].state = "ENDED"
      <4>1. tx[v].ended \in GrantIds
        BY <3>2, <3>4 DEF Tx
      <4> QED
        BY <1>3, <3>1, <3>4, <4>1 DEF Ending
    <3> QED
      BY <3>1, <3>3, <3>4 DEF Ending
  <2> QED
    BY <2>1, <2>2
<1>6. ASSUME NEW v \in Workers PROVE Found(v)'
  <2>1. CASE v = w
    BY <2>1 DEF Found
  <2>2. CASE v # w
    <3>1. pc'[v] = pc[v] /\ req'[v] = req[v] /\ Found(v)
      BY <2>2 DEF StepOf, Others, GrantsInv
    <3> QED
      BY <1>3, <3>1 DEF Found
  <2> QED
    BY <2>1, <2>2
<1>7. GrantHistory'
  <2>1. ASSUME NEW u \in Users, NEW g \in OpenGrants(u)', NEW h \in OpenGrants(u)'
        PROVE  g = h
    <3>1. \A k \in OpenGrants(u)' : k = tx[w].grant \/ (k \in OpenGrants(u) /\ k # tx[w].ends)
      BY <1>3 DEF OpenGrants
    <3>2. tx[w].grant \in GrantIds /\ tx[w].value.actor = u => OpenGrants(u) \subseteq {tx[w].ends}
      BY <1>1, IdentityNullAssumption DEF Starting
    <3>3. \A k \in OpenGrants(u)' : k = tx[w].grant => k \in GrantIds /\ tx[w].value.actor = u
      BY <1>3 DEF OpenGrants
    <3>4. \A x, y \in OpenGrants(u) : x = y
      BY DEF GrantsInv, GrantHistory
    <3> QED
      BY <3>1, <3>2, <3>3, <3>4
  <2>2. ASSUME NEW g \in GrantIds
        PROVE  /\ auditLog'[g].STARTED = IF grants'[g].state = "FREE" THEN 0 ELSE 1
               /\ auditLog'[g].ENDED > 0 => grants'[g].state = "ENDED"
               /\ grants'[g].reason = "OPERATOR_ENDED" => auditLog'[g].ENDED > 0
    <3>1. /\ auditLog[g].STARTED = IF grants[g].state = "FREE" THEN 0 ELSE 1
          /\ auditLog[g].ENDED > 0 => grants[g].state = "ENDED"
          /\ grants[g].reason = "OPERATOR_ENDED" => auditLog[g].ENDED > 0
          /\ auditLog[g].STARTED \in Nat /\ auditLog[g].ENDED \in Nat
      BY DEF GrantsInv, GrantHistory, TypeOK
    <3>2. g = tx[w].grant \/ g = tx[w].ends \/ g = tx[w].ended => g # NoGrant
      BY IdentityNullAssumption
    <3>3. g = tx[w].ended =>
            (g = tx[w].ends /\ grants[g].state = "OPEN") \/ grants[g].state = "ENDED"
      BY <1>1, <3>2 DEF Ending
    <3>4. g = tx[w].ends => grants[g].state = "OPEN"
      BY <1>1, <3>2 DEF Ending
    <3>5. g = tx[w].ends /\ req[w].kind = "stop" => g = tx[w].ended
      <4>1. pc[w] \in {"insert_grant", "commit_start", "commit_stop"} =>
              req[w].kind # "stop" \/ tx[w].ended = tx[w].ends
        BY DEF AllLocal, Local, Placed, Staged, StartSteps
      <4> QED
        BY <3>2, <4>1, StagesOf
    <3> QED
      BY <1>3, <3>1, <3>3, <3>4, <3>5, PublishedGrant
  <2> QED
    BY <2>1, <2>2 DEF GrantHistory
<1> QED
  BY <1>4, <1>5, <1>6, <1>7 DEF GrantsInv

(* A step of w that changes no grant, and stages no more than it had:      *)
(* it is enough to look at what w itself relies on.                        *)
LEMMA GrantsBystander ==
  ASSUME TypeOK, AllLocal, GrantsInv, NEW w \in Workers, StepOf(w), UNCHANGED grantTables,
         tx'[w].grant \in {tx[w].grant, NoGrant},
         tx'[w].value.actor \in {tx[w].value.actor, NoUser},
         tx'[w].ends \in {tx[w].ends, NoGrant},
         Starting(w)', Ending(w)', Found(w)'
  PROVE  GrantsInv'
<1> USE DEF grantTables
<1>1. ASSUME NEW v \in Workers, v # w PROVE Starting(v)' /\ Ending(v)' /\ Found(v)'
  <2>1. /\ pc'[v] = pc[v] /\ tx'[v] = tx[v] /\ req'[v] = req[v]
        /\ Starting(v) /\ Ending(v) /\ Found(v)
    BY <1>1 DEF StepOf, Others, GrantsInv
  <2>2. Starting(v)'
    <3> SUFFICES ASSUME tx[v].grant # NoGrant PROVE Starting(v)'
      BY <2>1 DEF Starting
    <3>1. req[v].user # NoUser
      BY StagesOf, IdentityNullAssumption
    <3>2. ASSUME NEW x \in Others(v)
          PROVE  tx'[x].grant # tx[v].grant /\ tx'[x].value.actor # req[v].user
      <4>1. tx[x].grant # tx[v].grant /\ tx[x].value.actor # req[v].user
        BY <2>1 DEF Starting
      <4> QED
        BY <3>1, <4>1 DEF StepOf, Others
    <3> QED
      BY <2>1, <3>2 DEF Starting, OpenGrants, Others
  <2>3. Ending(v)'
    BY <2>1 DEF Ending, StepOf, Others
  <2>4. Found(v)'
    BY <2>1 DEF Found
  <2> QED
    BY <2>2, <2>3, <2>4
<1>2. GrantHistory'
  BY DEF GrantsInv, GrantHistory, OpenGrants
<1> QED
  BY <1>1, <1>2 DEF GrantsInv

(* A step of w that ends where no grant is at hand.                        *)
LEMMA GrantsIdle ==
  ASSUME TypeOK, AllLocal, GrantsInv, NEW w \in Workers, StepOf(w), Local(w)',
         UNCHANGED grantTables,
         pc'[w] \notin {"insert_grant", "commit_start", "commit_stop", "end_expired",
                        "end_expired_wait", "end_open_wait"}
  PROVE  GrantsInv'
<1>1. tx'[w].grant = NoGrant /\ tx'[w].value.actor = NoUser /\ tx'[w].ends = NoGrant
      /\ tx'[w].ended = NoGrant
  BY DEF Local, Staged
<1>2. Starting(w)' /\ Ending(w)' /\ Found(w)'
  BY <1>1 DEF Starting, Ending, Found
<1> QED
  BY <1>1, <1>2, GrantsBystander

LEMMA FindUnendedGrants ==
  ASSUME TypeOK, AllLocal, GrantsInv, NEW w \in Workers, StepOf(w), Local(w)', FindUnended(w)
  PROVE  GrantsInv'
<1>1. UNCHANGED grantTables /\ pc[w] = "find_unended"
  BY DEF FindUnended
<1>2. pc'[w] \in {"insert_grant", "end_expired", "reject"}
  BY DEF FindUnended, Goto, TypeOK
<1>3. CASE pc'[w] = "reject"
  BY <1>1, <1>3, GrantsIdle
<1>4. CASE pc'[w] \in {"insert_grant", "end_expired"}
  <2>1. tx'[w] = tx[w]
    BY <1>4 DEF FindUnended, Goto, TypeOK
  <2>2. tx[w].ends = NoGrant /\ tx[w].ended = NoGrant /\ tx[w].grant = NoGrant
    BY <1>1 DEF AllLocal, Local, Staged
  <2>3. Starting(w)' /\ Ending(w)'
    BY <2>1, <2>2 DEF Starting, Ending
  <2>4. Found(w)'
    <3>1. CASE pc'[w] = "insert_grant"
      BY <3>1 DEF Found
    <3>2. CASE pc'[w] = "end_expired"
      <4> DEFINE g == CHOOSE x \in OpenGrants(req[w].user) : TRUE
      <4>1. OpenGrants(req[w].user) # {} /\ req' = [req EXCEPT ![w].grant = g]
        BY <3>2 DEF FindUnended, Goto, TypeOK
      <4>2. g \in OpenGrants(req[w].user)
        BY <4>1, SomeOpen
      <4> HIDE DEF g
      <4>3. req'[w].grant = g /\ req'[w].user = req[w].user
        BY <4>1 DEF TypeOK, Request
      <4> QED
        BY <1>1, <3>2, <4>2, <4>3 DEF Found, OpenGrants, grantTables
    <3> QED
      BY <1>4, <3>1, <3>2
  <2> QED
    BY <1>1, <2>1, <2>3, <2>4, GrantsBystander
<1> QED
  BY <1>2, <1>3, <1>4

(* A statement that ends a grant: the one it ends is the actor's only open *)
(* one, and the one it will audit is that one or has ended.                *)
LEMMA EndNowGrants ==
  ASSUME TypeOK, AllLocal, GrantsInv, NEW w \in Workers, StepOf(w), UNCHANGED grantTables,
         NEW g, NEW next \in {"insert_grant", "commit_stop"}, EndNow(w, g, next), ~Finish(w),
         pc[w] \in {"end_expired", "end_expired_wait", "end_open", "end_open_wait"},
         ~GrantHeld(w, g),
         g # NoGrant => g \in OpenGrants(req[w].user),
         Audited(w, g) # NoGrant =>
           Audited(w, g) = g \/ grants[Audited(w, g)].state = "ENDED"
  PROVE  GrantsInv'
<1>1. /\ pc'[w] = next /\ req'[w].user = req[w].user
      /\ tx'[w].grant = tx[w].grant /\ tx'[w].value = tx[w].value
      /\ tx'[w].ends = g /\ tx'[w].ended = Audited(w, g)
  BY EndNowDoes
<1>2. tx[w].grant = NoGrant /\ tx[w].ends = NoGrant
  BY DEF AllLocal, Local, Staged
<1>3. Starting(w)'
  BY <1>1, <1>2 DEF Starting
<1>4. Found(w)'
  BY <1>1 DEF Found
<1>5. Ending(w)'
  BY <1>1 DEF Ending, OpenGrants, GrantHeld, StepOf, Others, grantTables
<1>6. ASSUME NEW v \in Workers, v # w PROVE Starting(v)' /\ Ending(v)' /\ Found(v)'
  <2>1. /\ pc'[v] = pc[v] /\ tx'[v] = tx[v] /\ req'[v] = req[v]
        /\ Starting(v) /\ Ending(v) /\ Found(v)
    BY <1>6 DEF StepOf, Others, GrantsInv
  <2>2. Starting(v)'
    BY <1>1, <2>1 DEF Starting, OpenGrants, StepOf, Others, grantTables
  <2>3. Ending(v)'
    <3>1. tx[v].ends # NoGrant => tx[v].ends # g
      BY <1>6 DEF GrantHeld, Others
    <3> QED
      BY <1>1, <2>1, <3>1 DEF Ending, StepOf, Others, grantTables
  <2>4. Found(v)'
    BY <2>1 DEF Found, grantTables
  <2> QED
    BY <2>2, <2>3, <2>4
<1>7. GrantHistory'
  BY DEF GrantsInv, GrantHistory, OpenGrants, grantTables
<1> QED
  BY <1>3, <1>4, <1>5, <1>6, <1>7 DEF GrantsInv

LEMMA EndGrantGrants ==
  ASSUME TypeOK, AllLocal, GrantsInv, NEW w \in Workers, StepOf(w), Local(w)',
         UNCHANGED grantTables, NEW waiting, NEW next, EndGrant(w, waiting, next),
         \/ pc[w] = "end_expired" /\ waiting = "end_expired_wait" /\ next = "insert_grant"
         \/ pc[w] = "end_open" /\ waiting = "end_open_wait" /\ next = "commit_stop"
  PROVE  GrantsInv'
<1> DEFINE u == req[w].user
           open == OpenGrants(u)
           g == IF open = {} THEN NoGrant ELSE CHOOSE x \in open : TRUE
<1>1. g # NoGrant => g \in open
  BY SomeOpen
<1>2. open \subseteq {g} /\ u \in Users
  <2>1. u \in Users
    BY DEF AllLocal, Local, Placed
  <2>2. \A x, y \in open : x = y
    BY <2>1 DEF GrantsInv, GrantHistory
  <2> QED
    BY <2>1, <2>2, SomeOpen
<1>3. pc[w] = "end_expired" =>
        /\ req[w].grant \in GrantIds /\ grants[req[w].grant].actor = u
        /\ req[w].grant = g \/ grants[req[w].grant].state = "ENDED"
  <2>1. pc[w] = "end_expired" =>
          /\ req[w].grant \in GrantIds /\ grants[req[w].grant].state # "FREE"
          /\ grants[req[w].grant].actor = u
    BY DEF GrantsInv, Found
  <2>2. req[w].grant \in GrantIds => grants[req[w].grant].state \in {"FREE", "OPEN", "ENDED"}
    BY DEF TypeOK, Grant
  <2> QED
    BY <1>2, <2>1, <2>2 DEF OpenGrants
<1> HIDE DEF g
<1>4. pc[w] = "end_open" => req[w].kind = "stop"
  BY DEF AllLocal, Local, Placed, StopSteps
<1>5. pc[w] = "end_expired" => req[w].kind = "start"
  BY DEF AllLocal, Local, Placed, StartSteps
<1>6. CASE GrantHeld(w, g)
  <2>1. Goto(w, waiting) /\ req' = [req EXCEPT ![w].waits = g] /\ tx' = tx
    BY <1>6 DEF EndGrant, g
  <2>2. /\ pc'[w] = waiting /\ req'[w].waits = g
        /\ req'[w].grant = req[w].grant /\ req'[w].user = u
    BY <2>1 DEF Goto, TypeOK, Request
  <2>3. g \in open
    BY <1>1, <1>6 DEF GrantHeld
  <2>4. Starting(w)' /\ Ending(w)'
    <3>1. tx[w].grant = NoGrant /\ tx[w].ends = NoGrant /\ tx[w].ended = NoGrant
      BY DEF AllLocal, Local, Staged
    <3> QED
      BY <2>1, <3>1 DEF Starting, Ending
  <2>5. Found(w)'
    <3>1. g \in GrantIds /\ grants[g].state # "FREE" /\ grants[g].actor = u
      BY <2>3 DEF OpenGrants
    <3>2. CASE pc[w] = "end_open"
      BY <2>2, <3>1, <3>2 DEF Found, grantTables
    <3>3. CASE pc[w] = "end_expired"
      <4>1. grants[req[w].grant].state # "FREE"
        BY <1>3, <3>1, <3>3
      <4> QED
        BY <1>3, <2>2, <3>1, <3>3, <4>1 DEF Found, grantTables
    <3> QED
      BY <3>2, <3>3
  <2> QED
    BY <2>1, <2>4, <2>5, GrantsBystander
<1>7. CASE ~GrantHeld(w, g)
  <2>1. EndNow(w, g, next)
    BY <1>7 DEF EndGrant, g
  <2>2. CASE Finish(w)
    BY <2>2, FinishLocal, GrantsIdle
  <2>3. CASE ~Finish(w)
    <3>1. Audited(w, g) # NoGrant =>
            Audited(w, g) = g \/ grants[Audited(w, g)].state = "ENDED"
      BY <1>3, <1>4, <1>5 DEF Audited
    <3> QED
      BY <1>1, <1>7, <2>1, <2>3, <3>1, EndNowGrants
  <2> QED
    BY <2>2, <2>3
<1> QED
  BY <1>6, <1>7

LEMMA EndGrantAfterWaitGrants ==
  ASSUME TypeOK, AllLocal, GrantsInv, NEW w \in Workers, StepOf(w), Local(w)',
         UNCHANGED grantTables, NEW next, EndGrantAfterWait(w, next),
         \/ pc[w] = "end_expired_wait" /\ next = "insert_grant"
         \/ pc[w] = "end_open_wait" /\ next = "commit_stop"
  PROVE  GrantsInv'
<1> DEFINE u == req[w].user
           waits == req[w].waits
           g == IF grants[waits].state = "OPEN" THEN waits ELSE NoGrant
<1>1. waits \in GrantIds /\ grants[waits].state # "FREE" /\ grants[waits].actor = u
  BY DEF GrantsInv, Found
<1>2. grants[waits].state \in {"OPEN", "ENDED"}
  BY <1>1 DEF TypeOK, Grant
<1>3. g # NoGrant => g \in OpenGrants(u)
  BY <1>1 DEF OpenGrants
<1>4. ~GrantHeld(w, g) /\ EndNow(w, g, next)
  BY DEF EndGrantAfterWait, GrantHeld
<1>5. Audited(w, g) # NoGrant => Audited(w, g) = g \/ grants[Audited(w, g)].state = "ENDED"
  <2>1. pc[w] = "end_open_wait" => req[w].kind = "stop"
    BY DEF AllLocal, Local, Placed, StopSteps
  <2>2. pc[w] = "end_expired_wait" => req[w].kind = "start"
    BY DEF AllLocal, Local, Placed, StartSteps
  <2>3. pc[w] = "end_expired_wait" =>
          req[w].grant = waits \/ grants[req[w].grant].state = "ENDED"
    BY DEF GrantsInv, Found
  <2> QED
    BY <1>2, <2>1, <2>2, <2>3 DEF Audited
<1> HIDE DEF g
<1>6. CASE Finish(w)
  BY <1>6, FinishLocal, GrantsIdle
<1>7. CASE ~Finish(w)
  BY <1>3, <1>4, <1>5, <1>7, EndNowGrants
<1> QED
  BY <1>6, <1>7

(* The unique index: the transaction that stages a grant is the only one   *)
(* that gives this actor one.                                              *)
LEMMA InsertGrantGrants ==
  ASSUME TypeOK, AllLocal, GrantsInv, NEW w \in Workers, StepOf(w), Local(w)', InsertGrant(w)
  PROVE  GrantsInv'
<1>0. UNCHANGED grantTables /\ pc[w] = "insert_grant"
  BY DEF InsertGrant
<1>1. CASE Finish(w)
  BY <1>0, <1>1, FinishLocal, GrantsIdle
<1>2. CASE ~Finish(w)
  <2> DEFINE u == req[w].user
             value == [state |-> "OPEN", actor |-> u, account |-> req[w].target,
                       tenant |-> req[w].row.tenant, started |-> tx[w].at,
                       expires |-> now + TTL, reason |-> "NONE"]
  <2>1. PICK g \in GrantIds :
          /\ grants[g].state = "FREE" /\ \A v \in Others(w) : tx[v].grant # g
          /\ tx' = [tx EXCEPT ![w].grant = g, ![w].value = value]
    BY <1>2 DEF InsertGrant
  <2>2. /\ pc'[w] = "commit_start" /\ req'[w] = req[w]
        /\ \A v \in Others(w) : tx[v].value.actor # u
        /\ OpenGrants(u) \subseteq {tx[w].ends}
    BY <1>2 DEF InsertGrant, Goto, TypeOK
  <2>3. /\ tx'[w].grant = g /\ tx'[w].value = value
        /\ tx'[w].ends = tx[w].ends /\ tx'[w].ended = tx[w].ended
    <3> HIDE DEF value
    <3>1. tx[w] \in Tx
      BY DEF TypeOK
    <3> QED
      BY <2>1, <3>1 DEF TypeOK, Tx
  <2>4. /\ tx'[w].value.state = "OPEN" /\ tx'[w].value.reason = "NONE"
        /\ tx'[w].value.actor = u /\ tx'[w].value.tenant = req[w].row.tenant
    BY <2>3
  <2> HIDE DEF value
  <2>5. Starting(w)'
    BY <1>0, <2>1, <2>2, <2>3, <2>4 DEF Starting, OpenGrants, StepOf, Others, grantTables
  <2>6. Ending(w)'
    <3>1. Ending(w)
      BY DEF GrantsInv
    <3> QED
      BY <1>0, <2>2, <2>3, <3>1 DEF Ending, StepOf, Others, grantTables
  <2>7. Found(w)'
    BY <2>2 DEF Found
  <2>8. ASSUME NEW v \in Workers, v # w PROVE Starting(v)' /\ Ending(v)' /\ Found(v)'
    <3>1. /\ pc'[v] = pc[v] /\ tx'[v] = tx[v] /\ req'[v] = req[v]
          /\ Starting(v) /\ Ending(v) /\ Found(v)
      BY <2>8 DEF StepOf, Others, GrantsInv
    <3>2. Starting(v)'
      <4> SUFFICES ASSUME tx[v].grant # NoGrant PROVE Starting(v)'
        BY <3>1 DEF Starting
      <4>1. tx[v].grant # g /\ req[v].user # u
        BY <2>1, <2>2, <2>8, <3>1 DEF Others, Starting
      <4>2. \A x \in Others(v) : tx'[x].grant # tx[v].grant /\ tx'[x].value.actor # req[v].user
        BY <2>3, <2>4, <3>1, <4>1 DEF StepOf, Others, Starting
      <4> QED
        BY <1>0, <3>1, <4>2 DEF Starting, OpenGrants, Others, grantTables
    <3>3. Ending(v)'
      BY <1>0, <2>3, <3>1 DEF Ending, StepOf, Others, grantTables
    <3>4. Found(v)'
      BY <1>0, <3>1 DEF Found, grantTables
    <3> QED
      BY <3>2, <3>3, <3>4
  <2>9. GrantHistory'
    BY <1>0 DEF GrantsInv, GrantHistory, OpenGrants, grantTables
  <2> QED
    BY <2>5, <2>6, <2>7, <2>8, <2>9 DEF GrantsInv
<1> QED
  BY <1>1, <1>2

(* Every step of a request keeps the invariant of the grants.              *)
LEMMA RequestStepGrants ==
  ASSUME TypeOK, AllLocal, GrantsInv, NEW w \in Workers, RequestStep(w)
  PROVE  GrantsInv'
<1>1. StepOf(w) /\ Local(w)'
  BY RequestStepTyped, RequestStepLocal DEF AllLocal
<1>2. CASE Publish(w) /\ pc'[w] \in {"idle", "compensate"} /\ tx'[w] = NoTx
  BY <1>1, <1>2, PublishGrants
<1>3. CASE EndExpired(w) \/ EndOpen(w)
  BY <1>1, <1>3, EndGrantGrants DEF EndExpired, EndOpen
<1>4. CASE EndExpiredAfterWait(w) \/ EndOpenAfterWait(w)
  BY <1>1, <1>4, EndGrantAfterWaitGrants DEF EndExpiredAfterWait, EndOpenAfterWait
<1>5. CASE InsertGrant(w)
  BY <1>1, <1>5, InsertGrantGrants
<1>6. CASE FindUnended(w)
  BY <1>1, <1>6, FindUnendedGrants
<1> DEFINE Idle == /\ UNCHANGED grantTables
                   /\ pc'[w] \notin {"insert_grant", "commit_start", "commit_stop", "end_expired",
                                     "end_expired_wait", "end_open_wait"}
<1>7. CASE Idle
  BY <1>1, <1>7, GrantsIdle
<1>8. CASE Finish(w) /\ UNCHANGED grantTables
  BY <1>7, <1>8, FinishLocal
<1>9. CASE Authenticate(w) \/ RequestProvisioning(w) \/ RequestBootstrap(w)
  <2>1. Idle
    BY <1>9 DEF Authenticate, RequestProvisioning, RequestBootstrap, Goto, TypeOK
  <2> QED
    BY <1>7, <2>1
<1>10. CASE GuardStep(w)
  <2>1. CASE FindGrant(w)
    BY <1>7, <2>1 DEF FindGrant, Goto, TypeOK
  <2>2. CASE Authorize(w) /\ ~Finish(w)
    <3>1. req[w].kind \in {"search", "confirm", "start", "stop"}
      BY <2>2 DEF Authorize, AllLocal, Local, Placed
    <3>2. pc'[w] \in {"serve", "lookup", "reject", "stop_connect"}
      BY <2>2, <3>1 DEF Authorize, Goto, TypeOK
    <3> QED
      BY <1>7, <2>2, <3>2 DEF Authorize
  <2> QED
    BY <1>8, <1>10, <2>1, <2>2 DEF GuardStep, Authorize, Serve
<1>11. CASE (LookupAccount(w) \/ BeginStart(w) \/ BeginStop(w)) /\ ~Finish(w)
  BY <1>7, <1>11 DEF LookupAccount, BeginStart, BeginStop, Connect, Goto, TypeOK
<1>12. CASE (CreateAuth0User(w) \/ InsertUser(w)) /\ ~Finish(w)
  <2>1. UNCHANGED grantTables
    BY <1>12, QuietStep DEF CreateAuth0User, InsertUser
  <2>2. pc'[w] \in {"insert_user", "commit_user", "compensate"}
    BY <1>12 DEF CreateAuth0User, InsertUser, Goto, TypeOK
  <2>3. pc'[w] # "commit_user" \/ pc'[w] = "commit_user"
    OBVIOUS
  <2> QED
    BY <1>7, <2>1, <2>2
<1>13. CASE CommitUser(w)
  <2>1. CASE ~Publish(w)
    BY <1>7, <1>13, <2>1 DEF CommitUser, Goto, TypeOK
  <2>2. CASE Publish(w)
    <3>1. Finish(w) \/ (Goto(w, "compensate") /\ tx' = [tx EXCEPT ![w] = NoTx])
      BY <1>13 DEF CommitUser
    <3> QED
      BY <1>2, <2>2, <3>1, FinishLocal DEF Goto, TypeOK
  <2> QED
    BY <2>1, <2>2
<1>14. CASE EnsureFind(w) \/ EnsureUser(w) \/ EnsureRole(w)
  <2>1. UNCHANGED grantTables
    BY <1>14 DEF EnsureFind, EnsureUser, EnsureRole
  <2>2. CASE ~Finish(w)
    BY <1>7, <1>14, <2>1, <2>2, EnsureFindDoes, EnsureUserDoes, EnsureRoleDoes
  <2> QED
    BY <1>8, <2>1, <2>2
<1>15. CASE CommitStart(w) \/ CommitStop(w) \/ CommitEnsure(w)
  BY <1>2, <1>15, FinishLocal DEF CommitStart, CommitStop, CommitEnsure
<1> HIDE DEF Idle
<1>16. CASE /\ \/ LookupAccount(w) \/ BeginStart(w) \/ Reject(w) \/ BeginStop(w)
               \/ CreateAuth0User(w) \/ InsertUser(w) \/ Compensate(w) \/ RequestFails(w)
            /\ Finish(w)
  BY <1>8, <1>16 DEF LookupAccount, BeginStart, Reject, BeginStop, CreateAuth0User, InsertUser,
     Compensate, RequestFails, people
<1> QED
  <2>1. CASE StartStep(w)
    BY <1>3, <1>4, <1>5, <1>6, <1>11, <1>15, <1>16, <2>1 DEF StartStep, Reject
  <2>2. CASE StopStep(w)
    BY <1>3, <1>4, <1>11, <1>15, <1>16, <2>2 DEF StopStep
  <2>3. CASE ProvisionStep(w)
    BY <1>12, <1>13, <1>16, <2>3 DEF ProvisionStep, Compensate
  <2>4. CASE BootstrapStep(w)
    BY <1>14, <1>15, <2>4 DEF BootstrapStep
  <2>5. CASE RequestFails(w)
    BY <1>16, <2>5 DEF RequestFails
  <2> QED
    BY <1>9, <1>10, <2>1, <2>2, <2>3, <2>4, <2>5 DEF RequestStep, WorkerStep
-----------------------------------------------------------------------------
(* A user is there for good, of the same class and tenant, and keeps every *)
(* role.                                                                   *)
Lasting(u) ==
  /\ Exists(u) => /\ Exists(u)'
                  /\ users'[u].class = users[u].class /\ users'[u].tenant = users[u].tenant
  /\ rights[u].roles \subseteq rights'[u].roles

LEMMA FitsMore ==
  ASSUME NEW row, NEW after, NEW held \in Rights, Fits(row, held), after.class = row.class
  PROVE  /\ Fits(after, held)
         /\ Fits(after, [held EXCEPT !.roles = @ \cup {"platform_admin"}])
<1> DEFINE more == [held EXCEPT !.roles = @ \cup {"platform_admin"}]
<1>1. more.roles = held.roles \cup {"platform_admin"} /\ more.account = held.account
  BY DEF Rights
<1> HIDE DEF more
<1>2. Fits(after, more)
  BY <1>1 DEF Fits, OperatorRoles
<1> QED
  BY <1>2 DEF Fits, more

LEMMA PublishedUser ==
  ASSUME TypeOK, NEW w \in Workers, Publish(w), NEW u \in Users
  PROVE  /\ users'[u] = IF u = tx[w].user THEN tx[w].row ELSE users[u]
         /\ rights'[u] = IF u = tx[w].owner THEN tx[w].rights ELSE rights[u]
<1>1. /\ users' = IF tx[w].user = NoUser THEN users ELSE [users EXCEPT ![tx[w].user] = tx[w].row]
      /\ rights' = IF tx[w].owner = NoUser THEN rights
                   ELSE [rights EXCEPT ![tx[w].owner] = tx[w].rights]
  BY Zenon DEF Publish
<1>2. u # NoUser /\ users \in [Users -> UserRow] /\ rights \in [Users -> Rights]
  BY IdentityNullAssumption DEF TypeOK
<1> QED
  BY <1>1, <1>2

CommitSteps == {"commit_start", "commit_stop", "commit_user", "commit_ensure"}

(* What a COMMIT makes of a user.                                          *)
LEMMA PublishWhole ==
  ASSUME TypeOK, AllLocal, UsersInv, NEW w \in Workers, Publish(w), pc[w] \in CommitSteps,
         NEW u \in Users
  PROVE  Whole(u)' /\ Lasting(u)
<1>1. /\ users'[u] = IF u = tx[w].user THEN tx[w].row ELSE users[u]
      /\ rights'[u] = IF u = tx[w].owner THEN tx[w].rights ELSE rights[u]
  BY PublishedUser
<1>2. Whole(u) /\ RowStaged(w) /\ RightsStaged(w) /\ BootstrapRead(w) /\ u # NoUser
      /\ rights[u] \in Rights
  BY IdentityNullAssumption DEF UsersInv, TypeOK
<1>3. CASE u # tx[w].user /\ u # tx[w].owner
  BY <1>1, <1>2, <1>3 DEF Whole, Lasting, Exists
<1>4. CASE pc[w] = "commit_user" /\ (u = tx[w].user \/ u = tx[w].owner)
  <2>1. /\ tx[w].user = u /\ tx[w].owner = u /\ tx[w].row = req[w].row
        /\ tx[w].rights = req[w].rights /\ req[w].row.status = "ACTIVE"
        /\ Fits(req[w].row, req[w].rights)
    BY <1>4 DEF AllLocal, Local, Ordered, ProvisionSteps
  <2>2. ~Exists(u) /\ rights[u] = NoRights
    BY <1>2, <1>4, <2>1 DEF RowStaged, Whole
  <2> QED
    BY <1>1, <2>1, <2>2 DEF Whole, Lasting, Exists, NoRights
<1>5. CASE pc[w] # "commit_user" /\ (u = tx[w].user \/ u = tx[w].owner)
  <2>1. pc[w] = "commit_ensure" /\ u = req[w].user
    BY <1>2, <1>5 DEF AllLocal, Local, Staged, CommitSteps
  <2>2. tx[w].owner = NoUser \/ tx[w].owner = u
    BY <2>1 DEF AllLocal, Local, Staged
  <2>3. CASE tx[w].owner = u
    <3>1. rights'[u] = [rights[u] EXCEPT !.roles = @ \cup {"platform_admin"}]
      BY <1>1, <1>2, <2>1, <2>3 DEF RightsStaged
    <3>2. /\ rights'[u].roles = rights[u].roles \cup {"platform_admin"}
          /\ rights'[u].account = rights[u].account
      BY <1>2, <3>1 DEF Rights
    <3>3. CASE Exists(u)
      <4>1. users'[u].class = users[u].class /\ users'[u].tenant = users[u].tenant /\ Exists(u)'
        BY <1>1, <1>2, <3>3 DEF RowStaged, AllLocal, Local, Ordered, Exists
      <4> QED
        BY <1>2, <3>1, <3>2, <3>3, <4>1, FitsMore DEF Whole, Lasting
    <3>4. CASE ~Exists(u)
      <4>1. tx[w].user = u /\ rights[u] = NoRights
        BY <1>2, <2>3, <3>4 DEF RightsStaged, Whole
      <4>2. users'[u].status = "ACTIVE" /\ users'[u].class = "OPERATOR"
        BY <1>1, <1>2, <2>1, <3>4, <4>1 DEF RowStaged, AllLocal, Local, Ordered
      <4> QED
        BY <3>2, <3>4, <4>1, <4>2 DEF Whole, Lasting, Exists, Fits, NoRights, OperatorRoles
    <3> QED
      BY <3>3, <3>4
  <2>4. CASE tx[w].owner = NoUser
    <3>1. tx[w].user = u /\ rights'[u] = rights[u]
      BY <1>1, <1>2, <1>5, <2>4
    <3>2. "platform_admin" \in rights[u].roles
      BY <1>2, <2>1, <2>4 DEF BootstrapRead
    <3>3. Exists(u)
      BY <1>2, <3>2 DEF Whole, NoRights
    <3>4. users'[u].class = users[u].class /\ users'[u].tenant = users[u].tenant /\ Exists(u)'
      BY <1>1, <1>2, <3>1, <3>3 DEF RowStaged, AllLocal, Local, Ordered, Exists
    <3> QED
      BY <1>2, <3>1, <3>3, <3>4, FitsMore DEF Whole, Lasting
  <2> QED
    BY <2>2, <2>3, <2>4
<1> QED
  BY <1>3, <1>4, <1>5

(* The other requests, while a step leaves the rows they hold alone.       *)
LEMMA UserBystander ==
  ASSUME TypeOK, AllLocal, UsersInv, NEW v \in Workers,
         pc'[v] = pc[v], req'[v] = req[v], tx'[v] = tx[v],
         \A u \in Users : Lasting(u),
         \A u \in Users : u = tx[v].user => (Exists(u)' <=> Exists(u)),
         \A u \in Users : u = tx[v].owner => rights'[u] = rights[u],
         \A x \in Others(v) : tx'[x].user \in {tx[x].user, NoUser} \/ tx'[x].user # tx[v].user,
         \A x \in Others(v) : tx'[x].owner \in {tx[x].owner, NoUser} \/ tx'[x].owner # tx[v].owner
  PROVE  RowStaged(v)' /\ RightsStaged(v)' /\ BootstrapRead(v)'
<1>1. RowStaged(v) /\ RightsStaged(v) /\ BootstrapRead(v)
  BY DEF UsersInv
<1>2. /\ tx[v].user # NoUser => tx[v].user \in Users
      /\ tx[v].owner # NoUser => tx[v].owner \in Users
      /\ pc[v] # "idle" => req[v].user \in Users
  BY DEF TypeOK, Tx, AllLocal, Local, Placed
<1>3. RowStaged(v)'
  BY <1>1, <1>2 DEF RowStaged, Lasting, Exists, Others
<1>4. RightsStaged(v)'
  BY <1>1, <1>2 DEF RightsStaged, Lasting, Exists, Others
<1>5. BootstrapRead(v)'
  BY <1>1, <1>2 DEF BootstrapRead, Lasting, Exists
<1> QED
  BY <1>3, <1>4, <1>5

LEMMA PublishUsers ==
  ASSUME TypeOK, AllLocal, UsersInv, NEW w \in Workers, Publish(w), StepOf(w),
         pc[w] \in CommitSteps, tx'[w] = NoTx, pc'[w] \in {"idle", "compensate"}
  PROVE  UsersInv'
<1>1. \A u \in Users : Whole(u)' /\ Lasting(u)
  BY PublishWhole
<1>2. ASSUME NEW v \in Workers, v # w PROVE RowStaged(v)' /\ RightsStaged(v)' /\ BootstrapRead(v)'
  <2>1. pc'[v] = pc[v] /\ req'[v] = req[v] /\ tx'[v] = tx[v]
    BY <1>2 DEF StepOf, Others
  <2>2. \A u \in Users : u = tx[v].user => users'[u] = users[u]
    <3>1. \A u \in Users : u = tx[v].user => u # tx[w].user
      BY <1>2, IdentityNullAssumption DEF UsersInv, RowStaged, Others
    <3> QED
      BY <3>1, PublishedUser
  <2>3. \A u \in Users : u = tx[v].owner => rights'[u] = rights[u]
    <3>1. \A u \in Users : u = tx[v].owner => u # tx[w].owner
      BY <1>2, IdentityNullAssumption DEF UsersInv, RightsStaged, Others
    <3> QED
      BY <3>1, PublishedUser
  <2>4. \A x \in Others(v) : /\ tx'[x].user \in {tx[x].user, NoUser}
                             /\ tx'[x].owner \in {tx[x].owner, NoUser}
    BY DEF StepOf, Others, NoTx
  <2> QED
    BY <1>1, <2>1, <2>2, <2>3, <2>4, UserBystander DEF Exists
<1>3. RowStaged(w)' /\ RightsStaged(w)' /\ BootstrapRead(w)'
  BY DEF RowStaged, RightsStaged, BootstrapRead, NoTx
<1> QED
  BY <1>1, <1>2, <1>3 DEF UsersInv

(* A step of w that writes no user: it is enough to look at what w relies  *)
(* on, and at whom it begins to hold.                                      *)
LEMMA UsersBystanders ==
  ASSUME TypeOK, AllLocal, UsersInv, NEW w \in Workers, StepOf(w), UNCHANGED <<users, rights>>,
         tx'[w].user \in {tx[w].user, NoUser} \/ \A v \in Others(w) : tx[v].user # tx'[w].user,
         tx'[w].owner \in {tx[w].owner, NoUser} \/ \A v \in Others(w) : tx[v].owner # tx'[w].owner,
         RowStaged(w)', RightsStaged(w)', BootstrapRead(w)'
  PROVE  UsersInv'
<1>1. \A u \in Users : Whole(u)' /\ Lasting(u)
  BY DEF UsersInv, Whole, Lasting, Exists
<1>2. ASSUME NEW v \in Workers, v # w PROVE RowStaged(v)' /\ RightsStaged(v)' /\ BootstrapRead(v)'
  <2>1. pc'[v] = pc[v] /\ req'[v] = req[v] /\ tx'[v] = tx[v]
    BY <1>2 DEF StepOf, Others
  <2>2. \A x \in Others(v) :
          /\ tx'[x].user \in {tx[x].user, NoUser} \/ tx'[x].user # tx[v].user
          /\ tx'[x].owner \in {tx[x].owner, NoUser} \/ tx'[x].owner # tx[v].owner
    BY <1>2 DEF StepOf, Others
  <2>3. \A u \in Users : (Exists(u)' <=> Exists(u)) /\ rights'[u] = rights[u]
    BY DEF Exists
  <2> QED
    BY <1>1, <2>1, <2>2, <2>3, UserBystander
<1> QED
  BY <1>1, <1>2 DEF UsersInv

LEMMA UsersIdle ==
  ASSUME TypeOK, AllLocal, UsersInv, NEW w \in Workers, StepOf(w), Local(w)',
         UNCHANGED <<users, rights>>,
         pc'[w] \notin {"commit_user", "ensure_user", "ensure_role", "commit_ensure"}
  PROVE  UsersInv'
<1>1. tx'[w].user = NoUser /\ tx'[w].owner = NoUser
  BY DEF Local, Staged
<1>2. RowStaged(w)' /\ RightsStaged(w)' /\ BootstrapRead(w)'
  BY <1>1 DEF RowStaged, RightsStaged, BootstrapRead
<1> QED
  BY <1>1, <1>2, UsersBystanders

LEMMA InsertUserUsers ==
  ASSUME TypeOK, AllLocal, UsersInv, NEW w \in Workers, StepOf(w), Local(w)', InsertUser(w),
         pc'[w] = "commit_user"
  PROVE  UsersInv'
<1> DEFINE u == req[w].user
<1>1. /\ pc[w] = "insert_user" /\ ~UserHeld(w, u) /\ ~Exists(u) /\ req'[w] = req[w]
      /\ UNCHANGED <<users, rights>>
  BY DEF InsertUser, Goto, TypeOK, people
<1>2. tx'[w].user = u /\ tx'[w].owner = u
  BY <1>1 DEF Local, Ordered
<1>3. u \in Users
  BY <1>1 DEF AllLocal, Local, Placed
<1>4. \A v \in Others(w) : tx[v].user # u
  BY <1>1 DEF UserHeld
<1>5. \A v \in Others(w) : tx[v].owner # u
  BY <1>1, <1>3, <1>4, IdentityNullAssumption DEF UsersInv, RightsStaged, Others
<1>6. RowStaged(w)' /\ RightsStaged(w)' /\ BootstrapRead(w)'
  BY <1>1, <1>2, <1>4, <1>5 DEF RowStaged, RightsStaged, BootstrapRead, StepOf, Others, Exists
<1> QED
  BY <1>1, <1>2, <1>4, <1>5, <1>6, UsersBystanders

LEMMA EnsureFindUsers ==
  ASSUME TypeOK, AllLocal, UsersInv, NEW w \in Workers, StepOf(w), EnsureFind(w), ~Finish(w)
  PROVE  UsersInv'
<1> DEFINE u == req[w].user
<1>1. /\ pc[w] = "ensure_find" /\ pc'[w] = "ensure_user" /\ req'[w].user = u
      /\ req'[w].row = FoundRow(w) /\ tx'[w].user = NoUser /\ tx'[w].owner = NoUser
  BY EnsureFindDoes DEF NoTx
<1>2. UNCHANGED <<users, rights>>
  BY DEF EnsureFind, people
<1>3. req[w].row \in UserRow /\ req[w].row.class = "OPERATOR"
  BY <1>1 DEF TypeOK, Request, AllLocal, Local, Ordered
<1>4. IF Exists(u) THEN FoundRow(w) = users[u]
      ELSE FoundRow(w).status = "ABSENT" /\ FoundRow(w).class = "OPERATOR"
  BY <1>3 DEF FoundRow, UserRow
<1>5. RowStaged(w)' /\ RightsStaged(w)' /\ BootstrapRead(w)'
  BY <1>1, <1>2, <1>4 DEF RowStaged, RightsStaged, BootstrapRead, Exists
<1> QED
  BY <1>1, <1>2, <1>5, UsersBystanders

LEMMA EnsureUserUsers ==
  ASSUME TypeOK, AllLocal, UsersInv, NEW w \in Workers, StepOf(w), EnsureUser(w), ~Finish(w)
  PROVE  UsersInv'
<1> DEFINE u == req[w].user
           found == req[w].row
<1>1. /\ pc[w] = "ensure_user" /\ pc'[w] = "ensure_role"
      /\ found.status # "ACTIVE" => ~UserHeld(w, u)
      /\ found.status = "ABSENT" => ~Exists(u)
      /\ req'[w].user = u /\ req'[w].rights = rights[u]
      /\ tx'[w].user = IF found.status = "ACTIVE" THEN NoUser ELSE u
      /\ tx'[w].row.class = found.class /\ tx'[w].row.tenant = found.tenant
      /\ tx'[w].owner = tx[w].owner
  BY EnsureUserDoes
<1>2. UNCHANGED <<users, rights>>
  BY DEF EnsureUser, people
<1>3. tx[w].owner = NoUser /\ BootstrapRead(w)
  BY <1>1 DEF AllLocal, Local, Staged, UsersInv
<1>4. RowStaged(w)'
  BY <1>1, <1>2, <1>3 DEF RowStaged, BootstrapRead, Exists, UserHeld, StepOf, Others
<1>5. RightsStaged(w)'
  BY <1>1, <1>3 DEF RightsStaged
<1>6. BootstrapRead(w)'
  BY <1>1, <1>2, <1>3 DEF BootstrapRead, Exists
<1>7. tx'[w].user = NoUser \/ \A v \in Others(w) : tx[v].user # tx'[w].user
  BY <1>1 DEF UserHeld
<1> QED
  BY <1>1, <1>2, <1>4, <1>5, <1>6, <1>7, UsersBystanders

LEMMA EnsureRoleUsers ==
  ASSUME TypeOK, AllLocal, UsersInv, NEW w \in Workers, StepOf(w), EnsureRole(w), ~Finish(w)
  PROVE  UsersInv'
<1> DEFINE u == req[w].user
<1>1. pc[w] = "ensure_role" /\ pc'[w] = "commit_ensure" /\ req'[w] = req[w]
  BY EnsureRoleDoes
<1>2. UNCHANGED <<users, rights>>
  BY DEF EnsureRole, people
<1>3. RowStaged(w) /\ BootstrapRead(w) /\ tx[w].owner = NoUser /\ u \in Users
  BY <1>1 DEF UsersInv, AllLocal, Local, Staged, Placed
<1>4. CASE tx'[w] = tx[w] /\ "platform_admin" \in req[w].rights.roles
  <2>1. RowStaged(w)' /\ RightsStaged(w)' /\ BootstrapRead(w)'
    BY <1>1, <1>2, <1>3, <1>4 DEF RowStaged, RightsStaged, BootstrapRead, Exists, StepOf, Others
  <2> QED
    BY <1>2, <1>4, <2>1, UsersBystanders
<1>5. CASE /\ ~RightsHeld(w, u)
           /\ tx'[w].owner = u
           /\ tx'[w].rights = [rights[u] EXCEPT !.roles = @ \cup {"platform_admin"}]
           /\ tx'[w].user = tx[w].user /\ tx'[w].row = tx[w].row
  <2>1. \A v \in Others(w) : tx[v].owner # u
    BY <1>5 DEF RightsHeld
  <2>2. RowStaged(w)'
    BY <1>1, <1>2, <1>3, <1>5 DEF RowStaged, Exists, StepOf, Others
  <2>3. RightsStaged(w)'
    BY <1>1, <1>2, <1>3, <1>5, <2>1 DEF RightsStaged, BootstrapRead, Exists, StepOf, Others
  <2>4. BootstrapRead(w)'
    BY <1>1, <1>3, <1>5, IdentityNullAssumption DEF BootstrapRead
  <2> QED
    BY <1>2, <1>5, <2>1, <2>2, <2>3, <2>4, UsersBystanders
<1> QED
  BY <1>4, <1>5, EnsureRoleDoes

LEMMA CommitsDo ==
  ASSUME TypeOK, NEW w \in Workers, Commits(w)
  PROVE  /\ pc[w] \in CommitSteps /\ pc'[w] \in {"idle", "compensate"} /\ tx'[w] = NoTx
         /\ \/ Publish(w)
            \/ pc'[w] = "compensate" /\ UNCHANGED <<users, rights, grantTables, inDoubt>>
<1>1. CASE CommitStart(w) \/ CommitStop(w) \/ CommitEnsure(w)
  BY <1>1, FinishLocal DEF CommitStart, CommitStop, CommitEnsure, CommitSteps
<1>2. CASE CommitUser(w)
  BY <1>2, FinishLocal DEF CommitUser, CommitSteps, Goto, TypeOK
<1> QED
  BY <1>1, <1>2 DEF Commits

(* Every step of a request keeps the invariant of the users, and whom it   *)
(* finds there.                                                            *)
LEMMA RequestStepUsers ==
  ASSUME TypeOK, AllLocal, UsersInv, NEW w \in Workers, RequestStep(w)
  PROVE  UsersInv' /\ \A u \in Users : Lasting(u)
<1>1. StepOf(w) /\ Local(w)'
  BY RequestStepTyped, RequestStepLocal DEF AllLocal
<1>2. ASSUME UNCHANGED <<users, rights>> PROVE \A u \in Users : Lasting(u)
  BY <1>2 DEF Lasting, Exists
<1>3. CASE Commits(w)
  <2>1. CASE Publish(w)
    BY <1>1, <1>3, <2>1, CommitsDo, PublishUsers, PublishWhole
  <2>2. CASE ~Publish(w)
    BY <1>1, <1>2, <1>3, <2>2, CommitsDo, UsersIdle
  <2> QED
    BY <2>1, <2>2
<1>4. CASE ~Commits(w)
  <2>1. UNCHANGED <<users, rights>>
    BY <1>4, QuietStep DEF CreateAuth0User, Compensate, people
  <2>2. CASE pc'[w] \notin {"commit_user", "ensure_user", "ensure_role", "commit_ensure"}
    BY <1>1, <1>2, <2>1, <2>2, UsersIdle
  <2>3. CASE pc'[w] \in {"commit_user", "ensure_user", "ensure_role", "commit_ensure"}
    <3>1. ~Finish(w)
      BY <2>3, FinishLocal
    <3>2. InsertUser(w) \/ EnsureFind(w) \/ EnsureUser(w) \/ EnsureRole(w)
      <4>1. ~(Authenticate(w) \/ RequestProvisioning(w) \/ RequestBootstrap(w) \/ RequestFails(w))
        BY <2>3, <3>1 DEF Authenticate, RequestProvisioning, RequestBootstrap, RequestFails,
           Goto, TypeOK
      <4>2. ~(ProvisionStep(w) /\ ~InsertUser(w))
        BY <1>4, <2>3, <3>1 DEF ProvisionStep, CreateAuth0User, Compensate, Commits, Goto, TypeOK
      <4>3. ~GuardStep(w)
        <5>1. ASSUME GuardStep(w)
              PROVE  req'[w].kind \in {"search", "confirm", "start", "stop"}
          <6>1. pc[w] \in {"find_grant", "roles", "serve"}
            BY <5>1 DEF GuardStep, FindGrant, Authorize, Serve
          <6>2. req[w].kind \in {"search", "confirm", "start", "stop"}
            BY <6>1 DEF AllLocal, Local, Placed
          <6> QED
            BY <3>1, <5>1, <6>2 DEF GuardStep, FindGrant, Authorize, Serve, TypeOK, Request
        <5> QED
          BY <1>1, <2>3, <5>1 DEF Local, Placed, ProvisionSteps, BootstrapSteps
      <4>4. ~StartStep(w) /\ ~StopStep(w)
        BY <1>4, <2>3, <3>1 DEF StartStep, StopStep, Commits, LookupAccount, BeginStart,
           FindUnended, EndExpired, EndExpiredAfterWait, InsertGrant, Reject, BeginStop, EndOpen,
           EndOpenAfterWait, EndGrant, EndGrantAfterWait, EndNow, Connect, Goto, TypeOK
      <4> QED
        BY <1>4, <4>1, <4>2, <4>3, <4>4 DEF RequestStep, WorkerStep, BootstrapStep, Commits
    <3>3. InsertUser(w) => pc'[w] = "commit_user"
      BY <2>3 DEF InsertUser, Goto, TypeOK
    <3> QED
      BY <1>1, <1>2, <2>1, <3>1, <3>2, <3>3, InsertUserUsers, EnsureFindUsers, EnsureUserUsers,
         EnsureRoleUsers
  <2> QED
    BY <2>2, <2>3
<1> QED
  BY <1>3, <1>4
-----------------------------------------------------------------------------
(* A grant that was started keeps its actor, tenant and expiry, and once   *)
(* ended stays so.                                                         *)
GrantLasting(g) ==
  grants[g].state # "FREE" =>
    /\ grants'[g].state # "FREE" /\ grants'[g].actor = grants[g].actor
    /\ grants'[g].tenant = grants[g].tenant /\ grants'[g].expires = grants[g].expires
    /\ grants[g].state = "ENDED" => grants'[g].state = "ENDED"

(* A COMMIT changes grants and users only as their transactions said.      *)
LEMMA RequestStepTables ==
  ASSUME TypeOK, AllLocal, GrantsInv, NEW w \in Workers, RequestStep(w), NEW g \in GrantIds
  PROVE  /\ GrantLasting(g)
         /\ \/ grants'[g].state = "FREE" /\ grants[g].state = "FREE"
            \/ grants[g].state # "FREE"
            \/ /\ pc[w] = "commit_start" /\ grants'[g].actor = req[w].user
               /\ grants'[g].tenant = req[w].row.tenant
<1>1. CASE grants' = grants
  BY <1>1 DEF GrantLasting
<1>2. CASE Publish(w)
  <2>1. Starting(w) /\ Ending(w) /\ g # NoGrant /\ grants[g] \in Grant
    BY IdentityNullAssumption DEF GrantsInv, TypeOK
  <2>2. tx[w].grant # NoGrant => pc[w] = "commit_start"
    BY StagesOf
  <2> QED
    BY <1>2, <2>1, <2>2, PublishedGrant DEF GrantLasting, Starting, Ending, Grant
<1>3. grants' = grants \/ Publish(w)
  <2>1. CASE Commits(w)
    BY <2>1, CommitsDo DEF grantTables
  <2>2. CASE CreateAuth0User(w) \/ Compensate(w)
    BY <2>2 DEF CreateAuth0User, Compensate, grantTables
  <2> QED
    BY <2>1, <2>2, QuietStep DEF grantTables
<1> QED
  BY <1>1, <1>2, <1>3

(* The other guarded requests, while grants and users last.                *)
LEMMA GuardBystander ==
  ASSUME TypeOK, TypeOK', AllLocal, GuardInv, NEW v \in Workers, pc'[v] = pc[v], req'[v] = req[v],
         \A u \in Users : Lasting(u), \A g \in GrantIds : GrantLasting(g), now <= now'
  PROVE  Admitted(v)' /\ Judged(v)'
<1>1. Admitted(v) /\ Judged(v) /\ (pc[v] # "idle" => req[v].user \in Users)
      /\ req[v].open \subseteq GrantIds /\ req[v].past \subseteq GrantIds
  BY DEF GuardInv, AllLocal, Local, Placed, TypeOK, Request
<1>2. Admitted(v)'
  BY <1>1 DEF Admitted, Lasting, GuardedSteps, StartSteps, StopSteps
<1>3. ASSUME NEW g \in req[v].open, pc[v] \in {"roles", "serve"}, g \in ActiveGrants(req[v].user)'
      PROVE  g \in ActiveGrants(req[v].user)
  <2>1. /\ g \in GrantIds /\ grants'[g].state = "OPEN" /\ grants'[g].actor = req[v].user
        /\ grants'[g].expires > now' /\ grants[g].state # "FREE"
    BY <1>1, <1>3 DEF ActiveGrants, OpenGrants, Judged
  <2>2. grants[g] \in Grant /\ now \in Nat /\ now' \in Nat
    BY <2>1 DEF TypeOK
  <2>3. grants[g].state = "OPEN" /\ grants[g].actor = req[v].user
        /\ grants[g].expires = grants'[g].expires /\ grants[g].expires \in Nat
    BY <2>1, <2>2 DEF GrantLasting, Grant
  <2>4. grants[g].expires > now
    BY <2>1, <2>2, <2>3
  <2> QED
    BY <2>1, <2>3, <2>4 DEF ActiveGrants, OpenGrants
<1>4. Judged(v)'
  BY <1>1, <1>3 DEF Judged, GrantLasting
<1> QED
  BY <1>2, <1>4

(* The grants of operators last.                                           *)
LEMMA GrantOwnerLasts ==
  ASSUME GuardInv, NEW g \in GrantIds, grants[g].state # "FREE", GrantLasting(g),
         \A u \in Users : Lasting(u)
  PROVE  GrantOfOperator(g)'
BY DEF GuardInv, GrantOfOperator, GrantLasting, Lasting, Exists

(* Agency roles do not impersonate, and nothing is confirmed under a       *)
(* grant.                                                                  *)
LEMMA AgencyPowers ==
  ASSUME NEW held
  PROVE  "impersonate.agency_account" \notin ExpandRoles("AGENCY", held)
<1>1. \A r \in AgencyRoles : "impersonate.agency_account" \notin AgencyPermissions(r)
  BY DEF AgencyRoles, AgencyPermissions
<1> QED
  BY <1>1 DEF ExpandRoles

LEMMA ImpersonatedPowers == "booking.confirm.manual" \notin ImpersonatedPermissions
BY DEF ImpersonatedPermissions, ReadPermissions

LEMMA AuthenticateGuard ==
  ASSUME TypeOK, GuardInv, NEW w \in Workers, Authenticate(w)
  PROVE  Admitted(w)' /\ Judged(w)'
<1>1. PICK token \in Tokens, kind \in Kinds \ {"provision", "bootstrap"},
           target \in Accounts, complete \in BOOLEAN :
        /\ SyncUser(token.user, token.tenant)
        /\ req' = [req EXCEPT ![w] = Admission(token, kind, target, complete)]
        /\ Goto(w, IF users[token.user].class = "OPERATOR" THEN "find_grant" ELSE "roles")
  BY DEF Authenticate
<1> DEFINE u == token.user
<1>2. /\ req'[w].user = u /\ req'[w].row = users[u] /\ req'[w].ctx = OwnContext(token)
      /\ req'[w].open = Noted(kind, ActiveGrants(u)) /\ req'[w].past = Noted(kind, EndedGrants)
  BY <1>1 DEF TypeOK, Admission, NoRequest
<1>3. UNCHANGED <<users, grants, now>>
  BY DEF Authenticate, people, grantTables
<1>4. u \in Users /\ Exists(u) /\ users[u] \in UserRow
  BY <1>1, InputAssumption DEF SyncUser, Exists, TypeOK
<1>5. pc'[w] = IF users[u].class = "OPERATOR" THEN "find_grant" ELSE "roles"
  BY <1>1 DEF Goto, TypeOK
<1>6. OwnContext(token).class = users[u].class /\ ~OwnContext(token).impersonating
  BY DEF OwnContext, NoContext
<1>7. Admitted(w)'
  BY <1>2, <1>3, <1>4, <1>5, <1>6 DEF Admitted, Exists, StartSteps, StopSteps
<1>8. users[u].class = "AGENCY" => ActiveGrants(u) = {}
  BY DEF GuardInv, GrantOfOperator, ActiveGrants, OpenGrants
<1>9. Judged(w)'
  <2>1. \A g \in req'[w].past : grants[g].state = "ENDED"
    BY <1>2 DEF Noted, EndedGrants
  <2>2. \A g \in req'[w].open : g \in ActiveGrants(u)
    BY <1>2 DEF Noted
  <2>3. \A g \in req'[w].open : grants[g].state # "FREE" /\ grants[g].actor = u
    BY <2>2 DEF ActiveGrants, OpenGrants
  <2>4. pc'[w] = "roles" => req'[w].open = {}
    BY <1>2, <1>4, <1>5, <1>8 DEF Noted, UserRow, Classes
  <2> QED
    BY <1>2, <1>3, <1>5, <1>6, <2>1, <2>3, <2>4 DEF Judged
<1> QED
  BY <1>7, <1>9

LEMMA FindGrantGuard ==
  ASSUME TypeOK, AllLocal, GrantsInv, GuardInv, NEW w \in Workers, FindGrant(w)
  PROVE  Admitted(w)' /\ Judged(w)'
<1> DEFINE u == req[w].user
           tenant == req[w].row.tenant
           ctx == OperatorContext(u, tenant)
           mine == {g \in ActiveGrants(u) : grants[g].tenant = tenant}
           some == CHOOSE g \in mine : TRUE
<1>1. /\ pc[w] = "find_grant" /\ pc'[w] = "roles"
      /\ UNCHANGED <<users, grants, now>>
  BY DEF FindGrant, Goto, TypeOK, people, grantTables
<1>2. /\ req'[w].ctx = ctx /\ req'[w].user = u /\ req'[w].row = req[w].row
      /\ req'[w].open = req[w].open /\ req'[w].past = req[w].past
  BY DEF FindGrant, TypeOK, Request
<1>3. Admitted(w) /\ Judged(w) /\ u \in Users
  BY <1>1 DEF GuardInv, AllLocal, Local, Placed
<1>4. Admitted(w)'
  BY <1>1, <1>2, <1>3 DEF Admitted, Exists, GuardedSteps, StartSteps, StopSteps
<1>5. mine # {} => some \in mine /\ ctx.grant = some
  BY DEF OperatorContext
<1>6. mine = {} => ~ctx.impersonating
  BY DEF OperatorContext, NoContext
<1>7. \A g \in ActiveGrants(u) : g \in mine
  BY <1>1, <1>3 DEF GuardInv, GrantOfOperator, ActiveGrants, OpenGrants, Admitted, GuardedSteps
<1>8. \A g, h \in ActiveGrants(u) : g = h
  BY <1>3 DEF GrantsInv, GrantHistory, ActiveGrants
<1> HIDE DEF ctx, some
<1>9. Judged(w)'
  <2>1. \A g \in req[w].past : grants[g].state = "ENDED"
    BY <1>1, <1>3 DEF Judged
  <2>2. mine # {} => ctx.grant \in GrantIds /\ grants[ctx.grant].state = "OPEN"
    BY <1>5 DEF ActiveGrants, OpenGrants
  <2>3. ctx.impersonating => ctx.grant \notin req[w].past
    BY <1>6, <2>1, <2>2
  <2>4. \A g \in ActiveGrants(u) : ctx.grant = g
    BY <1>5, <1>7, <1>8
  <2>5. \A g \in req[w].open : grants[g].state # "FREE" /\ grants[g].actor = u
    BY <1>1, <1>3 DEF Judged
  <2>6. ActiveGrants(u)' = ActiveGrants(u)
    BY <1>1, <1>2 DEF ActiveGrants, OpenGrants
  <2> QED
    BY <1>1, <1>2, <2>1, <2>3, <2>4, <2>5, <2>6 DEF Judged
<1> QED
  BY <1>4, <1>9

LEMMA AuthorizeGuard ==
  ASSUME TypeOK, AllLocal, GuardInv, NEW w \in Workers, Authorize(w), ~Finish(w)
  PROVE  Admitted(w)' /\ Judged(w)'
<1> DEFINE u == req[w].user
           ctx == req[w].ctx
           kind == req[w].kind
<1>1. /\ pc[w] = "roles" /\ req'[w] = req[w] /\ UNCHANGED <<users, grants, now>>
      /\ Granted(ctx, rights[u].roles, rights[u].account, NoAccount, RequiredBy(kind))
  BY DEF Authorize, people, grantTables
<1>2. kind \in {"search", "confirm", "start", "stop"}
  BY <1>1 DEF AllLocal, Local, Placed
<1>3. \/ kind \in {"search", "confirm"} /\ pc'[w] = "serve"
      \/ kind = "start" /\ pc'[w] \in {"lookup", "reject"}
      \/ kind = "stop" /\ pc'[w] = "stop_connect"
  BY <1>2 DEF Authorize, Goto, TypeOK
<1>4. Admitted(w) /\ Judged(w) /\ req[w].row.class \in Classes
  BY DEF GuardInv, TypeOK, Request, UserRow
<1>5. kind = "confirm" => ~ctx.impersonating
  BY <1>1, ImpersonatedPowers DEF Granted, ResolvePermissions, RequiredBy
<1>6. kind \in {"start", "stop"} => req[w].row.class = "OPERATOR"
  <2>1. RequiredBy("start") = {"impersonate.agency_account"}
        /\ RequiredBy("stop") = {"impersonate.agency_account"}
    BY DEF RequiredBy
  <2>2. req[w].row.class = "AGENCY" => ctx.class = "AGENCY" /\ ~ctx.impersonating
    BY <1>1, <1>4 DEF Admitted
  <2> QED
    BY <1>1, <1>4, <2>1, <2>2, AgencyPowers DEF Granted, ResolvePermissions, Classes
<1>7. Admitted(w)'
  BY <1>1, <1>3, <1>4, <1>6 DEF Admitted, Exists, GuardedSteps, StartSteps, StopSteps
<1>8. Judged(w)'
  BY <1>1, <1>3, <1>4, <1>5 DEF Judged, ActiveGrants, OpenGrants
<1> QED
  BY <1>7, <1>8

(* A step that leads nowhere in particular.                                *)
LEMMA GuardIdle ==
  ASSUME NEW w, pc'[w] \notin GuardedSteps
  PROVE  Admitted(w)' /\ Judged(w)'
BY DEF Admitted, Judged, GuardedSteps

(* A step of a handler of impersonation.                                   *)
LEMMA HandlerGuard ==
  ASSUME GuardInv, NEW w \in Workers, pc[w] \in StartSteps \cup StopSteps,
         pc'[w] \in StartSteps \cup StopSteps, UNCHANGED users,
         req'[w].user = req[w].user, req'[w].row = req[w].row
  PROVE  Admitted(w)' /\ Judged(w)'
<1>1. Admitted(w)
  BY DEF GuardInv
<1>2. Admitted(w)'
  BY <1>1 DEF Admitted, GuardedSteps, Exists, StartSteps, StopSteps
<1>3. Judged(w)'
  BY DEF Judged, StartSteps, StopSteps
<1> QED
  BY <1>2, <1>3

LEMMA HandlerStep ==
  ASSUME TypeOK, AllLocal, NEW w \in Workers, StartStep(w) \/ StopStep(w), ~Commits(w), ~Finish(w)
  PROVE  /\ pc[w] \in StartSteps \cup StopSteps /\ pc'[w] \in StartSteps \cup StopSteps
         /\ req'[w].user = req[w].user /\ req'[w].row = req[w].row
<1> USE DEF StartSteps, StopSteps
<1>1. req[w] \in Request
  BY DEF TypeOK
<1>2. CASE LookupAccount(w) \/ BeginStart(w) \/ BeginStop(w) \/ InsertGrant(w) \/ Reject(w)
  BY <1>1, <1>2 DEF LookupAccount, BeginStart, BeginStop, InsertGrant, Reject, Connect, Goto, TypeOK
<1>3. CASE FindUnended(w)
  BY <1>1, <1>3 DEF FindUnended, Goto, TypeOK, Request
<1>4. ASSUME NEW g, NEW next \in {"insert_grant", "commit_stop"}, EndNow(w, g, next)
      PROVE  /\ pc'[w] \in StartSteps \cup StopSteps
             /\ req'[w].user = req[w].user /\ req'[w].row = req[w].row
  BY <1>4, EndNowDoes
<1>5. ASSUME NEW waiting \in {"end_expired_wait", "end_open_wait"},
             NEW next \in {"insert_grant", "commit_stop"}, EndGrant(w, waiting, next)
      PROVE  /\ pc'[w] \in StartSteps \cup StopSteps
             /\ req'[w].user = req[w].user /\ req'[w].row = req[w].row
  <2> DEFINE open == OpenGrants(req[w].user)
             g == IF open = {} THEN NoGrant ELSE CHOOSE x \in open : TRUE
  <2>1. CASE GrantHeld(w, g)
    <3>1. Goto(w, waiting) /\ req' = [req EXCEPT ![w].waits = g]
      BY <1>5, <2>1 DEF EndGrant
    <3> HIDE DEF g
    <3> QED
      BY <1>1, <3>1 DEF Goto, TypeOK, Request
  <2>2. CASE ~GrantHeld(w, g)
    BY <1>4, <1>5, <2>2 DEF EndGrant
  <2> QED
    BY <2>1, <2>2
<1>6. CASE EndExpired(w) \/ EndOpen(w)
  BY <1>5, <1>6 DEF EndExpired, EndOpen
<1>7. CASE EndExpiredAfterWait(w) \/ EndOpenAfterWait(w)
  BY <1>4, <1>7 DEF EndExpiredAfterWait, EndOpenAfterWait, EndGrantAfterWait
<1> QED
  BY <1>2, <1>3, <1>6, <1>7 DEF StartStep, StopStep, Commits

(* Every step of a request keeps the invariant of the guard.               *)
LEMMA RequestStepGuard ==
  ASSUME TypeOK, AllLocal, GrantsInv, UsersInv, GuardInv, NEW w \in Workers, RequestStep(w)
  PROVE  GuardInv'
<1>1. StepOf(w) /\ TypeOK'
  BY RequestStepTyped DEF AllLocal
<1>2. (\A u \in Users : Lasting(u)) /\ (\A g \in GrantIds : GrantLasting(g)) /\ now <= now'
  <2>1. now' = now /\ now \in Nat
    BY WebhookKept DEF TypeOK
  <2> QED
    BY <2>1, RequestStepUsers, RequestStepTables
<1>3. ASSUME NEW v \in Workers, v # w PROVE Admitted(v)' /\ Judged(v)'
  BY <1>1, <1>2, <1>3, GuardBystander DEF StepOf, Others
<1>4. ASSUME NEW g \in GrantIds PROVE GrantOfOperator(g)'
  <2>1. CASE grants'[g].state = "FREE"
    BY <2>1 DEF GrantOfOperator
  <2>2. CASE grants[g].state # "FREE"
    BY <1>2, <2>2, GrantOwnerLasts
  <2>3. CASE /\ pc[w] = "commit_start" /\ grants'[g].actor = req[w].user
             /\ grants'[g].tenant = req[w].row.tenant
    <3>1. Admitted(w) /\ req[w].user \in Users
      BY <2>3 DEF GuardInv, AllLocal, Local, Placed
    <3> QED
      BY <1>2, <2>3, <3>1 DEF Admitted, GrantOfOperator, Lasting, GuardedSteps, StartSteps, Exists
  <2> QED
    BY <2>1, <2>2, <2>3, RequestStepTables
<1>5. Admitted(w)' /\ Judged(w)'
  <2>1. CASE Finish(w)
    BY <2>1, FinishLocal, GuardIdle DEF GuardedSteps, StartSteps, StopSteps
  <2>2. CASE Commits(w)
    BY <2>2, CommitsDo, GuardIdle DEF GuardedSteps, StartSteps, StopSteps
  <2>3. CASE Authenticate(w)
    BY <2>3, AuthenticateGuard
  <2>4. CASE RequestProvisioning(w) \/ RequestBootstrap(w)
    <3>1. pc'[w] \in {"create_auth0", "ensure_find"}
      BY <2>4 DEF RequestProvisioning, RequestBootstrap, Goto, TypeOK
    <3> QED
      BY <3>1, GuardIdle DEF GuardedSteps, StartSteps, StopSteps
  <2>5. CASE GuardStep(w) /\ ~Finish(w)
    BY <2>5, FindGrantGuard, AuthorizeGuard DEF GuardStep, Serve
  <2>6. CASE (StartStep(w) \/ StopStep(w)) /\ ~Finish(w) /\ ~Commits(w)
    <3>1. UNCHANGED users
      <4>1. ~CreateAuth0User(w) /\ ~Compensate(w)
        BY <2>6, HandlerStep DEF CreateAuth0User, Compensate, StartSteps, StopSteps
      <4> QED
        BY <2>6, <4>1, QuietStep DEF people
    <3> QED
      BY <2>6, <3>1, HandlerStep, HandlerGuard
  <2>7. CASE ProvisionStep(w) /\ ~Finish(w) /\ ~Commits(w)
    <3>1. pc'[w] \in {"insert_user", "commit_user", "compensate"}
      BY <2>7 DEF ProvisionStep, CreateAuth0User, InsertUser, Compensate, Commits, Goto, TypeOK
    <3> QED
      BY <3>1, GuardIdle DEF GuardedSteps, StartSteps, StopSteps
  <2>8. CASE BootstrapStep(w) /\ ~Finish(w) /\ ~Commits(w)
    <3>1. pc'[w] \in {"ensure_user", "ensure_role", "commit_ensure"}
      BY <2>8, EnsureFindDoes, EnsureUserDoes, EnsureRoleDoes DEF BootstrapStep, Commits
    <3> QED
      BY <3>1, GuardIdle DEF GuardedSteps, StartSteps, StopSteps
  <2> QED
    BY <2>1, <2>2, <2>3, <2>4, <2>5, <2>6, <2>7, <2>8 DEF RequestStep, WorkerStep, RequestFails
<1> QED
  BY <1>3, <1>4, <1>5 DEF GuardInv
-----------------------------------------------------------------------------
(* A COMMIT writes the row of a user: it is a newcomer's, or the user is   *)
(* an administrator from then on.                                          *)
LEMMA WrittenUser ==
  ASSUME TypeOK, AllLocal, UsersInv, NEW w \in Workers, RequestStep(w), NEW u \in Users,
         users'[u] # users[u]
  PROVE  \/ pc[w] = "commit_user" /\ req[w].user = u /\ ~Exists(u)
         \/ "platform_admin" \in rights'[u].roles
<1>1. Publish(w) /\ pc[w] \in CommitSteps
  <2>1. CASE Commits(w)
    BY <2>1, CommitsDo
  <2>2. CASE CreateAuth0User(w) \/ Compensate(w)
    BY <2>2 DEF CreateAuth0User, Compensate
  <2> QED
    BY <2>1, <2>2, QuietStep DEF people
<1>2. tx[w].user = u /\ u # NoUser
  BY <1>1, PublishedUser, IdentityNullAssumption
<1>3. req[w].user = u /\ pc[w] \in {"commit_user", "commit_ensure"}
  BY <1>1, <1>2 DEF AllLocal, Local, Staged, CommitSteps
<1>4. RowStaged(w) /\ RightsStaged(w) /\ BootstrapRead(w) /\ rights[u] \in Rights
  BY DEF UsersInv, TypeOK
<1>5. CASE pc[w] = "commit_user"
  BY <1>2, <1>3, <1>4, <1>5 DEF RowStaged
<1>6. CASE pc[w] = "commit_ensure"
  <2>1. CASE tx[w].owner = NoUser
    BY <1>1, <1>2, <1>3, <1>4, <1>6, <2>1, PublishedUser DEF BootstrapRead
  <2>2. CASE tx[w].owner # NoUser
    <3>1. tx[w].owner = u
      BY <1>3, <2>2 DEF AllLocal, Local, Staged
    <3>2. rights'[u] = [rights[u] EXCEPT !.roles = @ \cup {"platform_admin"}]
      BY <1>1, <1>2, <1>4, <1>6, <3>1, PublishedUser DEF RightsStaged
    <3> QED
      BY <1>4, <3>2 DEF Rights
  <2> QED
    BY <2>1, <2>2
<1> QED
  BY <1>3, <1>5, <1>6

(* Where a claim on an account of Auth0 comes from.                        *)
LEMMA ClaimStep ==
  ASSUME TypeOK, AllLocal, UsersInv, NEW w \in Workers, RequestStep(w), NEW u \in Users,
         Claims(w, u)'
  PROVE  \/ /\ u \notin auth0 /\ auth0' = auth0 \cup {u} /\ pc'[w] = "insert_user"
            /\ UNCHANGED <<users, rights, inDoubt>>
         \/ /\ Claims(w, u) /\ auth0' = auth0
            /\ \/ pc'[w] = "commit_user"
               \/ pc[w] = "insert_user" /\ UNCHANGED <<users, rights, inDoubt>>
               \/ pc[w] = "commit_user" /\ u \in inDoubt'
               \/ pc[w] = "commit_user" /\ UNCHANGED users /\ ~Exists(u)
<1>1. ~Finish(w)
  BY FinishLocal DEF Claims
<1>2. CASE CreateAuth0User(w)
  BY <1>1, <1>2 DEF CreateAuth0User, Claims, Goto, TypeOK
<1>3. CASE InsertUser(w)
  <2>1. /\ pc[w] = "insert_user" /\ req'[w] = req[w] /\ auth0' = auth0
        /\ UNCHANGED <<users, rights, inDoubt>>
    BY <1>3 DEF InsertUser, people
  <2> QED
    BY <2>1 DEF Claims
<1>4. CASE CommitUser(w)
  <2>1. /\ pc[w] = "commit_user" /\ auth0' = auth0 /\ req' = req
        /\ \/ inDoubt' = inDoubt \cup {req[w].user}
           \/ users' = users
    BY <1>1, <1>4 DEF CommitUser
  <2>2. Claims(w, u) /\ req[w].user = u
    BY <2>1 DEF Claims
  <2>3. ~Exists(u)
    <3>1. tx[w].user = u /\ RowStaged(w) /\ u # NoUser
      BY <2>1, <2>2, IdentityNullAssumption DEF AllLocal, Local, Ordered, UsersInv
    <3> QED
      BY <2>1, <3>1 DEF RowStaged
  <2> QED
    BY <2>1, <2>2, <2>3
<1>5. CASE ~(CreateAuth0User(w) \/ InsertUser(w) \/ CommitUser(w))
  <2>1. pc'[w] \in {"insert_user", "commit_user", "compensate"}
    BY DEF Claims
  <2>2. ~(Authenticate(w) \/ RequestProvisioning(w) \/ RequestBootstrap(w) \/ RequestFails(w))
    BY <1>1, <2>1 DEF Authenticate, RequestProvisioning, RequestBootstrap, RequestFails,
       Goto, TypeOK
  <2>3. ~GuardStep(w)
    <3>1. ASSUME GuardStep(w) PROVE req'[w].kind \in {"search", "confirm", "start", "stop"}
      <4>1. pc[w] \in {"find_grant", "roles", "serve"}
        BY <3>1 DEF GuardStep, FindGrant, Authorize, Serve
      <4>2. req[w].kind \in {"search", "confirm", "start", "stop"}
        BY <4>1 DEF AllLocal, Local, Placed
      <4> QED
        BY <1>1, <3>1, <4>2 DEF GuardStep, FindGrant, Authorize, Serve, TypeOK, Request
    <3>2. Local(w)'
      BY RequestStepLocal DEF AllLocal
    <3> QED
      BY <2>1, <3>1, <3>2 DEF Local, Placed, ProvisionSteps
  <2>4. ~StartStep(w) /\ ~StopStep(w)
    <3>1. ~(CommitStart(w) \/ CommitStop(w))
      BY <1>1 DEF CommitStart, CommitStop
    <3> QED
      BY <1>1, <1>5, <2>1, <3>1, HandlerStep DEF Commits, StartSteps, StopSteps, StartStep,
         StopStep, CommitUser, CommitEnsure
  <2>5. ~ProvisionStep(w)
    BY <1>1, <1>5 DEF ProvisionStep, Compensate
  <2>6. ~BootstrapStep(w)
    BY <1>1, <2>1, EnsureFindDoes, EnsureUserDoes, EnsureRoleDoes DEF BootstrapStep, CommitEnsure
  <2> QED
    BY <2>2, <2>3, <2>4, <2>5, <2>6 DEF RequestStep, WorkerStep
<1> QED
  BY <1>2, <1>3, <1>4, <1>5

(* An account goes only by the compensation of one who claims it.          *)
LEMMA AccountLost ==
  ASSUME NEW w \in Workers, RequestStep(w), NEW u \in auth0, u \notin auth0'
  PROVE  Claims(w, u) /\ pc[w] = "compensate" /\ UNCHANGED <<users, rights, inDoubt>>
<1>1. ~Commits(w)
  BY DEF Commits, CommitStart, CommitStop, CommitUser, CommitEnsure
<1>2. ~CreateAuth0User(w)
  BY DEF CreateAuth0User
<1>3. Compensate(w)
  BY <1>1, <1>2, QuietStep DEF people
<1> QED
  BY <1>3 DEF Compensate, Claims

LEMMA RequestStepAuth0 ==
  ASSUME TypeOK, AllLocal, UsersInv, Auth0Inv, NEW w \in Workers, RequestStep(w)
  PROVE  Auth0Inv'
<1>1. StepOf(w) /\ UNCHANGED webhook
  BY RequestStepTyped, WebhookKept DEF AllLocal
<1>2. inDoubt \subseteq inDoubt'
  <2>1. CASE Commits(w)
    BY <2>1 DEF Commits, CommitStart, CommitStop, CommitUser, CommitEnsure
  <2>2. CASE CreateAuth0User(w) \/ Compensate(w)
    BY <2>2 DEF CreateAuth0User, Compensate
  <2> QED
    BY <2>1, <2>2, QuietStep DEF people
<1> SUFFICES ASSUME NEW u \in Users
             PROVE  (/\ Exists(u) => u \in auth0 \/ Excused(u)
                     /\ \A v \in Workers :
                          Claims(v, u) =>
                            /\ u \in auth0 \/ DeletedAtAuth0(u)
                            /\ pc[v] # "commit_user" /\ Exists(u) => Excused(u)
                            /\ \A x \in Others(v) : Claims(x, u) => DeletedAtAuth0(u))'
  BY DEF Auth0Inv
<1>3. DeletedAtAuth0(u)' <=> DeletedAtAuth0(u)
  BY <1>1 DEF DeletedAtAuth0, webhook
<1>4. Excused(u) => Excused(u)'
  BY <1>2, <1>3, RequestStepUsers DEF Excused, Lasting
<1>5. /\ Exists(u) => u \in auth0 \/ Excused(u)
      /\ \A v \in Workers :
           Claims(v, u) =>
             /\ u \in auth0 \/ DeletedAtAuth0(u)
             /\ pc[v] # "commit_user" /\ Exists(u) => Excused(u)
             /\ \A x \in Others(v) : Claims(x, u) => DeletedAtAuth0(u)
  BY DEF Auth0Inv
<1>6. ASSUME Exists(u)', ~Exists(u)
      PROVE  (pc[w] = "commit_user" /\ Claims(w, u)) \/ "platform_admin" \in rights'[u].roles
  BY <1>6, WrittenUser DEF Exists, Claims
<1>7. \A v \in Others(w) : (Claims(v, u)' <=> Claims(v, u)) /\ pc'[v] = pc[v] /\ v # w
  BY <1>1 DEF StepOf, Claims, Others
<1>8. ASSUME u \in auth0, u \notin auth0'
      PROVE  Claims(w, u) /\ pc[w] = "compensate" /\ UNCHANGED <<users, rights, inDoubt>>
  BY <1>8, AccountLost
<1>9. ASSUME pc[w] = "commit_user" PROVE auth0' = auth0
  <2>1. ~CreateAuth0User(w) /\ ~Compensate(w)
    BY <1>9 DEF CreateAuth0User, Compensate
  <2>2. CASE Commits(w)
    BY <2>2 DEF Commits, CommitStart, CommitStop, CommitUser, CommitEnsure
  <2> QED
    BY <2>1, <2>2, QuietStep DEF people
<1>10. (Exists(u) => u \in auth0 \/ Excused(u))'
  <2> SUFFICES ASSUME Exists(u)', ~Excused(u)' PROVE u \in auth0'
    OBVIOUS
  <2>1. CASE Exists(u)
    BY <1>4, <1>5, <1>8, <2>1
  <2>2. CASE ~Exists(u)
    BY <1>3, <1>5, <1>6, <1>9, <2>2 DEF Excused
  <2> QED
    BY <2>1, <2>2
<1>11. ASSUME NEW v \in Others(w), Claims(v, u)'
       PROVE  /\ (u \in auth0 \/ DeletedAtAuth0(u))'
              /\ (pc[v] # "commit_user" /\ Exists(u) => Excused(u))'
              /\ \A x \in Others(v) : Claims(x, u)' => DeletedAtAuth0(u)'
  <2>1. Claims(v, u) /\ pc'[v] = pc[v] /\ v \in Workers /\ w \in Others(v)
    BY <1>7, <1>11 DEF Others
  <2>2. Claims(w, u) => DeletedAtAuth0(u)
    BY <1>5, <2>1
  <2>3. (u \in auth0 \/ DeletedAtAuth0(u))'
    BY <1>3, <1>5, <1>8, <2>1, <2>2
  <2>4. (pc[v] # "commit_user" /\ Exists(u) => Excused(u))'
    BY <1>3, <1>4, <1>5, <1>6, <2>1, <2>2 DEF Excused
  <2>5. ASSUME NEW x \in Others(v), Claims(x, u)' PROVE DeletedAtAuth0(u)'
    <3>1. CASE x # w
      BY <1>3, <1>5, <1>7, <2>1, <2>5, <3>1 DEF Others
    <3>2. CASE x = w
      BY <1>3, <1>5, <2>1, <2>2, <2>5, <3>2, ClaimStep
    <3> QED
      BY <3>1, <3>2
  <2> QED
    BY <2>3, <2>4, <2>5
<1>12. ASSUME Claims(w, u)'
       PROVE  /\ (u \in auth0 \/ DeletedAtAuth0(u))'
              /\ (pc[w] # "commit_user" /\ Exists(u) => Excused(u))'
              /\ \A x \in Others(w) : Claims(x, u)' => DeletedAtAuth0(u)'
  <2>1. CASE /\ u \notin auth0 /\ auth0' = auth0 \cup {u} /\ pc'[w] = "insert_user"
             /\ UNCHANGED <<users, rights, inDoubt>>
    <3>1. ASSUME NEW x \in Others(w), Claims(x, u)' PROVE DeletedAtAuth0(u)'
      BY <1>3, <1>5, <1>7, <2>1, <3>1 DEF Others
    <3>2. Exists(u)' <=> Exists(u)
      BY <2>1 DEF Exists
    <3> QED
      BY <1>4, <1>5, <2>1, <3>1, <3>2
  <2>2. CASE /\ Claims(w, u) /\ auth0' = auth0
             /\ \/ pc'[w] = "commit_user"
                \/ pc[w] = "insert_user" /\ UNCHANGED <<users, rights, inDoubt>>
                \/ pc[w] = "commit_user" /\ u \in inDoubt'
                \/ pc[w] = "commit_user" /\ UNCHANGED users /\ ~Exists(u)
    <3>1. \A x \in Others(w) : Claims(x, u)' => DeletedAtAuth0(u)'
      BY <1>3, <1>5, <1>7, <2>2
    <3>2. (pc[w] # "commit_user" /\ Exists(u) => Excused(u))'
      <4>1. CASE pc[w] = "insert_user" /\ UNCHANGED <<users, rights, inDoubt>>
        BY <1>4, <1>5, <2>2, <4>1 DEF Exists
      <4>2. CASE u \in inDoubt'
        BY <4>2 DEF Excused
      <4>3. CASE UNCHANGED users /\ ~Exists(u)
        BY <4>3 DEF Exists
      <4> QED
        BY <2>2, <4>1, <4>2, <4>3
    <3> QED
      BY <1>3, <1>5, <2>2, <3>1, <3>2
  <2> QED
    BY <1>12, <2>1, <2>2, ClaimStep
<1> QED
  BY <1>10, <1>11, <1>12 DEF Others
(* The status of a user follows the events, however requests write rows.   *)
LEMMA RequestStepEvents ==
  ASSUME TypeOK, AllLocal, UsersInv, EventsInv, NEW w \in Workers, RequestStep(w)
  PROVE  EventsInv'
<1>1. UNCHANGED <<ledger, unmatched, applied>>
  BY WebhookKept DEF webhook
<1>2. \A u \in Users : Lasting(u)
  BY RequestStepUsers
<1>3. (IsInjective(applied) /\ ToSet(applied) = ledger)'
  BY <1>1 DEF EventsInv, EventsAppliedOnce, IsInjective, ToSet
<1>4. ASSUME NEW u \in Users, NEW i \in DOMAIN applied,
             AboutStatus(applied[i], u), applied[i] \notin unmatched
      PROVE  Exists(u)'
  BY <1>2, <1>4 DEF EventsInv, Lasting
<1>5. ASSUME NEW u \in Users, NEW i \in DOMAIN applied,
             AboutStatus(applied[i], u), applied[i] \notin unmatched,
             \A j \in DOMAIN applied : AboutStatus(applied[j], u) => j <= i,
             "platform_admin" \notin rights'[u].roles
      PROVE  users'[u].status = IF /\ EventOf[applied[i]].type = "sapi"
                                   /\ "unblock user" \in EventOf[applied[i]].says
                                THEN "ACTIVE" ELSE "DEACTIVATED"
  <2>1. "platform_admin" \notin rights[u].roles
    BY <1>2, <1>5 DEF Lasting
  <2>2. Exists(u)
    BY <1>5 DEF EventsInv
  <2>3. users'[u] = users[u]
    BY <1>5, <2>2, WrittenUser
  <2> QED
    BY <1>5, <2>1, <2>3 DEF EventsInv, EventsAppliedOnce
<1>6. EventsAppliedOnce'
  BY <1>1, <1>3, <1>5 DEF EventsAppliedOnce, AboutStatus
<1> QED
  BY <1>1, <1>4, <1>6 DEF EventsInv, AboutStatus
-----------------------------------------------------------------------------
(* What Auth0, the webhook and the clock leave alone.                      *)
Outside ==
  /\ UNCHANGED <<pc, req, tx, rights, inDoubt, grants, auditLog>>
  /\ now <= now'
  /\ \A u \in Users : Lasting(u) /\ (Exists(u)' <=> Exists(u))

LEMMA OutsideTables ==
  ASSUME TypeOK, TypeOK', AllLocal, GrantsInv, UsersInv, GuardInv, Outside
  PROVE  GrantsInv' /\ UsersInv' /\ GuardInv'
<1>1. GrantsInv'
  <2>1. GrantHistory'
    BY DEF Outside, GrantsInv, GrantHistory, OpenGrants
  <2>2. ASSUME NEW w \in Workers PROVE Starting(w)' /\ Ending(w)' /\ Found(w)'
    <3>1. Starting(w)'
      BY DEF Outside, GrantsInv, Starting, OpenGrants, Others
    <3>2. Ending(w)'
      BY DEF Outside, GrantsInv, Ending, Others
    <3>3. Found(w)'
      BY DEF Outside, GrantsInv, Found
    <3> QED
      BY <3>1, <3>2, <3>3
  <2> QED
    BY <2>1, <2>2 DEF GrantsInv
<1>2. UsersInv'
  <2>1. ASSUME NEW u \in Users PROVE Whole(u)'
    <3>1. Whole(u) /\ Lasting(u) /\ (Exists(u)' <=> Exists(u)) /\ rights' = rights
          /\ rights[u] \in Rights
      BY DEF UsersInv, Outside, TypeOK
    <3>2. CASE Exists(u)
      BY <3>1, <3>2, FitsMore DEF Whole, Lasting
    <3>3. CASE ~Exists(u)
      BY <3>1, <3>3 DEF Whole
    <3> QED
      BY <3>2, <3>3
  <2>2. ASSUME NEW w \in Workers PROVE RowStaged(w)' /\ RightsStaged(w)' /\ BootstrapRead(w)'
    BY UserBystander DEF Outside
  <2> QED
    BY <2>1, <2>2 DEF UsersInv
<1>3. GuardInv'
  <2>1. \A g \in GrantIds : GrantLasting(g)
    BY DEF Outside, GrantLasting
  <2>2. ASSUME NEW g \in GrantIds PROVE GrantOfOperator(g)'
    <3>1. CASE grants[g].state = "FREE"
      BY <3>1 DEF Outside, GrantOfOperator
    <3>2. CASE grants[g].state # "FREE"
      BY <2>1, <3>2, GrantOwnerLasts DEF Outside
    <3> QED
      BY <3>1, <3>2
  <2>3. ASSUME NEW w \in Workers PROVE Admitted(w)' /\ Judged(w)'
    BY <2>1, GuardBystander DEF Outside
  <2> QED
    BY <2>2, <2>3 DEF GuardInv
<1> QED
  BY <1>1, <1>2, <1>3

LEMMA HandledUser ==
  ASSUME TypeOK, NEW l \in LogIds, HandleEntry(l), NEW u \in Users
  PROVE  LET status == EffectOf(EventOf[l]) IN
         users'[u] = IF AboutStatus(l, u) /\ Exists(u) THEN [users[u] EXCEPT !.status = status]
                     ELSE users[u]
<1>1. EventOf[l].user \in Users
  BY InputAssumption
<1> QED
  BY <1>1 DEF HandleEntry, AboutStatus, TypeOK, Exists

LEMMA OutsideOf ==
  ASSUME TypeOK, \/ \E l \in LogIds : Emit(l) \/ HandleEntry(l) \/ Acknowledge(l)
                 \/ Tick \/ UNCHANGED vars
  PROVE  Outside
<1>1. CASE UNCHANGED users
  <2>1. UNCHANGED <<pc, req, tx, rights, inDoubt, grants, auditLog>>
        /\ (now' = now \/ now' = now + 1)
    BY DEF Emit, HandleEntry, Acknowledge, Tick, vars, people, grantTables
  <2>2. now <= now'
    BY <2>1 DEF TypeOK
  <2> QED
    BY <1>1, <2>1, <2>2 DEF Outside, Lasting, Exists
<1>2. CASE ~UNCHANGED users
  <2>1. PICK l \in LogIds : HandleEntry(l)
    BY <1>2 DEF Emit, Acknowledge, Tick, vars, people
  <2>2. UNCHANGED <<pc, req, tx, rights, inDoubt, grants, auditLog>> /\ now <= now'
    BY <2>1 DEF HandleEntry, grantTables, TypeOK
  <2>3. ASSUME NEW u \in Users PROVE Lasting(u) /\ (Exists(u)' <=> Exists(u))
    <3>1. EffectOf(EventOf[l]) \in {"DEACTIVATED", "ACTIVE", "NONE"} /\ users[u] \in UserRow
      BY EffectTyped DEF TypeOK
    <3>2. CASE AboutStatus(l, u) /\ Exists(u)
      <4> DEFINE status == EffectOf(EventOf[l])
      <4>1. status \in {"DEACTIVATED", "ACTIVE"} /\ users'[u] = [users[u] EXCEPT !.status = status]
        BY <2>1, <3>1, <3>2, HandledUser DEF AboutStatus
      <4> HIDE DEF status
      <4>2. /\ users'[u].status = status
            /\ users'[u].class = users[u].class /\ users'[u].tenant = users[u].tenant
        BY <3>1, <4>1 DEF UserRow
      <4>3. Exists(u)' /\ Exists(u)
        BY <3>2, <4>1, <4>2 DEF Exists
      <4> QED
        BY <2>2, <4>2, <4>3 DEF Lasting
    <3>3. CASE ~(AboutStatus(l, u) /\ Exists(u))
      BY <2>1, <2>2, <3>3, HandledUser DEF Lasting, Exists
    <3> QED
      BY <3>2, <3>3
  <2> QED
    BY <2>2, <2>3 DEF Outside
<1> QED
  BY <1>1, <1>2

(* A user whose account an event removes is deleted at Auth0 from then on. *)
LEMMA OutsideAuth0 ==
  ASSUME TypeOK, Auth0Inv, Outside,
         \/ \E l \in LogIds : Emit(l)
         \/ UNCHANGED <<auth0, emitted>>
  PROVE  Auth0Inv'
<1>1. ASSUME NEW u \in Users
      PROVE  /\ u \in auth0 => u \in auth0' \/ DeletedAtAuth0(u)'
             /\ DeletedAtAuth0(u) => DeletedAtAuth0(u)'
  <2>1. CASE UNCHANGED <<auth0, emitted>>
    BY <2>1 DEF DeletedAtAuth0
  <2>2. CASE \E l \in LogIds : Emit(l)
    <3>1. PICK l \in LogIds : Emit(l)
      BY <2>2
    <3>2. /\ emitted' = Append(emitted, l) /\ emitted \in Seq(LogIds)
          /\ auth0' = IF EventOf[l].type = "sd" THEN auth0 \ {EventOf[l].user} ELSE auth0
      BY <3>1 DEF Emit, TypeOK
    <3>3. /\ DOMAIN emitted \subseteq DOMAIN emitted'
          /\ \A i \in DOMAIN emitted : emitted'[i] = emitted[i]
          /\ Len(emitted) + 1 \in DOMAIN emitted' /\ emitted'[Len(emitted) + 1] = l
      BY <3>2
    <3>4. DeletedAtAuth0(u) => DeletedAtAuth0(u)'
      BY <3>3 DEF DeletedAtAuth0
    <3>5. ASSUME u \in auth0, u \notin auth0' PROVE DeletedAtAuth0(u)'
      BY <3>2, <3>3, <3>5 DEF DeletedAtAuth0
    <3> QED
      BY <3>4, <3>5
  <2> QED
    BY <2>1, <2>2
<1>2. ASSUME NEW u \in Users
      PROVE  (Excused(u) => Excused(u)') /\ (Exists(u)' <=> Exists(u))
             /\ \A w \in Workers : Claims(w, u)' <=> Claims(w, u)
  BY <1>1 DEF Excused, Outside, Claims
<1>3. ASSUME NEW u \in Users PROVE DeletedAtAuth0(u)' => Excused(u)'
  BY DEF Excused
<1> QED
  BY <1>1, <1>2, <1>3 DEF Auth0Inv, Outside, Others

(* One more event, applied once: its user's status is now what it says.    *)
LEMMA HandleEntryEvents ==
  ASSUME TypeOK, EventsInv, Outside, NEW l \in LogIds, HandleEntry(l)
  PROVE  EventsInv'
<1> DEFINE status == EffectOf(EventOf[l])
           last == Len(applied) + 1
<1>1. /\ l \notin ledger /\ ledger' = ledger \cup {l} /\ applied' = Append(applied, l)
      /\ applied \in Seq(LogIds) /\ unmatched \subseteq ledger /\ rights' = rights
  BY DEF HandleEntry, TypeOK
<1>2. /\ DOMAIN applied' = DOMAIN applied \cup {last} /\ last \notin DOMAIN applied
      /\ applied'[last] = l /\ \A i \in DOMAIN applied : applied'[i] = applied[i] /\ i < last
  BY <1>1
<1>3. ToSet(applied) = ledger /\ IsInjective(applied)
  BY DEF EventsInv, EventsAppliedOnce
<1>4. \A i \in DOMAIN applied : applied[i] \in ledger /\ applied[i] # l
  BY <1>1, <1>3 DEF ToSet
<1>5. IsInjective(applied)'
  BY <1>2, <1>3, <1>4 DEF IsInjective
<1>6. ToSet(applied)' = ledger'
  BY <1>1, <1>2, <1>3 DEF ToSet
<1>7. /\ unmatched \subseteq unmatched'
      /\ \A u \in Users : AboutStatus(l, u) /\ l \notin unmatched' => Exists(u)
  BY <1>1 DEF HandleEntry, AboutStatus
<1>8. ASSUME NEW u \in Users, NEW i \in DOMAIN applied',
             AboutStatus(applied'[i], u), applied'[i] \notin unmatched'
      PROVE  Exists(u)'
  <2>1. CASE i = last
    BY <1>2, <1>7, <1>8, <2>1 DEF Outside
  <2>2. CASE i \in DOMAIN applied
    BY <1>2, <1>7, <1>8, <2>2 DEF EventsInv, Outside
  <2> QED
    BY <1>2, <2>1, <2>2
<1>9. ASSUME NEW u \in Users, NEW i \in DOMAIN applied',
             AboutStatus(applied'[i], u), applied'[i] \notin unmatched',
             \A j \in DOMAIN applied' : AboutStatus(applied'[j], u) => j <= i,
             "platform_admin" \notin rights[u].roles
      PROVE  users'[u].status = IF /\ EventOf[applied'[i]].type = "sapi"
                                   /\ "unblock user" \in EventOf[applied'[i]].says
                                THEN "ACTIVE" ELSE "DEACTIVATED"
  <2>1. CASE i = last
    <3>1. AboutStatus(l, u) /\ Exists(u) /\ status # "NONE"
      BY <1>2, <1>7, <1>9, <2>1 DEF AboutStatus
    <3>2. users'[u] = [users[u] EXCEPT !.status = status] /\ users[u] \in UserRow
      BY <3>1, HandledUser DEF TypeOK
    <3>3. status = IF EventOf[l].type = "sapi" /\ "unblock user" \in EventOf[l].says
                   THEN "ACTIVE" ELSE "DEACTIVATED"
      BY <3>1 DEF EffectOf
    <3> HIDE DEF status
    <3> QED
      BY <1>2, <2>1, <3>2, <3>3 DEF UserRow
  <2>2. CASE i \in DOMAIN applied
    <3>1. i < last /\ last \in DOMAIN applied' /\ i \in Nat /\ last \in Nat
      BY <1>1, <1>2, <2>2
    <3>2. ~AboutStatus(l, u)
      BY <1>2, <1>9, <3>1
    <3>3. users'[u] = users[u]
      BY <3>2, HandledUser
    <3>4. \A j \in DOMAIN applied : AboutStatus(applied[j], u) => j <= i
      BY <1>2, <1>9
    <3>5. AboutStatus(applied[i], u) /\ applied[i] \notin unmatched
      BY <1>2, <1>7, <1>9, <2>2
    <3> QED
      BY <1>2, <1>9, <2>2, <3>3, <3>4, <3>5 DEF EventsInv, EventsAppliedOnce
  <2> QED
    BY <1>2, <2>1, <2>2
<1>10. EventsAppliedOnce'
  BY <1>1, <1>5, <1>6, <1>9 DEF EventsAppliedOnce, AboutStatus
<1> QED
  BY <1>8, <1>10 DEF EventsInv, AboutStatus

LEMMA EventsKept ==
  ASSUME EventsInv, Outside, UNCHANGED <<users, ledger, unmatched, applied>>
  PROVE  EventsInv'
<1>1. EventsAppliedOnce'
  BY DEF EventsInv, EventsAppliedOnce, Outside, IsInjective, ToSet, AboutStatus
<1> QED
  BY <1>1 DEF EventsInv, Outside, AboutStatus

THEOREM InitInductive == Init => Inductive
<1> SUFFICES ASSUME Init PROVE Inductive
  OBVIOUS
<1>1. TypeOK /\ \A w \in Workers : Local(w)
  BY InitTyped, InitLocal
<1>2. GrantsInv
  <2>1. \A g \in GrantIds : grants[g] = FreeGrant /\ auditLog[g] = [STARTED |-> 0, ENDED |-> 0]
    BY DEF Init
  <2>2. GrantHistory
    BY <2>1 DEF GrantHistory, OpenGrants, FreeGrant
  <2>3. \A w \in Workers : pc[w] = "idle" /\ tx[w] = NoTx
    BY DEF Init
  <2>4. \A w \in Workers : Starting(w) /\ Ending(w) /\ Found(w)
    BY <2>3 DEF Starting, Ending, Found, NoTx
  <2> QED
    BY <2>2, <2>4 DEF GrantsInv
<1>3. UsersInv
  <2>1. ASSUME NEW u \in Users PROVE Whole(u)
    BY SeedAssumption DEF Init, Whole, Exists, SomeRow
  <2>2. \A w \in Workers : pc[w] = "idle" /\ tx[w].user = NoUser /\ tx[w].owner = NoUser
    BY DEF Init, NoTx
  <2>3. \A w \in Workers : RowStaged(w) /\ RightsStaged(w) /\ BootstrapRead(w)
    BY <2>2 DEF RowStaged, RightsStaged, BootstrapRead
  <2> QED
    BY <2>1, <2>3 DEF UsersInv
<1>4. GuardInv
  BY DEF Init, GuardInv, GrantOfOperator, Admitted, Judged, FreeGrant, GuardedSteps,
     StartSteps, StopSteps
<1>5. Auth0Inv
  BY DEF Init, Auth0Inv, Exists, SomeRow, Claims
<1>6. EventsInv
  BY DEF Init, EventsInv, EventsAppliedOnce, IsInjective, ToSet
<1> QED
  BY <1>1, <1>2, <1>3, <1>4, <1>5, <1>6 DEF Inductive, Local

THEOREM InductiveStep == Inductive /\ [Next]_vars => Inductive'
<1> SUFFICES ASSUME Inductive, [Next]_vars PROVE Inductive'
  OBVIOUS
<1>1. TypeOK /\ AllLocal /\ GrantsInv /\ UsersInv /\ GuardInv /\ Auth0Inv /\ EventsInv
  BY DEF Inductive, AllLocal, Local
<1>2. TypeOK' /\ \A w \in Workers : Local(w)'
  BY <1>1, TypedStep DEF AllLocal
<1>3. CASE \E w \in Workers : RequestStep(w)
  <2>1. GrantsInv' /\ UsersInv' /\ GuardInv' /\ Auth0Inv' /\ EventsInv'
    BY <1>1, <1>3, RequestStepGrants, RequestStepUsers, RequestStepGuard, RequestStepAuth0,
       RequestStepEvents
  <2> QED
    BY <1>2, <2>1 DEF Inductive, Local
<1>4. CASE (\E l \in LogIds : Emit(l) \/ HandleEntry(l) \/ Acknowledge(l)) \/ Tick
           \/ UNCHANGED vars
  <2>1. Outside
    BY <1>1, <1>4, OutsideOf
  <2>2. GrantsInv' /\ UsersInv' /\ GuardInv'
    BY <1>1, <1>2, <2>1, OutsideTables
  <2>3. Auth0Inv'
    <3>1. (\E l \in LogIds : Emit(l)) \/ UNCHANGED <<auth0, emitted>>
      BY <1>4 DEF HandleEntry, Acknowledge, Tick, vars, people, webhook
    <3> QED
      BY <1>1, <2>1, <3>1, OutsideAuth0
  <2>4. EventsInv'
    <3>1. (\E l \in LogIds : HandleEntry(l)) \/ UNCHANGED <<users, ledger, unmatched, applied>>
      BY <1>4 DEF Emit, Acknowledge, Tick, vars, people, webhook
    <3> QED
      BY <1>1, <2>1, <3>1, HandleEntryEvents, EventsKept
  <2> QED
    BY <1>2, <2>2, <2>3, <2>4 DEF Inductive, Local
<1> QED
  BY <1>3, <1>4, StepsOfNext

(* The invariant of Identity holds in every state the requests, Auth0's    *)
(* webhook, the clock and their failures can reach, for any number of      *)
(* each.                                                                   *)
THEOREM IdentityInductive == Spec => []Inductive
<1>1. Init => Inductive
  BY InitInductive
<1>2. Inductive /\ [Next]_vars => Inductive'
  BY InductiveStep
<1> QED
  BY <1>1, <1>2, PTL DEF Spec
-----------------------------------------------------------------------------
(* ImpersonationService: an actor never has two un-ended grants, and the   *)
(* audit log and the grants agree, whichever starts and stops race, wait   *)
(* for each other's rows, or fail.                                         *)
THEOREM GrantsAgree == Spec => []GrantHistory
<1>1. Inductive => GrantHistory
  BY DEF Inductive, GrantsInv
<1> QED
  BY <1>1, IdentityInductive, PTL

(* UserProvisioningService and BootstrapPlatformAdminService: the row, the *)
(* roles and the membership of a user are there together or not at all and *)
(* fit each other, and a user without an Auth0 account has lost it in one  *)
(* of three known ways.                                                    *)
THEOREM UsersWhole == Spec => []ProvisionedWhole
<1>1. Inductive => ProvisionedWhole
  <2> SUFFICES ASSUME Inductive, NEW u \in Users
               PROVE  IF ~Exists(u) THEN rights[u] = NoRights
                      ELSE /\ Fits(users[u], rights[u])
                           /\ \/ u \in auth0 \cup inDoubt
                              \/ DeletedAtAuth0(u) \/ "platform_admin" \in rights[u].roles
    BY DEF ProvisionedWhole
  <2>1. Whole(u)
    BY DEF Inductive, UsersInv
  <2>2. Exists(u) => u \in auth0 \/ Excused(u)
    BY DEF Inductive, Auth0Inv
  <2> QED
    BY <2>1, <2>2 DEF Whole, Excused
<1> QED
  BY <1>1, IdentityInductive, PTL

(* Auth0EventHandlerService: every event is applied once, and the last     *)
(* status event of a user is what the user's row says, but for the         *)
(* exceptions the property names.                                          *)
THEOREM EventsOnce == Spec => []EventsAppliedOnce
<1>1. Inductive => EventsAppliedOnce
  BY DEF Inductive, EventsInv
<1> QED
  BY <1>1, IdentityInductive, PTL

(* JwtAuthGuard: a request is served with the powers of the grant that is  *)
(* active, never under one that had ended before it began, and never       *)
(* confirms a booking under one.                                           *)
THEOREM ServedAsJudged == Spec => ServedUnderTheGrant
<1>1. Inductive =>
        \A w \in Workers :
          pc[w] = "serve" /\ pc'[w] = "idle" =>
            /\ req[w].ctx.impersonating =>
                 req[w].kind # "confirm" /\ req[w].ctx.grant \notin req[w].past
            /\ \A g \in req[w].open : g \in ActiveGrants(req[w].user) => req[w].ctx.grant = g
  BY DEF Inductive, GuardInv, Judged
<1> QED
  BY <1>1, IdentityInductive, PTL DEF ServedUnderTheGrant
=============================================================================
