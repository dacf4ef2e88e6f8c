------------------------------ MODULE MCIdentity ------------------------------
(***************************************************************************)
(* An operator, a user of an agency and a newcomer; an account of the      *)
(* operator's tenant and one of another; two grants; two workers; an event *)
(* that blocks the user and one that unblocks.  What works on the grants   *)
(* and what works on the users are checked one at a time (OneSubject).     *)
(***************************************************************************)
EXTENDS IdentityInvariant, TLC

CONSTANTS op, booker, new, agency, foreign, e1, e2, e3, g1, g2, g3, w1, w2

MCTenants == {"home", "other"}

MCAccountRow ==
  agency :> [type |-> "AGENCY", tenant |-> "home"] @@ foreign :> [type |-> "AGENCY", tenant |-> "other"]

MCSeedUsers ==
  op :> [row |-> [status |-> "ACTIVE", class |-> "OPERATOR", tenant |-> "home"],
         rights |-> [roles |-> {"ops_support"}, account |-> NoAccount]]
  @@ booker :> [row |-> [status |-> "ACTIVE", class |-> "AGENCY", tenant |-> "home"],
                rights |-> [roles |-> {"booker"}, account |-> agency]]

MCTokens ==
  {[user |-> u, tenant |-> "home", account |-> NoAccount] : u \in {op, booker}}
    \cup {[user |-> booker, tenant |-> t, account |-> a] :
             t \in MCTenants, a \in {agency, foreign}}

(* The role fits the one class and not the other.                          *)
MCOrders ==
  {[user |-> new, row |-> [status |-> "ACTIVE", class |-> c, tenant |-> "home"],
    rights |-> [roles |-> {"booker"}, account |-> IF c = "AGENCY" THEN agency ELSE NoAccount]] :
     c \in Classes}

MCEventOf ==
  e1 :> [user |-> new, type |-> "sapi", says |-> {"block user"}]
  @@ e2 :> [user |-> new, type |-> "sapi", says |-> {"block user", "unblock user"}]
  @@ e3 :> [user |-> new, type |-> "sd", says |-> {}]

Running(kinds) == {w \in Workers : pc[w] # "idle" /\ req[w].kind \in kinds}

Guarded == Running({"search", "confirm", "start", "stop"})

Changing == Running({"provision", "bootstrap"})

GrantsUntouched == grants = [g \in GrantIds |-> FreeGrant] /\ now = 0

UsersUntouched ==
  emitted = <<>> /\ auth0 = DOMAIN SeedUsers /\ ~Exists(new) /\ Changing = {}

(* Only operators have grants, and those of one operator are apart from    *)
(* those of another; a request changes grants or one user, never both.     *)
AboutGrants == UsersUntouched /\ \A w \in Guarded : req[w].user = op

AboutOneRequest == UsersUntouched /\ GrantsUntouched /\ Cardinality(Guarded) <= 1

AboutTheNewcomer ==
  /\ GrantsUntouched /\ Guarded = {}
  /\ \A w \in Changing : req[w].user = new /\ req[w].row.tenant = "home"

OneSubject == AboutGrants \/ AboutOneRequest \/ AboutTheNewcomer

(* A request that only reads here meets those that write, but none of its  *)
(* own kind.                                                               *)
Reading ==
  {w \in Guarded : \/ req[w].kind \in {"search", "confirm"}
                   \/ req[w].target = foreign \/ ~req[w].complete}

Bounded ==
  /\ OneSubject
  /\ Cardinality(Reading) <= 1
  /\ Len(emitted) <= 2
  /\ Cardinality(Changing) = 2 => emitted = <<>>

Symmetry == Permutations(Workers) \cup Permutations(GrantIds)
=============================================================================
