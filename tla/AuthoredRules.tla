---------------------------- MODULE AuthoredRules ----------------------------
(***************************************************************************)
(* Cancellation policies and restrictions, of one contract or as supplier  *)
(* defaults.  Neither is ever updated or deleted: a new row supersedes an  *)
(* old one through superseded_by_id.  A new policy takes the next version  *)
(* of its scope under the lock of its parent row.                          *)
(***************************************************************************)
EXTENDS ContractStore

SupplierOf(q) == q.owner[1]

(* The row lockParent takes: the contract, or the supplier of a default.   *)
Parent(q) == IF q.contract = None THEN SupplierOf(q) ELSE q.contract

(* The gate of contract-scoped writes: the contract's status, and supplier *)
(* and hotel of the body are the contract's.  Defaults have none.          *)
Admits(c, owner) == c # None => Writable(c) /\ owner = OwnerOf[c]

(* createContractCancellationPolicy, createSupplierCancellationPolicy.     *)
StartPolicy(w, c, owner, plan, p) ==
  /\ Admits(c, owner)
  /\ policies[p] = NoPolicy /\ Unused(p)
  /\ Begin(w, "lock_parent",
           [NoRequest EXCEPT !.contract = c, !.owner = owner, !.plan = plan, !.id = p])

(* The two supersede handlers; the supplier one looks the old row up first *)
(* and refuses one that belongs to a contract.  Supplier, hotel and plan   *)
(* are those of the body: nobody compares them with the old row's.         *)
StartSupersedePolicy(w, c, owner, plan, old, p) ==
  /\ Admits(c, owner)
  /\ policies[old].version # 0
  /\ c = None => policies[old].contract = None
  /\ policies[p] = NoPolicy /\ Unused(p)
  /\ Begin(w, "lock_old_policy",
           [NoRequest EXCEPT !.contract = c, !.owner = owner, !.plan = plan, !.old = old,
                             !.id = p])

(* Mutant of LockOldPolicy: it does not look whether the row is            *)
(* superseded already.                                                     *)
LockAnyOldPolicy(w) ==
  LET q == req[w] IN
  /\ step[w] = "lock_old_policy"
  /\ lock[q.old] = None
  /\ policies[q.old].version # 0
  /\ policies[q.old].contract = q.contract
  /\ lock' = [lock EXCEPT ![q.old] = w]
  /\ Proceed(w, "lock_parent", q)

(* Mutant of LockOldPolicy: the scope guard is missing.                    *)
LockOldPolicyOfAnyContract(w) ==
  LET q == req[w] IN
  /\ step[w] = "lock_old_policy"
  /\ lock[q.old] = None
  /\ policies[q.old].version # 0 /\ policies[q.old].by = None
  /\ lock' = [lock EXCEPT ![q.old] = w]
  /\ Proceed(w, "lock_parent", q)

(* The old row FOR UPDATE; it must be there, not yet superseded, and of    *)
(* the expected contract (or of none).                                     *)
LockOldPolicy(w) ==
  LET q == req[w] IN
  /\ step[w] = "lock_old_policy"
  /\ lock[q.old] = None
  /\ policies[q.old].version # 0 /\ policies[q.old].by = None
  /\ policies[q.old].contract = q.contract
  /\ lock' = [lock EXCEPT ![q.old] = w]
  /\ Proceed(w, "lock_parent", q)

(* Mutant of LockParent: the parent row is read and not locked.            *)
ReadParent(w) ==
  /\ step[w] = "lock_parent"
  /\ lock[Parent(req[w])] = None
  /\ Proceed(w, "compute_version", req[w])
  /\ UNCHANGED lock

LockParent(w) ==
  /\ step[w] = "lock_parent"
  /\ lock[Parent(req[w])] = None
  /\ lock' = [lock EXCEPT ![Parent(req[w])] = w]
  /\ Proceed(w, "compute_version", req[w])

(* The policies of the (supplier, hotel, plan, contract) scope of q, a row *)
(* or a request for one; superseded ones are included.                     *)
Scope(q) ==
  {p \in Policies : /\ policies[p].version # 0
                    /\ policies[p].contract = q.contract /\ policies[p].owner = q.owner
                    /\ policies[p].plan = q.plan}

Versions(q) == {0} \cup {policies[p].version : p \in Scope(q)}

(* MAX(policy_version) + 1, and 1 where the scope is empty.                *)
ComputeVersion(w) ==
  LET q == req[w] IN
  /\ step[w] = "compute_version"
  /\ \E max \in Versions(q) :
       /\ \A v \in Versions(q) : v <= max
       /\ Proceed(w, "insert_policy", [q EXCEPT !.version = max + 1])
  /\ UNCHANGED lock

(* INSERT, the link of the old row if there is one, COMMIT.  The INSERT's  *)
(* foreign keys wait for the contract and the supplier row.                *)
InsertPolicy(w) ==
  LET q == req[w] IN
  /\ step[w] = "insert_policy"
  /\ Free(Parent(q), w) /\ Free(SupplierOf(q), w)
  /\ policies' = [p \in Policies |->
                    CASE p = q.id -> [contract |-> q.contract, owner |-> q.owner,
                                      plan |-> q.plan, version |-> q.version, by |-> None]
                      [] p = q.old -> [policies[p] EXCEPT !.by = q.id]
                      [] OTHER -> policies[p]]
  /\ Finish(w)
  /\ UNCHANGED <<contracts, seasons, bands, rates, restrictions>>
-----------------------------------------------------------------------------
(* createContractRestriction, createSupplierRestriction.                   *)
StartRestriction(w, c, owner, s, r) ==
  /\ Admits(c, owner)
  /\ c = None => s = None
  /\ restrictions[r] = NoRestriction /\ Unused(r)
  /\ Begin(w, "insert_restriction",
           [NoRequest EXCEPT !.contract = c, !.owner = owner, !.season = s, !.id = r])

(* As with policies, the body says whose the new row is.                   *)
StartSupersedeRestriction(w, c, owner, s, old, r) ==
  /\ Admits(c, owner)
  /\ restrictions[old].presence = "THERE"
  /\ c = None => s = None /\ restrictions[old].contract = None
  /\ restrictions[r] = NoRestriction /\ Unused(r)
  /\ Begin(w, "lock_old_restriction",
           [NoRequest EXCEPT !.contract = c, !.owner = owner, !.season = s, !.old = old,
                             !.id = r])

(* The INSERT's foreign keys: supplier, contract, and a season of it.      *)
RestrictionFits(w) ==
  LET q == req[w] IN
  /\ Free(Parent(q), w) /\ Free(SupplierOf(q), w)
  /\ q.season \in SeasonsOf(q.contract) \cup {None}

RestrictionOf(q) == [presence |-> "THERE", contract |-> q.contract, owner |-> q.owner,
                     season |-> q.season, by |-> None]

InsertRestriction(w) ==
  /\ step[w] = "insert_restriction"
  /\ RestrictionFits(w)
  /\ restrictions' = [restrictions EXCEPT ![req[w].id] = RestrictionOf(req[w])]
  /\ Finish(w)
  /\ UNCHANGED <<contracts, seasons, bands, rates, policies>>

(* Mutant of LockOldRestriction: the scope guard is missing.               *)
LockOldRestrictionOfAnyContract(w) ==
  LET q == req[w] IN
  /\ step[w] = "lock_old_restriction"
  /\ lock[q.old] = None
  /\ restrictions[q.old].presence = "THERE" /\ restrictions[q.old].by = None
  /\ lock' = [lock EXCEPT ![q.old] = w]
  /\ Proceed(w, "replace_restriction", q)

LockOldRestriction(w) ==
  LET q == req[w] IN
  /\ step[w] = "lock_old_restriction"
  /\ lock[q.old] = None
  /\ restrictions[q.old].presence = "THERE" /\ restrictions[q.old].by = None
  /\ restrictions[q.old].contract = q.contract
  /\ lock' = [lock EXCEPT ![q.old] = w]
  /\ Proceed(w, "replace_restriction", q)

(* INSERT of the new row, link of the old one, COMMIT.                     *)
ReplaceRestriction(w) ==
  LET q == req[w] IN
  /\ step[w] = "replace_restriction"
  /\ RestrictionFits(w)
  /\ restrictions' = [restrictions EXCEPT ![q.id] = RestrictionOf(q), ![q.old].by = q.id]
  /\ Finish(w)
  /\ UNCHANGED <<contracts, seasons, bands, rates, policies>>
=============================================================================
