-------------------------- MODULE ContractInvariant --------------------------
(***************************************************************************)
(* The inductive invariant of DirectContracts.  The properties of the      *)
(* tables rest on what each request has read, or locked, some statements   *)
(* before it writes; this says what of that is still so.                   *)
(***************************************************************************)
EXTENDS DirectContracts

SeasonSteps == {"check_overlap", "insert_season", "find_season", "assert_no_overlap",
                "update_season", "delete_season"}

PolicySteps == {"lock_old_policy", "lock_parent", "compute_version", "insert_policy"}

RestrictionSteps == {"insert_restriction", "lock_old_restriction", "replace_restriction"}

(* The steps of requests that will insert a row under their id.            *)
Making == {"check_overlap", "insert_season", "insert_band", "insert_rate"}
            \cup PolicySteps \cup RestrictionSteps

(* What kind of ids the request of w carries.                              *)
Addressed(w) ==
  LET q == req[w] IN
  /\ step[w] \in ContractSteps \cup ChildSteps => q.contract \in Contracts
  /\ step[w] \in SeasonSteps => q.id \in Seasons
  /\ step[w] \in {"insert_band", "delete_band"} => q.id \in Bands
  /\ step[w] \in {"insert_rate", "delete_rate"} => q.id \in Rates
  /\ step[w] \in PolicySteps => q.id \in Policies /\ q.old \in Policies \cup {None}
  /\ step[w] \in RestrictionSteps => q.id \in Restrictions /\ q.old \in Restrictions \cup {None}
  /\ step[w] \in PolicySteps \cup RestrictionSteps =>
       q.owner \in Owners /\ (q.contract # None => q.owner = OwnerOf[q.contract])
  /\ step[w] \in {"lock_old_policy", "lock_old_restriction", "replace_restriction"} =>
       q.old # None

(* The rows the transaction of w has locked so far.                        *)
Held(w) ==
  {x \in Lockable :
     \/ x = req[w].contract /\ step[w] \in {"check_overlap", "insert_season"}
     \/ x = req[w].old /\ step[w] \in {"lock_parent", "compute_version", "insert_policy",
                                       "replace_restriction"}
     \/ step[w] \in {"compute_version", "insert_policy"} /\ x = Parent(req[w])}

LocksHeld == \A w \in Writers, x \in Lockable : lock[x] = w <=> x \in Held(w)

(* The row under a request's new id does not exist yet, and no other       *)
(* request has drawn that id.                                              *)
Fresh(w) ==
  /\ step[w] \in {"check_overlap", "insert_season"} => seasons[req[w].id] = NoSeason
  /\ step[w] = "insert_band" => bands[req[w].id] = NoBand
  /\ step[w] = "insert_rate" => rates[req[w].id] = NoRate
  /\ step[w] \in PolicySteps => policies[req[w].id] = NoPolicy
  /\ step[w] \in RestrictionSteps => restrictions[req[w].id] = NoRestriction

IdsApart ==
  \A v, w \in Writers :
    v # w /\ step[v] \in Making /\ step[w] \in Making => req[v].id # req[w].id

(* A season of contract c was created at some time.                        *)
HadSeason(c) == \E s \in Seasons : seasons[s].presence # "NEVER" /\ seasons[s].contract = c

(* createSeason: its dates are in order, the contract is still writable,   *)
(* and it has seen every season but those patched since.                   *)
SeasonSeen(w) ==
  LET q == req[w] IN
  /\ step[w] \in {"check_overlap", "insert_season"} =>
       /\ contracts[q.contract] \in {"DRAFT", "ACTIVE"}
       /\ Ordered(q.span) /\ q.span.from # 0
  /\ step[w] = "insert_season" =>
       \A s \in SeasonsOf(q.contract) :
         seasons[s].moved \/ ~Overlaps(seasons[s].span, q.span)

ActivationSeen(w) ==
  step[w] = "update_contract" /\ req[w].want = "ACTIVE" => HadSeason(req[w].contract)

(* The old row a request has locked is still in force, and the version it  *)
(* computed is still the next one.                                         *)
RuleSeen(w) ==
  LET q == req[w] IN
  /\ step[w] \in {"lock_parent", "compute_version", "insert_policy"} /\ q.old # None =>
       policies[q.old].version # 0 /\ policies[q.old].by = None
                                   /\ policies[q.old].contract = q.contract
  /\ step[w] = "replace_restriction" =>
       restrictions[q.old].presence = "THERE" /\ restrictions[q.old].by = None
                                              /\ restrictions[q.old].contract = q.contract
  /\ step[w] = "insert_policy" =>
       /\ q.version \in Nat \ {0}
       /\ q.version - 1 \in Versions(q)
       /\ \A n \in Versions(q) : n < q.version

(* The rules of a contract are its own supplier's for its own hotel.       *)
RulesOwned ==
  /\ \A p \in Policies : policies[p].contract # None =>
       policies[p].owner = OwnerOf[policies[p].contract]
  /\ \A r \in Restrictions : restrictions[r].contract # None =>
       restrictions[r].owner = OwnerOf[restrictions[r].contract]

(* A rule is superseded by a rule that is there.                           *)
LinksHold ==
  /\ \A p \in Policies : policies[p].by # None => policies[policies[p].by].version # 0
  /\ \A r \in Restrictions : restrictions[r].by # None =>
       restrictions[restrictions[r].by].presence = "THERE"

RestrictionsThere ==
  \A r \in Restrictions : restrictions[r].presence = "THERE" \/ restrictions[r] = NoRestriction

Inductive ==
  /\ TypeOK /\ \A w \in Writers : Addressed(w)
  /\ LocksHeld
  /\ IdsApart
  /\ \A w \in Writers : Fresh(w) /\ SeasonSeen(w) /\ ActivationSeen(w) /\ RuleSeen(w)
  /\ RulesOwned /\ LinksHold
  /\ RestrictionsThere
  /\ LiveHadSeason
=============================================================================
