--------------------------- MODULE DirectContracts ---------------------------
(***************************************************************************)
(* The direct-contracts service: every admin request of ContractStore,     *)
(* ContractChildren and AuthoredRules, interleaved statement by statement. *)
(***************************************************************************)
EXTENDS ContractChildren, AuthoredRules

ContractRequests(w) ==
  \/ \E c \in Contracts : \/ CreateContract(w, c)
                          \/ StartSoftDeleteContract(w, c)
  \/ \E c \in Contracts, want \in {"ACTIVE", "INACTIVE"} : StartPatchContract(w, c, want)
  \/ CountSeasons(w)
  \/ UpdateContract(w)
  \/ Abandon(w)

SeasonRequests(w) ==
  \/ \E c \in Contracts, s \in Seasons : \/ StartDeleteSeason(w, c, s)
                                         \/ \E d \in Span : \/ LockForSeason(w, c, s, d)
                                                            \/ StartPatchSeason(w, c, s, d)
  \/ CheckOverlap(w)
  \/ InsertSeason(w)
  \/ FindSeason(w)
  \/ AssertNoOverlap(w)
  \/ UpdateSeason(w)
  \/ DeleteSeason(w)

RateRequests(w) ==
  \/ \E c \in Contracts, b \in Bands : StartBand(w, c, b) \/ StartDeleteBand(w, c, b)
  \/ \E c \in Contracts, r \in Rates : StartDeleteRate(w, c, r)
  \/ \E c \in Contracts, r \in Rates, s \in Seasons, b \in Bands \cup {None} :
       StartRate(w, c, r, s, b)
  \/ InsertBand(w)
  \/ DeleteBand(w)
  \/ InsertRate(w)
  \/ DeleteRate(w)

PolicyRequests(w) ==
  \/ \E c \in Contracts \cup {None}, o \in Owners, plan \in Plans \cup {None}, p \in Policies :
       \/ StartPolicy(w, c, o, plan, p)
       \/ \E old \in Policies : StartSupersedePolicy(w, c, o, plan, old, p)
  \/ LockOldPolicy(w)
  \/ LockParent(w)
  \/ ComputeVersion(w)
  \/ InsertPolicy(w)

RestrictionRequests(w) ==
  \/ \E c \in Contracts \cup {None}, o \in Owners, s \in Seasons \cup {None},
        r \in Restrictions :
       \/ StartRestriction(w, c, o, s, r)
       \/ \E old \in Restrictions : StartSupersedeRestriction(w, c, o, s, old, r)
  \/ InsertRestriction(w)
  \/ LockOldRestriction(w)
  \/ ReplaceRestriction(w)

Next == \E w \in Writers : \/ ContractRequests(w)
                           \/ SeasonRequests(w)
                           \/ RateRequests(w)
                           \/ PolicyRequests(w)
                           \/ RestrictionRequests(w)

Spec == Init /\ [][Next]_vars
-----------------------------------------------------------------------------
(* Two seasons of a contract share a day only if patchSeason moved one of  *)
(* them: however createSeason requests interleave with each other and with *)
(* patches, none of them creates an overlap.                               *)
CreatedApart ==
  \A c \in Contracts : \A s, t \in SeasonsOf(c) :
    s # t /\ Overlaps(seasons[s].span, seasons[t].span) => seasons[s].moved \/ seasons[t].moved

(* A season never ends before it begins, although two patches that each    *)
(* move one end are checked against the row as it was.                     *)
SeasonsInOrder ==
  \A s \in Seasons : seasons[s].presence = "THERE" =>
    0 < seasons[s].span.from /\ Ordered(seasons[s].span)

(* The lock of createSeason also keeps the contract's status: no season is *)
(* added to a contract that has become INACTIVE since it was read.         *)
NoSeasonAddedLate ==
  [][\A s \in Seasons :
       seasons[s] = NoSeason /\ seasons'[s] # NoSeason
         => contracts[seasons'[s].contract] \in {"DRAFT", "ACTIVE"}]_vars

(* A contract only ever went live after a season of it was defined; this   *)
(* survives the deletion of that season and a revival from INACTIVE.       *)
LiveHadSeason ==
  \A c \in Contracts : contracts[c] = "ACTIVE" =>
    \E s \in Seasons : seasons[s].presence # "NEVER" /\ seasons[s].contract = c

(* Whatever is priced or restricted by season is so in a season of its own *)
(* contract that is still there, and a supplement's age band is too:       *)
(* deletes race with the inserts that have already read the contract.      *)
NothingDangles ==
  /\ \A r \in Rates : rates[r].presence = "THERE" =>
       /\ rates[r].season \in SeasonsOf(rates[r].contract)
       /\ rates[r].band \in BandsOf(rates[r].contract) \cup {None}
  /\ \A r \in Restrictions : restrictions[r].season # None =>
       restrictions[r].season \in SeasonsOf(restrictions[r].contract)
-----------------------------------------------------------------------------
(* In each scope the policies are numbered 1, 2, 3, ... with no number     *)
(* given twice, so the highest version is one policy.                      *)
VersionsRunOn ==
  \A p \in Policies : policies[p].version # 0 =>
    LET mates == Scope(policies[p]) IN
    /\ \A q \in mates : q # p => policies[q].version # policies[p].version
    /\ \A n \in 1..policies[p].version : \E q \in mates : policies[q].version = n

(* A row is superseded once, by a row of the same contract that is         *)
(* inserted with the link; neither link nor version changes afterwards.    *)
SupersededOnce ==
  [][/\ \A p \in Policies : policies[p].version # 0 /\ policies'[p] # policies[p] =>
          LET q == policies'[p].by IN
          /\ policies[p].by = None /\ policies[q] = NoPolicy
          /\ policies'[p] = [policies[p] EXCEPT !.by = q]
          /\ policies'[q].contract = policies[p].contract
     /\ \A r \in Restrictions :
          restrictions[r].presence = "THERE" /\ restrictions'[r] # restrictions[r] =>
            LET q == restrictions'[r].by IN
            /\ restrictions[r].by = None /\ restrictions[q] = NoRestriction
            /\ restrictions'[r] = [restrictions[r] EXCEPT !.by = q]
            /\ restrictions'[q].contract = restrictions[r].contract]_vars

(* Where a contract, or a supplier for a hotel by default, has had a       *)
(* policy or a restriction, one is in force: superseding takes the last    *)
(* one away only when the new row names another supplier or hotel, which   *)
(* it can for a default and never for a contract.                          *)
ChainsEndInForce ==
  /\ \A p \in Policies : policies[p].version # 0 =>
       \E q \in Policies :
         /\ policies[q].version # 0
         /\ policies[q].contract = policies[p].contract /\ policies[q].owner = policies[p].owner
         /\ \/ policies[q].by = None
            \/ policies[q].contract = None /\ policies[policies[q].by].owner # policies[q].owner
  /\ \A r \in Restrictions : restrictions[r].presence = "THERE" =>
       \E q \in Restrictions :
         /\ restrictions[q].presence = "THERE"
         /\ restrictions[q].contract = restrictions[r].contract
         /\ restrictions[q].owner = restrictions[r].owner
         /\ \/ restrictions[q].by = None
            \/ /\ restrictions[q].contract = None
               /\ restrictions[restrictions[q].by].owner # restrictions[q].owner

(* The rows request w is about to lock, or whose locks its next statement  *)
(* waits for.                                                              *)
Wants(w) ==
  CASE step[w] \in {"lock_old_policy", "lock_old_restriction"} -> {req[w].old}
    [] step[w] = "lock_parent" -> {Parent(req[w])}
    [] step[w] \in {"insert_policy", "insert_restriction", "replace_restriction"} ->
         {Parent(req[w]), SupplierOf(req[w])}
    [] step[w] \in {"update_contract", "insert_band", "insert_rate"} -> {req[w].contract}
    [] OTHER -> {}

Rank(x) == IF x \in Policies \cup Restrictions THEN 1 ELSE IF x \in Contracts THEN 2 ELSE 3

(* Rule rows, then a contract, then the supplier: a request only waits for *)
(* a row that ranks above all it holds, so no two of them can wait for     *)
(* each other.                                                             *)
LockOrder ==
  \A w \in Writers : \A x \in Wants(w), y \in Lockable :
    lock[y] = w /\ lock[x] # w => Rank(y) < Rank(x)

(* Row locks are only held by a transaction under way.                     *)
NoLockLeft == \A x \in Lockable : lock[x] # None => step[lock[x]] # "idle"
=============================================================================
