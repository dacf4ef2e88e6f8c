---------------------------- MODULE ContractStore ----------------------------
(***************************************************************************)
(* The rate_auth_* tables behind /internal/admin/direct-contracts, the row *)
(* locks its transactions hold, and the writes to the contract row itself. *)
(*                                                                         *)
(* Postgres runs all of it at READ COMMITTED, and most handlers run no     *)
(* transaction: each statement commits alone and sees whatever the others  *)
(* committed before it.  SELECT ... FOR UPDATE holds its row until the     *)
(* transaction ends; an UPDATE of that row, or an INSERT whose foreign key *)
(* points at it, waits.  What a transaction inserts is not seen before its *)
(* COMMIT, so its last writes are one step with it.                        *)
(*                                                                         *)
(* One tenant and its DIRECT suppliers are modelled.  Columns nothing      *)
(* decides on (names, amounts, codes, params) are left out, and so are the *)
(* writes that change only them and the admin_audit_log INSERT that        *)
(* follows each write: no handler reads either back.                       *)
(***************************************************************************)
EXTENDS Naturals

CONSTANTS
  Contracts, Seasons, Bands, Rates, Policies, Restrictions,  \* ids (ULIDs)
  Plans,      \* rate plans a policy may be limited to
  Suppliers,  \* rows of supply_supplier
  Hotels,     \* canonical hotels
  OwnerOf,    \* the supplier and the hotel of a contract: no patch changes them
  LastDay,    \* the calendar is 1..LastDay
  Writers,    \* admin requests that can run at the same time
  None

ASSUME DaysAssumption == LastDay \in Nat

ASSUME NoneAssumption ==
  None \notin UNION {Contracts, Seasons, Bands, Rates, Policies, Restrictions, Plans,
                     Suppliers, Hotels, Writers}

(* Whose a policy or a restriction is: supplier_id, canonical_hotel_id.    *)
Owners == Suppliers \X Hotels

ASSUME OwnersAssumption == OwnerOf \in [Contracts -> Owners]

(* Ids are ULIDs: those of different tables are different.                 *)
ASSUME IdsAssumption ==
  /\ Suppliers \cap UNION {Contracts, Policies, Restrictions} = {}
  /\ Contracts \cap (Policies \cup Restrictions) = {}
  /\ Policies \cap Restrictions = {}

(* A row that was never inserted, is there, or was deleted.                *)
Presence == {"NEVER", "THERE", "DELETED"}

Statuses == {"ABSENT", "DRAFT", "ACTIVE", "INACTIVE"}

(* Both days are inside; 0 stands for "not given" in a patch.              *)
Span == [from : 0..LastDay, to : 0..LastDay]

NoSpan == [from |-> 0, to |-> 0]

(* moved: a patchSeason has given it dates.                                *)
SeasonRow == [presence : Presence, contract : Contracts \cup {None}, span : Span,
              moved : BOOLEAN]

NoSeason == [presence |-> "NEVER", contract |-> None, span |-> NoSpan, moved |-> FALSE]

BandRow == [presence : Presence, contract : Contracts \cup {None}]

NoBand == [presence |-> "NEVER", contract |-> None]

(* A base rate (no band), an occupancy or a meal supplement.               *)
RateRow == [presence : Presence, contract : Contracts \cup {None},
            season : Seasons \cup {None}, band : Bands \cup {None}]

NoRate == [presence |-> "NEVER", contract |-> None, season |-> None, band |-> None]

(* version 0: no such row.  contract None: a supplier default.             *)
PolicyRow == [contract : Contracts \cup {None}, owner : Owners \cup {None},
              plan : Plans \cup {None}, version : Nat, by : Policies \cup {None}]

NoPolicy == [contract |-> None, owner |-> None, plan |-> None, version |-> 0, by |-> None]

RestrictionRow == [presence : Presence, contract : Contracts \cup {None},
                   owner : Owners \cup {None}, season : Seasons \cup {None},
                   by : Restrictions \cup {None}]

NoRestriction == [presence |-> "NEVER", contract |-> None, owner |-> None, season |-> None,
                  by |-> None]

Lockable == Contracts \cup Policies \cup Restrictions \cup Suppliers

ContractSteps == {"count_seasons", "update_contract"}

ChildSteps == {"check_overlap", "insert_season", "find_season", "assert_no_overlap",
               "update_season", "delete_season", "insert_band", "delete_band",
               "insert_rate", "delete_rate"}

RuleSteps == {"lock_old_policy", "lock_parent", "compute_version", "insert_policy",
              "insert_restriction", "lock_old_restriction", "replace_restriction"}

Steps == {"idle"} \cup ContractSteps \cup ChildSteps \cup RuleSteps

(* The ids a request can name a row by.                                    *)
Ids == UNION {Seasons, Bands, Rates, Policies, Restrictions, {None}}

(* What a handler holds in its local variables between two awaits.         *)
Request == [contract : Contracts \cup {None},
            owner : Owners \cup {None},
            id : Ids,
            want : Statuses,
            patch : Span,
            span : Span,
            season : Seasons \cup {None},
            band : Bands \cup {None},
            plan : Plans \cup {None},
            old : Policies \cup Restrictions \cup {None},
            version : Nat]

NoRequest == [contract |-> None, owner |-> None, id |-> None, want |-> "ABSENT", patch |-> NoSpan,
              span |-> NoSpan, season |-> None, band |-> None, plan |-> None,
              old |-> None, version |-> 0]
-----------------------------------------------------------------------------
VARIABLES
  contracts,     \* rate_auth_contract.status
  seasons,       \* rate_auth_season
  bands,         \* rate_auth_child_age_band
  rates,         \* rate_auth_base_rate and the two supplement tables
  policies,      \* rate_auth_cancellation_policy
  restrictions,  \* rate_auth_restriction
  lock,          \* who holds a row FOR UPDATE
  step,          \* where each request is
  req            \* its local variables

tables == <<contracts, seasons, bands, rates, policies, restrictions>>

vars == <<contracts, seasons, bands, rates, policies, restrictions, lock, step, req>>

TypeOK ==
  /\ contracts \in [Contracts -> Statuses]
  /\ seasons \in [Seasons -> SeasonRow]
  /\ bands \in [Bands -> BandRow]
  /\ rates \in [Rates -> RateRow]
  /\ policies \in [Policies -> PolicyRow]
  /\ restrictions \in [Restrictions -> RestrictionRow]
  /\ lock \in [Lockable -> Writers \cup {None}]
  /\ step \in [Writers -> Steps]
  /\ req \in [Writers -> Request]

Init ==
  /\ contracts = [c \in Contracts |-> "ABSENT"]
  /\ seasons = [s \in Seasons |-> NoSeason]
  /\ bands = [b \in Bands |-> NoBand]
  /\ rates = [r \in Rates |-> NoRate]
  /\ policies = [p \in Policies |-> NoPolicy]
  /\ restrictions = [r \in Restrictions |-> NoRestriction]
  /\ lock = [x \in Lockable |-> None]
  /\ step = [w \in Writers |-> "idle"]
  /\ req = [w \in Writers |-> NoRequest]
-----------------------------------------------------------------------------
(* requireDateOrder, where both ends are there.                            *)
Ordered(d) == d.from <= d.to

Overlaps(d, e) == d.from <= e.to /\ d.to >= e.from

(* The seasons of contract c that are there.                               *)
SeasonsOf(c) == {s \in Seasons : seasons[s].presence = "THERE" /\ seasons[s].contract = c}

(* contractRepo.findById found the row, and its status is not INACTIVE.    *)
Exists(c) == contracts[c] # "ABSENT"

Writable(c) == contracts[c] \notin {"ABSENT", "INACTIVE"}

(* No other transaction holds row x FOR UPDATE.                            *)
Free(x, w) == lock[x] \in {None, w}

(* Ids are drawn from newUlid: no other request holds this one.            *)
Unused(x) == \A v \in Writers : req[v].id # x

(* An idle request is let through by its first reads, to step s.           *)
Begin(w, s, r) ==
  /\ step[w] = "idle"
  /\ step' = [step EXCEPT ![w] = s]
  /\ req' = [req EXCEPT ![w] = r]
  /\ UNCHANGED <<tables, lock>>

(* A statement that only reads lets the request through to step s.         *)
Proceed(w, s, r) ==
  /\ step' = [step EXCEPT ![w] = s]
  /\ req' = [req EXCEPT ![w] = r]
  /\ UNCHANGED tables

(* The request ends; a transaction's locks are released.                   *)
Finish(w) ==
  /\ step' = [step EXCEPT ![w] = "idle"]
  /\ req' = [req EXCEPT ![w] = NoRequest]
  /\ lock' = [x \in Lockable |-> IF lock[x] = w THEN None ELSE lock[x]]

(* A guard refuses the request, a statement fails, or the process dies:    *)
(* whatever the request had not committed is rolled back.                  *)
Abandon(w) ==
  /\ step[w] # "idle"
  /\ Finish(w)
  /\ UNCHANGED tables
-----------------------------------------------------------------------------
CreateContract(w, c) ==
  /\ step[w] = "idle"
  /\ contracts[c] = "ABSENT"
  /\ lock[OwnerOf[c][1]] = None
  /\ contracts' = [contracts EXCEPT ![c] = "DRAFT"]
  /\ UNCHANGED <<seasons, bands, rates, policies, restrictions, lock, step, req>>

(* patchContract with a status reads the row.  Only an activation counts   *)
(* the seasons.                                                            *)
StartPatchContract(w, c, want) ==
  /\ Writable(c)
  /\ Begin(w, IF want = "ACTIVE" /\ contracts[c] # "ACTIVE" THEN "count_seasons"
                                                          ELSE "update_contract",
           [NoRequest EXCEPT !.contract = c, !.want = want])

(* Mutant of CountSeasons: the gate counts the seasons and does not look.  *)
CountNoSeasons(w) ==
  /\ step[w] = "count_seasons"
  /\ Proceed(w, "update_contract", req[w])
  /\ UNCHANGED lock

CountSeasons(w) ==
  /\ step[w] = "count_seasons"
  /\ SeasonsOf(req[w].contract) # {}
  /\ Proceed(w, "update_contract", req[w])
  /\ UNCHANGED lock

(* softDeleteContract writes with the same statement as patchContract.     *)
StartSoftDeleteContract(w, c) ==
  /\ Writable(c)
  /\ Begin(w, "update_contract", [NoRequest EXCEPT !.contract = c, !.want = "INACTIVE"])

(* Mutant of UpdateContract: it does not wait for the row lock.            *)
UpdateContractUnlocked(w) ==
  LET c == req[w].contract IN
  /\ step[w] = "update_contract"
  /\ contracts' = [contracts EXCEPT ![c] = req[w].want]
  /\ Finish(w)
  /\ UNCHANGED <<seasons, bands, rates, policies, restrictions>>

(* The UPDATE is on the id alone: the status may have changed since it was *)
(* read.                                                                   *)
UpdateContract(w) ==
  LET c == req[w].contract IN
  /\ step[w] = "update_contract"
  /\ Free(c, w)
  /\ contracts' = [contracts EXCEPT ![c] = req[w].want]
  /\ Finish(w)
  /\ UNCHANGED <<seasons, bands, rates, policies, restrictions>>
=============================================================================
