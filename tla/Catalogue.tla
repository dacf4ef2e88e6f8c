------------------------------ MODULE Catalogue ------------------------------
(***************************************************************************)
(* What is for sale: the tables a search reads, and every way one of them  *)
(* changes under it.  DirectContracts has the transactions of the contract *)
(* pages in full; here each is the row it commits.                         *)
(*                                                                         *)
(* A day is an integer, and hour h belongs to day h \div 24.               *)
(***************************************************************************)
EXTENDS Pricing, FiniteSetsExt

CONSTANTS
  Initial,     \* the rows there are at first, by table
  Drafts,      \* the rows there may be added, by table
  Searches,    \* the searches whose reading is followed
  MaxChanges,  \* bound: how often the tables change
  LastHour     \* bound: when the clock stops

VARIABLES
  db,       \* table -> its rows
  clock,    \* the hour
  changes,  \* how often a table has changed
  ever,     \* search -> the rows there have been since it began, by table
  always    \* search -> the rows there have been all along, by table

catalogueVars == <<db, clock, changes, ever, always>>

(* The tables, with the columns that are followed.                         *)
Columns ==
  [accounts |-> {"id", "tenant", "type", "status"},
   hotels |-> {"id", "supplier", "code"},
   mappings |-> {"supplierHotel", "hotel", "status"},
   contracts |-> {"id", "tenant", "supplier", "hotel", "status", "from", "to"},
   seasons |-> {"id", "contract", "from", "to"},
   bands |-> {"id", "contract", "min", "max"},
   rates |-> {"id", "contract", "season", "room", "plan", "amount", "currency", "base",
              "maxAdults", "maxChildren", "maxTotal"},
   supplements |-> {"id", "contract", "season", "room", "plan", "kind", "band", "slot", "amount"},
   meals |-> {"id", "contract", "season", "room", "plan", "meal", "kind", "band", "amount"},
   restrictions |-> {"id", "tenant", "supplier", "hotel", "contract", "season", "plan", "room",
                     "day", "kind", "param", "from", "to", "by"},
   policies |-> {"id", "tenant", "supplier", "hotel", "contract", "plan", "windows", "version",
                 "from", "to", "by"},
   rules |-> {"id", "tenant", "scope", "target", "percent", "priority", "status", "from", "to"},
   promotions |-> {"id", "tenant", "hotel", "tag", "type", "priority", "status", "from", "to"},
   snapshots |-> {"provider", "base", "quote", "rate", "at"}]

Tables == DOMAIN Columns

AccountStatuses == {"ACTIVE", "SUSPENDED", "CLOSED"}

MappingStatuses == {"PENDING", "CONFIRMED", "REJECTED", "SUPERSEDED"}
-----------------------------------------------------------------------------
(* The columns and checks of each table.                                   *)
AccountOk(r) == r.status \in AccountStatuses

(* hotel_supplier: one row for each code of a supplier.                    *)
HotelsOk(rows) == \A r, s \in rows :
  r # s => <<r.supplier, r.code>> # <<s.supplier, s.code>>

(* hotel_mapping: a supplier's hotel has at most one mapping in force.     *)
InForce(m) == m.status \notin {"REJECTED", "SUPERSEDED"}

MappingsOk(rows) ==
  /\ \A m \in rows : m.status \in MappingStatuses
  /\ \A m, n \in rows :
       m # n /\ InForce(m) /\ InForce(n) => m.supplierHotel # n.supplierHotel

Ordered(from, to) == from = None \/ to = None \/ from <= to

ContractOk(c) == c.status \in {"DRAFT", "ACTIVE", "INACTIVE"} /\ Ordered(c.from, c.to)

SeasonOk(s) == s.from \in Int /\ s.to \in Int /\ s.from <= s.to

BandOk(b) == 0 <= b.min /\ b.min <= b.max /\ b.max <= 17

HasSeason(tables, r) == \E s \in tables.seasons : s.id = r.season /\ s.contract = r.contract

HasBand(tables, r) == \E b \in tables.bands : b.id = r.band /\ b.contract = r.contract

(* A contract has one rate for a season, room, plan and occupancy.         *)
RateKey(r) ==
  <<r.contract, r.season, r.room, r.plan, r.base, r.maxAdults, r.maxChildren, r.maxTotal>>

RatesDistinct(rows) == \A r, s \in rows : r # s => RateKey(r) # RateKey(s)

RateOk(tables, r) == r.amount >= 0 /\ HasSeason(tables, r)

SupplementKey(s) == <<s.contract, s.season, s.room, s.plan, s.kind, s.band, s.slot>>

SupplementsDistinct(rows) == \A r, s \in rows : r # s => SupplementKey(r) # SupplementKey(s)

SupplementOk(tables, s) ==
  /\ s.kind \in {"EXTRA_ADULT", "EXTRA_CHILD"} /\ s.slot >= 1 /\ s.amount >= 0
  /\ HasSeason(tables, s) /\ (s.band = None \/ HasBand(tables, s))

MealOk(tables, m) ==
  /\ m.kind \in {"ADULT", "CHILD"} /\ m.amount >= 0
  /\ HasSeason(tables, m) /\ (m.band = None \/ HasBand(tables, m))

Kinds == {"STOP_SELL", "CTA", "CTD", "MIN_LOS", "MAX_LOS", "ADVANCE_PURCHASE_MIN",
          "ADVANCE_PURCHASE_MAX", "RELEASE_HOURS", "CUTOFF_HOURS"}

(* rate_auth_*_effective_chk.                                              *)
EffectiveOk(r) == r.to = None \/ r.from <= r.to

RestrictionOk(tables, r) ==
  r.kind \in Kinds /\ EffectiveOk(r) /\ (r.season = None \/ HasSeason(tables, r))

PolicyOk(p) == p.version \in Nat \ {0} /\ EffectiveOk(p)

(* Before or after the window, a rule does not count; an end is not in it. *)
WindowOk(r) ==
  {r.from, r.to} \subseteq Int \cup {None} /\ (r.from = None \/ r.to = None \/ r.from < r.to)

IdsDistinct(rows) == \A r, s \in rows : r # s => r.id # s.id

RuleOk(r) ==
  /\ r.id \in Int /\ r.priority \in Int /\ r.percent >= 0
  /\ r.scope \in {"ACCOUNT", "HOTEL", "CHANNEL"} /\ WindowOk(r)

PromotionOk(p) == p.tag \in {"PROMOTED", "FEATURED", "RECOMMENDED"} /\ WindowOk(p)

SnapshotOk(s) ==
  s.provider \in {"OXR", "ECB"} /\ s.rate \in Int /\ s.rate > 0 /\ s.at \in Int

TablesOk(tables) ==
  /\ DOMAIN tables = Tables
  /\ \A t \in Tables : \A r \in tables[t] : DOMAIN r = Columns[t]
  /\ HotelsOk(tables.hotels) /\ MappingsOk(tables.mappings)
  /\ RatesDistinct(tables.rates) /\ SupplementsDistinct(tables.supplements)
  /\ IdsDistinct(tables.seasons) /\ IdsDistinct(tables.rules) /\ IdsDistinct(tables.promotions)
  /\ \A r \in tables.accounts : AccountOk(r)
  /\ \A r \in tables.contracts : ContractOk(r)
  /\ \A r \in tables.seasons : SeasonOk(r)
  /\ \A r \in tables.bands : BandOk(r)
  /\ \A r \in tables.rates : RateOk(tables, r)
  /\ \A r \in tables.supplements : SupplementOk(tables, r)
  /\ \A r \in tables.meals : MealOk(tables, r)
  /\ \A r \in tables.restrictions : RestrictionOk(tables, r)
  /\ \A r \in tables.policies : PolicyOk(r)
  /\ \A r \in tables.rules : RuleOk(r)
  /\ \A r \in tables.promotions : PromotionOk(r)
  /\ \A r \in tables.snapshots : SnapshotOk(r)

(* The search may begin on any tables that could be; a draft is a row.     *)
ASSUME TablesAssumption ==
  /\ TablesOk(Initial)
  /\ \A t \in {"policies", "rules", "snapshots"} : IsFiniteSet(Initial[t])
  /\ DOMAIN Drafts =
       {"seasons", "bands", "rates", "supplements", "meals", "restrictions", "policies"}
  /\ \A t \in DOMAIN Drafts : \A d \in Drafts[t] : DOMAIN d = Columns[t]
-----------------------------------------------------------------------------
(* A table gets new rows and loses others in one commit.                   *)
Commit(table, gone, come) ==
  /\ db' = [db EXCEPT ![table] = (@ \ gone) \cup come]
  /\ ever' = [q \in Searches |-> [ever[q] EXCEPT ![table] = @ \cup come]]
  /\ always' = [q \in Searches |-> [always[q] EXCEPT ![table] = @ \ gone]]

Put(table, gone, come) ==
  /\ changes < MaxChanges
  /\ changes' = changes + 1
  /\ Commit(table, gone, come)
  /\ UNCHANGED clock

(* The drafts that may be inserted: an id is used once.                    *)
NewRows(table) == {new \in Drafts[table] : \A r \in db[table] : r.id # new.id}

(* An account is suspended.                                                *)
SuspendAccount == \E a \in db.accounts :
  a.status = "ACTIVE" /\ Put("accounts", {a}, {[a EXCEPT !.status = "SUSPENDED"]})

(* The mapping pipeline rejects a mapping, or confirms a pending one.      *)
ReviewMapping == \E m \in db.mappings, s \in {"REJECTED", "CONFIRMED"} :
  m.status = "PENDING" /\ Put("mappings", {m}, {[m EXCEPT !.status = s]})

(* A contract comes into force, if it has a season, or is taken back.      *)
PatchContract == \E c \in db.contracts, s \in {"ACTIVE", "INACTIVE"} :
  /\ c.status # s
  /\ s = "ACTIVE" => \E t \in db.seasons : t.contract = c.id
  /\ Put("contracts", {c}, {[c EXCEPT !.status = s]})

ParseSeason(s) == SeasonOk(s)

(* Under the lock of the contract's row.                                   *)
CreateSeason == \E s \in {x \in NewRows("seasons") : ParseSeason(x)} :
  /\ \A c \in db.contracts : c.id = s.contract => c.status # "INACTIVE"
  /\ \A t \in db.seasons : t.contract = s.contract => t.to < s.from \/ s.to < t.from
  /\ Put("seasons", {}, {s})

(* The other handlers read that the contract is there and not INACTIVE,    *)
(* and write later: the checks of the request, the foreign keys and the    *)
(* unique indexes are left to refuse them.  A season is moved without the  *)
(* lock, so that another may have come where it goes.                      *)
PatchSeason == \E s \in db.seasons, d \in Drafts.seasons :
  /\ <<s.from, s.to>> # <<d.from, d.to>> /\ ParseSeason(d)
  /\ Put("seasons", {s}, {[s EXCEPT !.from = d.from, !.to = d.to]})

Refers(rows, s) == \E r \in rows : r.season = s.id /\ r.contract = s.contract

DeleteSeason == \E s \in db.seasons :
  /\ \A rows \in {db.rates, db.supplements, db.meals, db.restrictions} : ~Refers(rows, s)
  /\ Put("seasons", {s}, {})

ParseBand(b) == b.min \in 0..17 /\ b.max \in 0..17 /\ b.min <= b.max

CreateChildAgeBand == \E b \in NewRows("bands") : ParseBand(b) /\ Put("bands", {}, {b})

PatchChildAgeBand == \E b \in db.bands, d \in Drafts.bands :
  LET new == [b EXCEPT !.min = d.min, !.max = d.max] IN
  new # b /\ BandOk(new) /\ Put("bands", {b}, {new})

DeleteChildAgeBand == \E b \in db.bands :
  /\ \A r \in db.supplements \cup db.meals : r.band = b.id => r.contract # b.contract
  /\ Put("bands", {b}, {})

ParseRate(r) == r.amount >= 0

CreateBaseRate == \E r \in NewRows("rates") :
  /\ ParseRate(r) /\ RateOk(db, r) /\ RatesDistinct(db.rates \cup {r})
  /\ Put("rates", {}, {r})

PatchBaseRate == \E r \in db.rates, a \in {d.amount : d \in Drafts.rates} :
  r.amount # a /\ a >= 0 /\ Put("rates", {r}, {[r EXCEPT !.amount = a]})

DeleteBaseRate == \E r \in db.rates : Put("rates", {r}, {})

(* A supplement for a child names its band, one for an adult names none.   *)
ParseSupplement(s) == /\ s.kind \in {"EXTRA_ADULT", "EXTRA_CHILD"} /\ s.slot >= 1 /\ s.amount >= 0
                      /\ (s.kind = "EXTRA_CHILD") = (s.band # None)

CreateSupplement ==
  \E s \in {x \in NewRows("supplements") : ParseSupplement(x) /\ SupplementOk(db, x)} :
  /\ SupplementsDistinct(db.supplements \cup {s})
  /\ Put("supplements", {}, {s})

PatchSupplement == \E s \in db.supplements, a \in {d.amount : d \in Drafts.supplements} :
  s.amount # a /\ a >= 0 /\ Put("supplements", {s}, {[s EXCEPT !.amount = a]})

DeleteSupplement == \E s \in db.supplements : Put("supplements", {s}, {})

(* No search reads meal supplements yet.                                   *)
ParseMeal(m) == /\ m.kind \in {"ADULT", "CHILD"} /\ m.amount >= 0
                /\ (m.kind = "CHILD") = (m.band # None)

CreateMeal == \E m \in {x \in NewRows("meals") : ParseMeal(x) /\ MealOk(db, x)} :
  Put("meals", {}, {m})

PatchMeal == \E m \in db.meals, a \in {d.amount : d \in Drafts.meals} :
  m.amount # a /\ a >= 0 /\ Put("meals", {m}, {[m EXCEPT !.amount = a]})

DeleteMeal == \E m \in db.meals : Put("meals", {m}, {})

(* The one parameter of a kind, 0 where params must be empty.              *)
ValidateRestrictionParams(r) ==
  /\ r.kind \in {"STOP_SELL", "CTA", "CTD"} => r.param = 0
  /\ r.kind \in {"MIN_LOS", "MAX_LOS"} => r.param >= 1
  /\ r.param >= 0

(* A restriction of a contract is of its supplier and hotel, and of no     *)
(* kind that a channel manager would push.                                 *)
OfItsContract(r) == r.contract # None =>
  \E c \in db.contracts : <<c.id, c.supplier, c.hotel>> = <<r.contract, r.supplier, r.hotel>>

RestrictionAllowed(r) ==
  /\ ValidateRestrictionParams(r) /\ RestrictionOk(db, r) /\ OfItsContract(r)
  /\ r.contract # None => r.kind \notin {"RELEASE_HOURS", "CUTOFF_HOURS"}

CreateRestriction == \E r \in {x \in NewRows("restrictions") : RestrictionAllowed(x)} :
  Put("restrictions", {}, {r})

(* The new row and the mark on the old one commit together.                *)
SupersedeRestriction ==
  \E old \in db.restrictions, new \in {x \in NewRows("restrictions") : RestrictionAllowed(x)} :
  /\ old.by = None /\ new.contract = old.contract
  /\ Put("restrictions", {old}, {[old EXCEPT !.by = new.id], new})

(* The windows are checked one by one: neither their order nor gaps or     *)
(* overlaps between them are.                                              *)
ValidateCancellationWindows(windows) ==
  /\ windows # <<>>
  /\ \A w \in Range(windows) : /\ w.until >= 0 /\ (w.since = None \/ w.since >= w.until)
                              /\ (w.fee = None \/ w.fee >= 0)

PolicyAllowed(p) ==
  ValidateCancellationWindows(p.windows) /\ EffectiveOk(p) /\ OfItsContract(p)

(* MAX(policy_version) + 1 over the rows of the new row's scope.           *)
Numbered(new) ==
  LET Scope(p) == <<p.tenant, p.supplier, p.hotel, p.plan, p.contract>>
      versions == {p.version : p \in {q \in db.policies : Scope(q) = Scope(new)}} IN
  [new EXCEPT !.version = Max(versions \cup {0}) + 1]

CreatePolicy == \E new \in {x \in NewRows("policies") : PolicyAllowed(x)} :
  Put("policies", {}, {Numbered(new)})

(* The new row is of the old one's contract; its plan may differ.          *)
SupersedePolicy ==
  \E old \in db.policies, new \in {x \in NewRows("policies") : PolicyAllowed(x)} :
  /\ old.by = None /\ new.contract = old.contract
  /\ Put("policies", {old}, {[old EXCEPT !.by = new.id], Numbered(new)})

Tick ==
  /\ clock < LastHour
  /\ clock' = clock + 1
  /\ UNCHANGED <<db, changes, ever, always>>

(* The search starts to watch the tables.                                  *)
Watch(q) ==
  /\ ever' = [ever EXCEPT ![q] = db]
  /\ always' = [always EXCEPT ![q] = db]
  /\ UNCHANGED <<db, clock, changes>>

CatalogueInit ==
  /\ db = Initial
  /\ clock = 0
  /\ changes = 0
  /\ ever = [q \in Searches |-> Initial]
  /\ always = [q \in Searches |-> Initial]

EditTables ==
  \/ SuspendAccount \/ ReviewMapping
  \/ PatchContract \/ CreateSeason \/ PatchSeason \/ DeleteSeason
  \/ CreateChildAgeBand \/ PatchChildAgeBand \/ DeleteChildAgeBand
  \/ CreateBaseRate \/ PatchBaseRate \/ DeleteBaseRate
  \/ CreateSupplement \/ PatchSupplement \/ DeleteSupplement
  \/ CreateMeal \/ PatchMeal \/ DeleteMeal
  \/ CreateRestriction \/ SupersedeRestriction \/ CreatePolicy \/ SupersedePolicy

(* Whatever handlers do side by side, the rows stay what their columns and *)
(* checks say, every row of a contract has its season and its band, and    *)
(* none that a unique index forbids is there twice; meal supplements have  *)
(* no such index.                                                          *)
CatalogueOk == TablesOk(db)

MealKey(m) == <<m.contract, m.season, m.room, m.plan, m.meal, m.kind, m.band>>

(* A meal is supplemented once for the same occupants of the same rooms:   *)
(* "Uniqueness across nullable FK combinations is enforced at the          *)
(* application service layer, not in the DB" says the migration that       *)
(* creates rate_auth_meal_supplement.                                      *)
MealsOnce == \A m, n \in db.meals : m # n => MealKey(m) # MealKey(n)
=============================================================================
