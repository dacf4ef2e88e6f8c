------------------------------- MODULE Search -------------------------------
(***************************************************************************)
(* POST /search: who may search, the availability of each hotel, then what *)
(* the tables say of it, read by statements of their own, outside any      *)
(* transaction, while everything they read may change; and the answer      *)
(* computed from what was read.                                            *)
(*                                                                         *)
(* A request is [actor, body, hotels, from, to, adults, children, ages,    *)
(* display]: who asks, the tenant and account the body names, the hotel    *)
(* codes, the nights from .. to - 1, how many children there are and the   *)
(* ages of all or none of them, and the currency prices are shown in.      *)
(***************************************************************************)
EXTENDS FxRates, Sourcing, SequencesExt

CONSTANT Requests  \* the searches there may be

ASSUME RequestsAssumption == \A req \in Requests : req.from \in Int /\ req.to \in Int

VARIABLES
  search,        \* where each search is, and what it has read
  applications   \* fx_application

searchVars == <<search, applications>>

(* What is read together is read by concurrent statements.                 *)
Stages == <<{"account"}, {"hotels"}, {"codes", "canonical"}, {"contracts"}, {"mappings"},
            {"rules", "promotions"}, {"contracts2"}, {"seasons", "bands", "mappings2"},
            {"rates", "supplements", "restrictions", "policies"}, {"oxr", "ecb"}, {"record"}>>

Queries == UNION Range(Stages)

Reads == Queries \ {"hotels", "record"}

NoAnswer == [outcome |-> "NONE", results |-> {}, applications |-> {}]

NoSearch == [stage |-> 0, req |-> None, now |-> 0, left |-> <<>>, rates |-> {}, todo |-> {},
             got |-> [r \in Reads |-> {}], answer |-> NoAnswer]

Ctx(s) == [tenant |-> s.req.actor.tenant, account |-> s.req.actor.account,
           type |-> (CHOOSE a \in s.got.account : TRUE).type]

Canonicals(s) == {l.hotel : l \in s.got.canonical}
-----------------------------------------------------------------------------
(* The SQL: the rows a statement returns now.                              *)
ResolveActive(s) == {a \in db.accounts : a.id = s.req.actor.account /\ a.status = "ACTIVE"}

ResolveCodes(s) ==
  {h \in db.hotels : h.supplier = Hotelbeds /\ h.code \in {r.hotel : r \in s.rates}}

ResolveCanonical(s) ==
  {[code |-> pair[1].code, hotel |-> pair[2].hotel] :
     pair \in {p \in db.hotels \X db.mappings :
                 /\ p[1].supplier = Hotelbeds /\ p[1].code \in Range(s.req.hotels)
                 /\ p[2].supplierHotel = p[1].id /\ InForce(p[2])}}

FindActiveContracts(s) ==
  {c \in db.contracts : /\ c.tenant = s.req.actor.tenant /\ c.hotel \in Canonicals(s)
                        /\ c.status = "ACTIVE"
                        /\ c.from = None \/ c.from <= s.req.from
                        /\ c.to = None \/ c.to >= s.req.to}

FindMappings(contracts, s) ==
  {[supplier |-> pair[1].supplier, hotel |-> pair[2].hotel, id |-> pair[1].id,
    code |-> pair[1].code] :
     pair \in {p \in db.hotels \X db.mappings :
                 /\ p[1].supplier \in {c.supplier : c \in contracts}
                 /\ p[2].hotel \in Canonicals(s)
                 /\ p[2].supplierHotel = p[1].id /\ InForce(p[2])}}

(* The hotels HOTEL rules and promotions are looked up for.                *)
RuleHotels(s) == {h.id : h \in s.got.codes} \cup {m.id : m \in s.got.mappings}

InWindow(r) == (r.from = None \/ r.from <= clock) /\ (r.to = None \/ r.to > clock)

FindRules(s) ==
  {r \in db.rules : /\ r.tenant = s.req.actor.tenant /\ r.status = "ACTIVE" /\ InWindow(r)
                    /\ \/ r.scope = "ACCOUNT" /\ r.target = Ctx(s).account
                       \/ r.scope = "HOTEL" /\ r.target \in RuleHotels(s)
                       \/ r.scope = "CHANNEL" /\ r.target = Ctx(s).type}

KindRank == [PROMOTED |-> 0, FEATURED |-> 1, RECOMMENDED |-> 2]

(* DISTINCT ON (supplier_hotel_id): the first in the ORDER BY.             *)
PromotionBefore(p, q) ==
  \/ p.priority > q.priority
  \/ p.priority = q.priority /\ p.type # None /\ q.type = None
  \/ /\ p.priority = q.priority /\ (p.type = None) = (q.type = None)
     /\ KindRank[p.tag] < KindRank[q.tag]

FindPromotions(s) ==
  LET found == {p \in db.promotions :
                  /\ p.tenant = s.req.actor.tenant /\ p.status = "ACTIVE" /\ InWindow(p)
                  /\ p.hotel \in RuleHotels(s) /\ p.type \in {None, Ctx(s).type}} IN
  {p \in found : \A r \in found : r.hotel = p.hotel => ~PromotionBefore(r, p)}

OverlappingSeasons(s) ==
  {t \in db.seasons : /\ t.contract \in {c.id : c \in s.got.contracts2}
                      /\ t.from <= s.req.to /\ t.to >= s.req.from}

(* Mutant of Covering: the day of departure has to be in the season too.   *)
CoveringDeparture(s) == {t \in s.got.seasons : t.from <= s.req.from /\ t.to >= s.req.to}

(* A season has to cover the whole stay, of a night at least.              *)
CoversStay(t, s) ==
  s.req.from < s.req.to /\ t.from <= s.req.from /\ t.to >= s.req.to - 1

(* One season for each contract: of two that cover the stay, the one the   *)
(* unordered rows happen to end with.                                      *)
Covering(s) == {t \in s.got.seasons :
  /\ CoversStay(t, s)
  /\ t = CHOOSE u \in s.got.seasons : u.contract = t.contract /\ CoversStay(u, s)}

Usable(s) == {c \in s.got.contracts2 : \E t \in Covering(s) : t.contract = c.id}

OfUsable(rows, s) ==
  {r \in rows : /\ r.contract \in {c.id : c \in Usable(s)}
                /\ r.season \in {t.id : t \in Covering(s)}}

FindBaseRates(s) == OfUsable(db.rates, s)

FindOccupancySupplements(s) == OfUsable(db.supplements, s)

FindChildAgeBands(s) == {b \in db.bands : b.contract \in {c.id : c \in s.got.contracts2}}

(* The rules of the contracts found and the suppliers' defaults, for any   *)
(* of the hotels searched.                                                 *)
AuthoredScope(r, s) ==
  /\ r.tenant = s.req.actor.tenant /\ r.hotel \in Canonicals(s)
  /\ r.supplier \in {c.supplier : c \in Usable(s)}
  /\ r.contract \in {None} \cup {c.id : c \in Usable(s)}
  /\ r.by = None /\ Effective(r, s.now)

FindActiveRestrictions(s) ==
  {r \in db.restrictions : AuthoredScope(r, s) /\ r.day \in s.req.from..s.req.to}

FindActivePolicies(s) == {p \in db.policies : AuthoredScope(p, s)}

FindFreshSnapshots(p, s) ==
  {r \in db.snapshots : r.provider = p /\ r.at >= s.now - Ttl[p]}

Result(query, s) ==
  CASE query = "account" -> ResolveActive(s)
    [] query = "codes" -> ResolveCodes(s)
    [] query = "canonical" -> ResolveCanonical(s)
    [] query \in {"contracts", "contracts2"} -> FindActiveContracts(s)
    [] query = "mappings" -> FindMappings(s.got.contracts, s)
    [] query = "mappings2" -> FindMappings(s.got.contracts2, s)
    [] query = "rules" -> FindRules(s)
    [] query = "promotions" -> FindPromotions(s)
    [] query = "seasons" -> OverlappingSeasons(s)
    [] query = "bands" -> FindChildAgeBands(s)
    [] query = "rates" -> FindBaseRates(s)
    [] query = "supplements" -> FindOccupancySupplements(s)
    [] query = "restrictions" -> FindActiveRestrictions(s)
    [] query = "policies" -> FindActivePolicies(s)
    [] query = "oxr" -> FindFreshSnapshots("OXR", s)
    [] query = "ecb" -> FindFreshSnapshots("ECB", s)
-----------------------------------------------------------------------------
(* The answer.  A hotel without a row or a mapping has no id to be priced  *)
(* by, and a mapping that is missing leaves the canonical id as the code.  *)
PriceSourced(s, rate) ==
  LET ids == {h.id : h \in {x \in s.got.codes : x.code = rate.hotel}}
      id == IF ids = {} THEN None ELSE CHOOSE i \in ids : TRUE IN
  [kind |-> "sourced", key |-> rate.key, supplier |-> Hotelbeds, code |-> rate.hotel,
   hotelRow |-> id, room |-> rate.room, plan |-> rate.plan, policy |-> None,
   bookable |-> AssertRateBookable(rate.provenance), display |-> {},
   quote |-> EvaluateSourcedOffer(ToMinorUnits(rate.net, rate.currency), rate.currency, id,
                                  s.got.rules, Ctx(s))]

FitsCapacity(rate, adults, children) ==
  adults <= rate.maxAdults /\ children <= rate.maxChildren /\ adults + children <= rate.maxTotal

(* The cheapest slots first; as many as there are adults over the base.    *)
ExtraAdults(rows, extra) ==
  {r \in rows : r.kind = "EXTRA_ADULT" /\ Cardinality({t \in rows :
     t.kind = "EXTRA_ADULT" /\ t.slot < r.slot}) < extra}

(* The band an age falls in; a child outside every band costs nothing.     *)
BandOf(bands, age) ==
  LET matching == {b \in bands : b.min <= age /\ age <= b.max} IN
  IF matching = {} THEN None ELSE (CHOOSE b \in matching : TRUE).id

ChildRow(rows, band) ==
  LET matching == {r \in rows : r.kind = "EXTRA_CHILD" /\ r.band = band /\ band # None} IN
  {r \in matching : \A t \in matching : r.slot <= t.slot}

Occupancy(rows, bands, req, baseAdults) ==
  LET Amounts(chosen) == FoldSet(LAMBDA r, sum : sum + r.amount, 0, chosen) IN
  Amounts(ExtraAdults(rows, req.adults - baseAdults))
  + FoldSeq(LAMBDA age, sum : sum + Amounts(ChildRow(rows, BandOf(bands, age))), 0, req.ages)

AuthoredOffer(s, c, t, r) ==
  LET found == {m \in s.got.mappings2 : m.supplier = c.supplier /\ m.hotel = c.hotel}
      mapping == IF found = {} THEN [id |-> None, code |-> c.hotel] ELSE CHOOSE m \in found : TRUE
      supplements == {x \in s.got.supplements : /\ x.contract = c.id /\ x.season = t.id
                                                /\ x.room = r.room /\ x.plan = r.plan}
      bands == {b \in s.got.bands : b.contract = c.id}
  IN
  [kind |-> "authored", key |-> r.id, supplier |-> c.supplier, code |-> mapping.code,
   hotelRow |-> mapping.id, room |-> r.room, plan |-> r.plan, bookable |-> TRUE, display |-> {},
   policy |-> ResolveCancellationPolicy(s.now, r, s.got.policies),
   quote |-> EvaluateAuthoredOffer(s.req.to - s.req.from, r.amount,
               Occupancy(supplements, bands, s.req, r.base), r.currency, mapping.id,
               s.got.rules, Ctx(s))]

(* Mutant of Available: the stay is not asked about.                       *)
FitsOnly(s, r) == FitsCapacity(r, s.req.adults, s.req.children)

Available(s, r) ==
  /\ FitsCapacity(r, s.req.adults, s.req.children)
  /\ EvaluateRestrictions([from |-> s.req.from, to |-> s.req.to], s.now, r, s.got.restrictions)

Assemble(s) ==
  UNION {{AuthoredOffer(s, pair[1], pair[2], r) :
            r \in {x \in s.got.rates : /\ x.contract = pair[1].id /\ x.season = pair[2].id
                                       /\ Available(s, x)}} :
         pair \in {p \in s.got.contracts2 \X Covering(s) : p[2].contract = p[1].id}}

Shown(o, to, conversions) ==
  [o EXCEPT !.display =
     {[method |-> c.method, rate |-> c.rate, legs |-> c.legs,
       amount |-> ConvertAmount(FromMinorUnits(o.quote.sell, o.quote.currency), c.rate, to)] :
        c \in conversions}]

(* Mutant of Display: what ECB has goes first.                             *)
DisplayEcbFirst(s, o) ==
  IF s.req.display = None THEN o
  ELSE LET to == s.req.display
           ecb == ApplyFx(o.quote.currency, to, s.got.ecb, s.now, "ECB") IN
       Shown(o, to, IF o.quote.currency # to /\ ecb # {} THEN ecb
                    ELSE Convert(o.quote.currency, to, s.got.oxr, {}, s.now))

(* A price in another currency is shown converted, where a rate allows.    *)
Display(s, o) ==
  IF s.req.display = None THEN o
  ELSE Shown(o, s.req.display,
             Convert(o.quote.currency, s.req.display, s.got.oxr, s.got.ecb, s.now))

Offers(s) == {Display(s, o) : o \in {PriceSourced(s, r) : r \in s.rates} \cup Assemble(s)}

(* One result for each supplier's code of a hotel, with its promotion.     *)
GroupByHotel(offers, promotions) ==
  {LET rates == {o \in offers : o.supplier = g[1] /\ o.code = g[2]} IN
   [supplier |-> g[1], code |-> g[2], rates |-> rates,
    promotion |-> {p.tag : p \in {x \in promotions : x.hotel \in {o.hotelRow : o \in rates}}}] :
     g \in {<<o.supplier, o.code>> : o \in offers}}

(* The rates used, one row for each currency and snapshot; a cross rate    *)
(* has two snapshots and gets none.                                        *)
Applications(q, s) ==
  UNION {UNION {{[search |-> q, source |-> o.quote.currency, to |-> s.req.display,
                  rate |-> d.rate, snapshot |-> SnapshotKey(l)] : l \in d.legs} :
                d \in {x \in o.display : x.method # "CROSS_RATE"}} :
         o \in Offers(s)}

Answer(q, s) == [outcome |-> "OK", results |-> GroupByHotel(Offers(s), s.got.promotions),
                 applications |-> Applications(q, s)]
-----------------------------------------------------------------------------
(* Which statements of a stage run, given what was read before it.         *)
Needed(n, q, s) ==
  CASE Stages[n] = {"codes", "canonical"} -> IF s.rates = {} THEN {"canonical"} ELSE Stages[n]
    [] Stages[n] \in {{"contracts"}, {"contracts2"}} -> IF Canonicals(s) = {} THEN {} ELSE Stages[n]
    [] Stages[n] = {"mappings"} -> IF s.got.contracts = {} THEN {} ELSE Stages[n]
    [] "rules" \in Stages[n] -> IF RuleHotels(s) = {} THEN {"rules"} ELSE Stages[n]
    [] "seasons" \in Stages[n] -> IF s.got.contracts2 = {} THEN {} ELSE Stages[n]
    [] "rates" \in Stages[n] -> IF Usable(s) = {} THEN {} ELSE Stages[n]
    [] "oxr" \in Stages[n] -> IF s.req.display = None THEN {} ELSE Stages[n]
    [] Stages[n] = {"record"} -> IF Applications(q, s) = {} THEN {} ELSE Stages[n]
    [] OTHER -> Stages[n]

(* The next stage with a statement to run, or the answer.                  *)
Advance(q, s) ==
  LET later == {n \in DOMAIN Stages : n > s.stage /\ Needed(n, q, s) # {}}
      next == CHOOSE n \in later : \A m \in later : n <= m IN
  IF later # {} THEN [s EXCEPT !.stage = next, !.todo = Needed(next, q, s)]
  ELSE [s EXCEPT !.stage = 0, !.answer = Answer(q, s)]

Proceed(q, s) == search' = [search EXCEPT ![q] = IF s.todo = {} THEN Advance(q, s) ELSE s]

Refuse(q, outcome) ==
  search' = [search EXCEPT ![q] = [NoSearch EXCEPT !.req = search[q].req, !.answer.outcome = outcome]]

(* As many ages as children, or none.                                      *)
ParseSearchBody(req) ==
  req.hotels # <<>> /\ req.adults > 0 /\ req.children >= 0 /\ Len(req.ages) \in {0, req.children}

(* The controller: an operator does not search as itself, and the body     *)
(* names the caller's tenant and account or none.                          *)
Refusal(req) ==
  IF req.actor.class = "OPERATOR" THEN "FORBIDDEN"
  ELSE IF ~ParseSearchBody(req) THEN "BAD_REQUEST"
  ELSE IF \/ req.body.tenant \notin {None, req.actor.tenant}
          \/ req.body.account \notin {None, req.actor.account} THEN "FORBIDDEN"
  ELSE "NONE"

Start(q) == \E req \in Requests :
  /\ search[q] = NoSearch /\ call[q].step = "idle"
  /\ IF Refusal(req) # "NONE"
     THEN search' = [search EXCEPT ![q].req = req, ![q].answer.outcome = Refusal(req)]
     ELSE search' = [search EXCEPT ![q] = [NoSearch EXCEPT !.stage = 1, !.todo = Stages[1],
                                            !.req = req, !.now = clock, !.left = req.hotels]]
  /\ Watch(q)
  /\ UNCHANGED <<applications, sourcingVars>>

(* One statement returns.                                                  *)
Read(q, query) ==
  LET s == search[q]
      rows == Result(query, s) IN
  /\ query \in s.todo \cap Reads
  /\ IF query = "account" /\ rows = {} THEN Refuse(q, "NOT_FOUND")
     ELSE IF query = "account" /\ \A a \in rows : a.tenant # s.req.actor.tenant
     THEN Refuse(q, "FORBIDDEN")
     ELSE Proceed(q, [s EXCEPT !.got[query] = rows, !.todo = @ \ {query}])
  /\ UNCHANGED <<applications, catalogueVars, sourcingVars>>

(* The adapter is asked for one hotel after the other.                     *)
AskAdapter(q) ==
  LET s == search[q] IN
  /\ "hotels" \in s.todo /\ s.left # <<>> /\ call[q].step = "idle"
  /\ FetchRates(q, Head(s.left))
  /\ UNCHANGED <<searchVars, catalogueVars, raws, sourced, observed, sync>>

TakeRates(q) ==
  LET s == search[q]
      rates == s.rates \cup call[q].got IN
  /\ "hotels" \in s.todo /\ call[q].step = "fetched"
  /\ call' = [call EXCEPT ![q] = NoCall]
  /\ Proceed(q, [s EXCEPT !.rates = rates, !.left = Tail(@),
                          !.todo = IF Len(s.left) = 1 THEN {} ELSE @])
  /\ UNCHANGED <<applications, catalogueVars, raws, sourced, observed, sync>>

(* The internal endpoint that asks the adapter for one hotel, outside any  *)
(* search; what it answers is the adapter's rates.                         *)
TriggerSearch(q) ==
  /\ search[q] = NoSearch /\ call[q].step = "idle"
  /\ \E code \in DOMAIN Availability : FetchRates(q, code)
  /\ UNCHANGED <<searchVars, catalogueVars, raws, sourced, observed, sync>>

ProjectRates(q) ==
  /\ search[q] = NoSearch /\ call[q].step \in {"fetched", "failed"}
  /\ call' = [call EXCEPT ![q] = NoCall]
  /\ UNCHANGED <<searchVars, catalogueVars, raws, sourced, observed, sync>>

(* fx_application is written before the search is answered.                *)
Record(q) ==
  LET s == search[q] IN
  /\ "record" \in s.todo
  /\ applications' = applications \cup Applications(q, s)
  /\ Proceed(q, [s EXCEPT !.todo = {}])
  /\ UNCHANGED <<catalogueVars, sourcingVars>>

(* A statement fails, or the adapter does: 500.                            *)
SearchFails(q) ==
  /\ search[q].todo # {} /\ call[q].step \in {"idle", "failed"}
  /\ Refuse(q, "ERROR")
  /\ call' = [call EXCEPT ![q] = NoCall]
  /\ UNCHANGED <<applications, catalogueVars, raws, sourced, observed, sync>>

SearchStep(q) ==
  \/ Start(q) \/ (\E query \in Reads : Read(q, query))
  \/ AskAdapter(q) \/ TakeRates(q) \/ Record(q) \/ SearchFails(q)
  \/ TriggerSearch(q) \/ ProjectRates(q)

SearchInit ==
  /\ search = [q \in Searches |-> NoSearch]
  /\ applications = {}
=============================================================================
