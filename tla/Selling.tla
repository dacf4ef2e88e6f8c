------------------------------- MODULE Selling -------------------------------
(***************************************************************************)
(* Everything a search depends on, together: the tables, the admins that   *)
(* change them, the adapter, the content and rate syncs, the audit trail   *)
(* and the searches themselves.                                            *)
(***************************************************************************)
EXTENDS Search, MarketAdmin, AuditTrail, FxSync

othersVars == <<job, adminLog, inflight, events, trail, fetched, decision, locks>>

vars == <<catalogueVars, sourcingVars, searchVars, othersVars>>

Init ==
  /\ CatalogueInit /\ SourcingInit /\ SearchInit
  /\ MarketInit /\ AuditInit /\ FxInit

Sell == \E q \in Searches :
  /\ SearchStep(q) \/ (AdapterStep(q) /\ UNCHANGED searchVars)
  /\ UNCHANGED othersVars

Stock == (EditTables \/ Tick) /\ UNCHANGED <<sourcingVars, searchVars, othersVars>>

SyncContent == ContentSync /\ UNCHANGED <<searchVars, othersVars>>

Administer ==
  /\ \E w \in Admins : MarketStep(w)
  /\ UNCHANGED <<sourcingVars, searchVars, auditVars, fxVars>>

Audit == AuditStep /\ UNCHANGED <<sourcingVars, searchVars, marketVars, fxVars>>

Exchange == FxStep /\ UNCHANGED <<sourcingVars, searchVars, marketVars, auditVars>>

Next == Sell \/ Stock \/ SyncContent \/ Administer \/ Audit \/ Exchange

Spec == Init /\ [][Next]_vars
-----------------------------------------------------------------------------
Answered(q) == search[q].answer.outcome = "OK"

OffersOf(q) == UNION {g.rates : g \in search[q].answer.results}

AuthoredOf(q) == {o \in OffersOf(q) : o.kind = "authored"}

ContractCovers(s, c) ==
  /\ c.status = "ACTIVE" /\ c.tenant = s.req.actor.tenant
  /\ c.from = None \/ c.from <= s.req.from
  /\ c.to = None \/ c.to >= s.req.to

SeasonCovers(s, t) ==
  s.req.from < s.req.to /\ t.from <= s.req.from /\ t.to >= s.req.to - 1

(* A restriction or a policy in force for the tenant of a search, and one  *)
(* for contract c: its own, or its supplier's default for its hotel.       *)
InForceFor(s, r) == r.tenant = s.req.actor.tenant /\ r.by = None /\ Effective(r, s.now)

Own(s, c, r) ==
  InForceFor(s, r) /\ r.supplier = c.supplier /\ r.hotel = c.hotel /\ r.contract \in {None, c.id}

(* The restrictions or policies search q may have read for contract c:     *)
(* those of its own that were there all along, and any of the others.      *)
MayHaveRead(q, c, table) ==
  LET sure == {r \in always[q][table] : Own(search[q], c, r)} IN
  {sure \cup x : x \in SUBSET {r \in ever[q][table] \ sure : InForceFor(search[q], r)}}

Between(q, table) == {always[q][table] \cup x : x \in SUBSET (ever[q][table] \ always[q][table])}

Sellable(q, r, restrictions) ==
  LET req == search[q].req IN
  EvaluateRestrictions([from |-> req.from, to |-> req.to], search[q].now, r, restrictions)

NetOf(q, r, supplements, bands) ==
  LET req == search[q].req
      rows == {x \in supplements : /\ x.contract = r.contract /\ x.season = r.season
                                   /\ x.room = r.room /\ x.plan = r.plan} IN
  (req.to - req.from)
    * (r.amount + Occupancy(rows, {b \in bands : b.contract = r.contract}, req, r.base))

(* No offer is made up of rows that never were: each direct offer has a    *)
(* base rate of a season that covers the stay and of a contract in force,  *)
(* for which some restrictions it may have read let it be sold, its price  *)
(* is that rate with supplements there were, and its cancellation policy   *)
(* one it may have read (AuthoredSearchService.assemble, whose statements  *)
(* see different states of the tables).                                    *)
OffersSellable == \A q \in Searches : \A o \in AuthoredOf(q) :
  \E r \in ever[q].rates, c \in ever[q].contracts :
    /\ r.id = o.key /\ c.id = r.contract /\ c.supplier = o.supplier /\ ContractCovers(search[q], c)
    /\ \E t \in ever[q].seasons : t.id = r.season /\ t.contract = c.id /\ SeasonCovers(search[q], t)
    /\ FitsCapacity(r, search[q].req.adults, search[q].req.children)
    /\ \E restrictions \in MayHaveRead(q, c, "restrictions") : Sellable(q, r, restrictions)
    /\ \E supplements \in Between(q, "supplements"), bands \in Between(q, "bands") :
         o.quote.net = NetOf(q, r, supplements, bands)
    /\ \E policies \in MayHaveRead(q, c, "policies") :
         o.policy = ResolveCancellationPolicy(search[q].now, r, policies)

(* The hotel of contract c was one of those search q is for, all along.    *)
HotelAsked(q, c) == \E h \in always[q].hotels, m \in always[q].mappings :
  /\ h.supplier = Hotelbeds /\ h.code \in Range(search[q].req.hotels)
  /\ m.supplierHotel = h.id /\ m.hotel = c.hotel /\ InForce(m)

(* Nothing that could be sold all along is withheld: a rate of a contract  *)
(* and of the one season of it that covers the stay, there from the first  *)
(* statement of the search to its answer, and that no restriction it may   *)
(* have read closes, is offered (SearchService.search,                     *)
(* AuthoredSearchService.assemble).                                        *)
NothingWithheld == \A q \in {x \in Searches : Answered(x)} :
  \A r \in always[q].rates, c \in always[q].contracts, t \in always[q].seasons :
    /\ r.contract = c.id /\ r.season = t.id /\ t.contract = c.id
    /\ ContractCovers(search[q], c) /\ SeasonCovers(search[q], t) /\ HotelAsked(q, c)
    /\ \A u \in ever[q].seasons : u.contract = c.id /\ SeasonCovers(search[q], u) => u.id = t.id
    /\ FitsCapacity(r, search[q].req.adults, search[q].req.children)
    /\ \A restrictions \in MayHaveRead(q, c, "restrictions") : Sellable(q, r, restrictions)
    => \E o \in AuthoredOf(q) : o.key = r.id

(* The hotel row an offer is priced by was known to the search all along.  *)
RowKnown(q, o) ==
  /\ \E h \in always[q].hotels : h.id = o.hotelRow
  /\ o.kind = "authored" =>
       /\ \E m \in always[q].mappings : m.supplierHotel = o.hotelRow /\ InForce(m)
       /\ \E c \in always[q].contracts :
            c.supplier = o.supplier /\ ContractCovers(search[q], c) /\ HotelAsked(q, c)

(* Every price carries the best markup rule there is for it: one that      *)
(* matches, was in force at some moment of the search, and is outranked    *)
(* by no rule that was in force throughout; a hotel's rule counts when     *)
(* the hotel's row was known throughout (pickRule,                         *)
(* MarkupRuleRepository.findApplicable, read once before the contracts     *)
(* are read again).                                                        *)
PricedByBestRule == \A q \in Searches : \A o \in OffersOf(q) :
  LET ctx == Ctx(search[q]) IN
  /\ \A best \in o.quote.rule :
       /\ best \in ever[q].rules /\ Matches(best, ctx, o.hotelRow) /\ best.status = "ACTIVE"
       /\ best.from = None \/ best.from <= clock
       /\ best.to = None \/ best.to > search[q].now
  /\ \A r \in always[q].rules :
       /\ r.status = "ACTIVE" /\ Matches(r, ctx, o.hotelRow)
       /\ r.from = None \/ r.from <= search[q].now
       /\ r.to = None \/ r.to > clock
       /\ r.scope = "HOTEL" => RowKnown(q, o)
       => \E best \in o.quote.rule : ~Outranks(r, best)

(* A converted price can be traced: what it was converted by are stored    *)
(* snapshots, fresh when the search began; ECB was used only where OXR     *)
(* had no rate, and no price was left alone that a rate was there for; and *)
(* a conversion by one snapshot has its row of fx_application              *)
(* (buildDisplayFx, BatchConverter.convert).                               *)
ConversionsOnRecord == \A q \in {x \in Searches : Answered(x)} : \A o \in OffersOf(q) :
  LET s == search[q]
      From(p) == ApplyFx(o.quote.currency, s.req.display, always[q].snapshots, s.now, p) IN
  s.req.display \notin {None, o.quote.currency} =>
    /\ o.display = {} => From("OXR") = {} /\ From("ECB") = {}
    /\ \A d \in o.display :
         /\ \A l \in d.legs : l \in ever[q].snapshots /\ l.at >= s.now - Ttl[l.provider]
         /\ (\E l \in d.legs : l.provider = "ECB") =>
              From("OXR") = {} /\ \A l \in d.legs : l.provider = "ECB"
         /\ d.method # "CROSS_RATE" => \A l \in d.legs :
              [search |-> q, source |-> o.quote.currency, to |-> s.req.display,
               rate |-> d.rate, snapshot |-> SnapshotKey(l)] \in applications

(* Every rate of the supplier that is shown can be audited: its snapshot   *)
(* is stored with the total it is priced from, the payload it came in is   *)
(* in object storage, the codes of a hotel that has a row are there for    *)
(* the mapping pipeline, and it cannot be booked; one the adapter answers  *)
(* the internal endpoint with is stored too                                *)
(* (runSourcedSearchAndPersist, assertRateBookable).                       *)
RatesOnRecord == \A q \in Searches :
  /\ \A o \in {x \in OffersOf(q) : x.kind = "sourced"} :
       /\ ~o.bookable
       /\ \E s \in sourced : /\ s.search = q /\ s.hotel = o.code /\ s.key = o.key
                             /\ s.total = o.quote.net /\ s.currency = o.quote.currency
                             /\ s.raw \in raws
       /\ \A h \in always[q].hotels : h.supplier = Hotelbeds /\ h.code = o.code =>
            /\ [kind |-> "room", hotel |-> h.id, code |-> o.room] \in observed
            /\ [kind |-> "plan", hotel |-> h.id, code |-> o.plan] \in observed
  /\ \A rate \in call[q].got : \E s \in sourced :
       s.search = q /\ s.hotel = rate.hotel /\ s.key = rate.key /\ s.raw \in raws

(* A content sync that came to the end of what Hotelbeds counts has left   *)
(* one row for each of its hotels, also when another ran before it, runs   *)
(* beside it or failed half way; one whose last page did not say how many  *)
(* hotels there are may have ended early (runHotelContentSync,             *)
(* normalizeContentResponse, upsertSupplierHotels).                        *)
SyncComplete == \A y \in Syncs :
  sync[y].step = "done" /\ sync[y].counted /\ sync[y].next = None =>
    \A i \in DOMAIN Content :
      Cardinality({h \in db.hotels : h.supplier = Hotelbeds /\ h.code = Content[i]}) = 1

(* No patch is lost: a column of a rule or a promotion that requests have  *)
(* written has a value one of them wrote, so that two requests that name   *)
(* different columns both have their way (MarkupRuleAdminRepository.patch, *)
(* PromotionAdminRepository.patch).                                        *)
NoLostPatch == \A w \in {x \in Admins : job[x].wrote} :
  LET c == job[w].change
      others == {job[x].change : x \in {y \in Admins : job[y].wrote}} IN
  \A r \in db[c.table] : r.id = c.id => \A f \in DOMAIN c.fields :
    r[f] \in {d.fields[f] : d \in {e \in others : /\ e.table = c.table /\ e.id = c.id
                                                 /\ f \in DOMAIN e.fields}}

(* A default of another hotel is no business of an offer: the restrictions *)
(* of its own contract, supplier and hotel let it be sold, as              *)
(* docs/adrs/ADR-023 has it of findActiveRestrictions and                  *)
(* evaluateRestrictions.                                                   *)
OwnRestrictionsBind == \A q \in Searches : \A o \in AuthoredOf(q) :
  \E r \in ever[q].rates, c \in ever[q].contracts :
    /\ r.id = o.key /\ c.id = r.contract
    /\ \E rows \in MayHaveRead(q, c, "restrictions") :
         Sellable(q, r, {x \in rows : Own(search[q], c, x)})
=============================================================================
