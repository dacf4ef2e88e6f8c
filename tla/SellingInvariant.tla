--------------------------- MODULE SellingInvariant ---------------------------
(***************************************************************************)
(* The inductive invariants of Selling, one for each part that has a       *)
(* property of its own.                                                    *)
(***************************************************************************)
EXTENDS Selling
-----------------------------------------------------------------------------
(* A search that watches the tables knows between which states of them it  *)
(* has read.                                                               *)
TablesSeen ==
  /\ DOMAIN db = Tables /\ DOMAIN ever = Searches /\ DOMAIN always = Searches
  /\ \A q \in Searches :
       /\ DOMAIN ever[q] = Tables /\ DOMAIN always[q] = Tables
       /\ \A t \in Tables : always[q][t] \subseteq db[t] /\ db[t] \subseteq ever[q][t]
-----------------------------------------------------------------------------
Job == [step : {"idle", "insert", "find", "update", "audit", "done"},
        change : MarketChanges \cup {None}, wrote : BOOLEAN,
        outcome : {"NONE", "OK", "BAD_REQUEST", "CONFLICT", "NOT_FOUND", "ERROR"}]

(* A request of an admin names only columns it may, from when its body was *)
(* parsed.                                                                 *)
JobKnown(j) ==
  /\ j.step \in {"idle", "insert", "find", "update"} => ~j.wrote
  /\ j.step \in {"insert", "find", "update", "audit"} \/ j.wrote =>
       j.change \in MarketChanges /\ RejectExtraKeys(j.change)
  /\ j.step = "insert" => j.change.op = "CREATE"
  /\ j.step \in {"find", "update"} => j.change.op # "CREATE"

JobsKnown == job \in [Admins -> Job] /\ \A w \in Admins : JobKnown(job[w])

FeedsKnown == \A feed \in fetched :
  /\ feed.provider \in {"OXR", "ECB"} /\ feed.at \in Int
  /\ IsFiniteSet(DOMAIN feed.rates) /\ \A c \in DOMAIN feed.rates : feed.rates[c] \in Int

(* The tables a best row is looked for in.                                 *)
RowsFinite == \A t \in {"policies", "rules", "snapshots"} : IsFiniteSet(db[t])

CatalogueInductive == JobsKnown /\ FeedsKnown /\ TablesSeen /\ TablesOk(db) /\ RowsFinite

(* What a request has written is in a row that is still there.             *)
PatchesKept ==
  /\ NoLostPatch
  /\ \A w \in Admins : job[w].wrote =>
       \E r \in db[job[w].change.table] : r.id = job[w].change.id

PatchInductive == CatalogueInductive /\ PatchesKept
-----------------------------------------------------------------------------
(* A content sync: before the cursor every hotel has its row, and a page   *)
(* of a count reaches from there to the next one.                          *)
Listed(rows, i) == \E h \in rows : h.supplier = Hotelbeds /\ h.code = Content[i]

SyncRecord ==
  [step : {"idle", "list", "store", "upsert", "done", "failed"}, cursor : Nat \ {0},
   page : SUBSET Range(Content), next : Nat \cup {None}, counted : BOOLEAN, pages : Nat]

Reaches(s, rows) ==
  /\ s \in SyncRecord
  /\ s.step \in {"list", "store", "upsert"} =>
       \A i \in DOMAIN Content : i < s.cursor => Listed(rows, i)
  /\ s.step \in {"store", "upsert"} =>
       /\ s.next # 0
       /\ s.next # None => s.counted
       /\ \A i \in DOMAIN Content : s.counted /\ (s.next = None \/ i < s.next) =>
            i < s.cursor \/ Content[i] \in s.page
  /\ s.step = "done" /\ s.counted /\ s.next = None =>
       \A i \in DOMAIN Content : Listed(rows, i)

SyncReaches == DOMAIN sync = Syncs /\ \A y \in Syncs : Reaches(sync[y], db.hotels)

(* Each hotel has an id of its own.                                        *)
HotelsNamed ==
  /\ IdsDistinct(db.hotels)
  /\ \A h \in db.hotels :
       h.id # None /\ (h \in Initial.hotels \/ \E c \in DOMAIN NewHotel : h = NormalizeHotel(c))

SyncInductive == CatalogueInductive /\ SyncReaches /\ HotelsNamed
-----------------------------------------------------------------------------
(* Where in a search a statement runs, and whether it is over.             *)
StageOf ==
  [account |-> 1, hotels |-> 2, codes |-> 3, canonical |-> 3, contracts |-> 4, mappings |-> 5,
   rules |-> 6, promotions |-> 6, contracts2 |-> 7, seasons |-> 8, bands |-> 8, mappings2 |-> 8,
   rates |-> 9, supplements |-> 9, restrictions |-> 9, policies |-> 9, oxr |-> 10, ecb |-> 10,
   record |-> 11]

Behind(s, query) ==
  \/ s.answer.outcome = "OK" \/ StageOf[query] < s.stage
  \/ StageOf[query] = s.stage /\ query \notin s.todo

(* A search holds nothing of a statement that has not run, and its answer  *)
(* is made of what it holds at the end.                                    *)
SearchFormed(q, s) ==
  /\ DOMAIN s = DOMAIN NoSearch /\ DOMAIN s.got = Reads /\ DOMAIN s.answer = DOMAIN NoAnswer
  /\ s.stage \in 0..11 /\ s.todo \subseteq {x \in Queries : StageOf[x] = s.stage}
  /\ s.answer.outcome # "NONE" => s.stage = 0
  /\ s.answer = IF s.answer.outcome = "OK" THEN Answer(q, s)
                ELSE [NoAnswer EXCEPT !.outcome = s.answer.outcome]
  /\ s.now \in Nat
  /\ s.stage # 0 \/ s.answer.outcome = "OK" => s.req \in Requests
  /\ \A x \in Reads : ~Behind(s, x) => s.got[x] = {}

SearchesFormed ==
  /\ clock \in Nat /\ DOMAIN search = Searches
  /\ \A q \in Searches : SearchFormed(q, search[q]) /\ search[q].now <= clock

(* What is on record of a rate of the supplier: its snapshot with its raw  *)
(* payload, and the codes of one kind for each row of its hotel.           *)
Records(q) ==
  [raws |-> raws, sourced |-> sourced, observed |-> observed, hotels |-> always[q].hotels]

Stored(q, w, hotel, rate) == \E s \in w.sourced :
  /\ s.search = q /\ s.hotel = hotel /\ s.key = rate.key
  /\ s.total = ToMinorUnits(rate.net, rate.currency) /\ s.currency = rate.currency
  /\ s.raw \in w.raws

Noted(w, kind, hotel, code) == \A h \in w.hotels :
  h.supplier = Hotelbeds /\ h.code = hotel =>
    [kind |-> kind, hotel |-> h.id, code |-> code] \in w.observed

OnRecord(q, w, rate) ==
  /\ rate.provenance = "PROVISIONAL"
  /\ Stored(q, w, rate.hotel, rate)
  /\ Noted(w, "room", rate.hotel, rate.room) /\ Noted(w, "plan", rate.hotel, rate.plan)

CallFormed(q, w, c) ==
  /\ DOMAIN c = DOMAIN NoCall
  /\ c.step \in {"idle", "http", "raw", "failed"} => c.got = {}
  /\ c.step \in {"snapshot", "observe", "fetched"} => RawOf(q, c.hotel) \in w.raws
  /\ c.step = "observe" =>
       /\ Stored(q, w, c.hotel, Head(c.left))
       /\ "room" \notin c.todo => Noted(w, "room", c.hotel, Head(c.left).room)
       /\ "plan" \notin c.todo => Noted(w, "plan", c.hotel, Head(c.left).plan)
  /\ \A rate \in c.got : OnRecord(q, w, rate)

CallsFormed == DOMAIN call = Searches /\ \A q \in Searches : CallFormed(q, Records(q), call[q])

RatesTaken == \A q \in Searches : \A rate \in search[q].rates : OnRecord(q, Records(q), rate)

RatesInductive == CatalogueInductive /\ SearchesFormed /\ CallsFormed /\ RatesTaken
-----------------------------------------------------------------------------
(* What a search holds of a table when the statement that reads it is      *)
(* over: nothing that never was, and of what it asked for all that was     *)
(* there all along.  The world is what the tables have been meanwhile.     *)
World(q) == [ever |-> ever[q], always |-> always[q], clock |-> clock, applied |-> applications]

CanonicalFound(s, w) == \A h \in w.always.hotels, m \in w.always.mappings :
  /\ h.supplier = Hotelbeds /\ h.code \in Range(s.req.hotels)
  /\ m.supplierHotel = h.id /\ InForce(m)
  => m.hotel \in Canonicals(s)

ContractsFound(s, w, rows) ==
  /\ \A c \in rows :
       c \in w.ever.contracts /\ ContractCovers(s, c) /\ c.hotel \in Canonicals(s)
  /\ \A c \in w.always.contracts :
       ContractCovers(s, c) /\ c.hotel \in Canonicals(s) => c \in rows

(* A hotel and its mapping are found as they have been all along, if they  *)
(* have been.                                                              *)
MappingsFound(s, w, contracts, rows) ==
  /\ \A x \in rows :
       /\ \A h \in w.always.hotels : h.id = x.id => h.supplier = x.supplier
       /\ \A m \in w.always.mappings : m.supplierHotel = x.id /\ InForce(m) => m.hotel = x.hotel
  /\ \A h \in w.always.hotels, m \in w.always.mappings :
       /\ h.supplier \in {c.supplier : c \in contracts} /\ m.hotel \in Canonicals(s)
       /\ m.supplierHotel = h.id /\ InForce(m)
       => h.id \in {x.id : x \in rows}

RuleApplies(s, r) ==
  \/ r.scope = "ACCOUNT" /\ r.target = Ctx(s).account
  \/ r.scope = "HOTEL" /\ r.target \in RuleHotels(s)
  \/ r.scope = "CHANNEL" /\ r.target = Ctx(s).type

RulesFound(s, w) ==
  /\ IsFiniteSet(s.got.rules) /\ IdsDistinct(s.got.rules)
  /\ \A r \in s.got.rules :
       /\ r \in w.ever.rules /\ RuleOk(r) /\ r.status = "ACTIVE"
       /\ r.from = None \/ r.from <= w.clock
       /\ r.to = None \/ r.to > s.now
  /\ \A r \in w.always.rules :
       /\ r.tenant = s.req.actor.tenant /\ r.status = "ACTIVE" /\ RuleApplies(s, r)
       /\ r.from = None \/ r.from <= s.now
       /\ r.to = None \/ r.to > w.clock
       => r \in s.got.rules

SeasonsFound(s, w) ==
  /\ s.got.seasons \subseteq w.ever.seasons /\ IdsDistinct(s.got.seasons)
  /\ \A t \in w.always.seasons :
       t.contract \in {c.id : c \in s.got.contracts2} /\ SeasonCovers(s, t) => t \in s.got.seasons

BandsFound(s, w) ==
  /\ s.got.bands \subseteq w.ever.bands
  /\ \A b \in w.always.bands : b.contract \in {c.id : c \in s.got.contracts2} => b \in s.got.bands

(* Of the seasons that cover the stay.                                     *)
UsableFound(s, w, table) ==
  s.got[table] \subseteq w.ever[table] /\ OfUsable(w.always[table], s) \subseteq s.got[table]

RestrictionsFound(s, w) ==
  /\ \A r \in s.got.restrictions : r \in w.ever.restrictions /\ InForceFor(s, r)
  /\ \A r \in w.always.restrictions :
       AuthoredScope(r, s) /\ r.day \in s.req.from..s.req.to => r \in s.got.restrictions

PoliciesFound(s, w) ==
  /\ \A p \in s.got.policies : p \in w.ever.policies /\ InForceFor(s, p)
  /\ \A p \in w.always.policies : AuthoredScope(p, s) => p \in s.got.policies

SnapshotsFound(s, w, p, rows) ==
  /\ IsFiniteSet(rows)
  /\ \A r \in rows : r \in w.ever.snapshots /\ r.at \in Int
  /\ s.req.display # None => \A r \in w.always.snapshots :
       r.provider = p /\ r.at >= s.now - Ttl[p] => r \in rows

Found(q, s, w, query) ==
  /\ query = "canonical" => CanonicalFound(s, w)
  /\ query = "contracts" => ContractsFound(s, w, s.got.contracts)
  /\ query = "contracts2" => ContractsFound(s, w, s.got.contracts2)
  /\ query = "mappings" => MappingsFound(s, w, s.got.contracts, s.got.mappings)
  /\ query = "mappings2" => MappingsFound(s, w, s.got.contracts2, s.got.mappings2)
  /\ query = "rules" => RulesFound(s, w)
  /\ query = "seasons" => SeasonsFound(s, w)
  /\ query = "bands" => BandsFound(s, w)
  /\ query \in {"rates", "supplements"} => UsableFound(s, w, query)
  /\ query = "restrictions" => RestrictionsFound(s, w)
  /\ query = "policies" => PoliciesFound(s, w)
  /\ query = "oxr" => SnapshotsFound(s, w, "OXR", s.got.oxr)
  /\ query = "ecb" => SnapshotsFound(s, w, "ECB", s.got.ecb)
  /\ query = "record" => Applications(q, s) \subseteq w.applied

SearchesFound == \A q \in Searches : \A query \in Queries :
  Behind(search[q], query) => Found(q, search[q], World(q), query)

SearchInductive == SyncInductive /\ SearchesFormed /\ SearchesFound
-----------------------------------------------------------------------------
(* What a lock cites is a stored snapshot or a usable quote, and its       *)
(* charge is its source at its rate.                                       *)
CitesSnapshot(b, row, w) == row.kind = "SNAPSHOT_REFERENCE" =>
  \E s \in w : /\ row.legs = {SnapshotKey(s)} /\ s.provider = "OXR"
              /\ row.rate = IF s.base = b.source THEN s.rate ELSE InverseRate(s.rate)

CitesQuote(row) == row.kind = "STRIPE_FX_QUOTE" =>
  \E quote \in Quotes : row.quote = quote /\ quote.rate > 0 /\ row.rate = InverseRate(quote.rate)

LegsKeyed(lock) == [lock EXCEPT !.legs = {SnapshotKey(l) : l \in lock.legs}]

Decided(b, d, w) ==
  /\ DOMAIN d = DOMAIN NoDecision
  /\ d.step \in {"idle", "stripe", "oxr", "insert", "done"}
  /\ d.step = "insert" =>
       /\ DOMAIN d.lock = DOMAIN NoLock("NONE") /\ d.lock.rate \in Int
       /\ CitesSnapshot(b, LegsKeyed(d.lock), w) /\ CitesQuote(d.lock)

LockRow(l, w) ==
  /\ DOMAIN l = {"booking", "id", "applied", "kind", "rate", "legs", "quote", "source", "charge"}
  /\ l.booking \in Bookings /\ l.rate \in Int /\ l.source \in Int
  /\ l.charge = ApplyRateToMinor(l.source, l.rate)
  /\ l.applied = "CONFIRMATION" => CitesSnapshot(l.booking, l, w) /\ CitesQuote(l)

(* A booking has one CONFIRMATION at most, written by the last statement   *)
(* of its decision, and its refunds have the rate of it.                   *)
LocksKnown ==
  /\ IsFiniteSet(locks) /\ DOMAIN decision = Bookings
  /\ \A b \in Bookings : Decided(b, decision[b], db.snapshots)
  /\ \A l \in locks : LockRow(l, db.snapshots) /\ decision[l.booking].step = "done"
  /\ \A l, m \in locks :
       l.booking = m.booking /\ l.applied = "CONFIRMATION" =>
         l.rate = m.rate /\ (m.applied = "CONFIRMATION" => l = m)

LocksInductive == CatalogueInductive /\ LocksKnown
-----------------------------------------------------------------------------
(* The audit reader.  An event is named by its id.                         *)
EventsNamed ==
  /\ events \subseteq Event /\ inflight \subseteq Event /\ IsFiniteSet(events)
  /\ \A e, f \in events \cup inflight : e.id = f.id => e = f

Trails(set) ==
  [step : {"idle", "refused", "list", "done"}, query : AuditQueries \cup {None},
   cursor : Event \cup {None}, before : SUBSET set, pages : Seq(SUBSET set)]

Seen == UNION {trail.pages[i] : i \in DOMAIN trail.pages}

(* The pages are cut off at the cursor: what is on them is the cursor or   *)
(* newer, and what is missing of the first events is older.                *)
TrailCut ==
  /\ trail \in Trails(events)
  /\ \A i, j \in DOMAIN trail.pages : i # j => trail.pages[i] \cap trail.pages[j] = {}
  /\ \A e \in Seen \cup trail.before : e \in Visible(trail.query, events)
  /\ trail.step = "list" =>
       /\ trail.query \in AuditQueries
       /\ \A e \in Seen :
            trail.cursor # None /\ (e = trail.cursor \/ Older(trail.cursor, e))
       /\ \A e \in trail.before \ Seen : AfterCursor(e, trail.cursor)
  /\ trail.step = "done" => trail.before \subseteq Seen

AuditInductive == clock \in Nat /\ EventsNamed /\ TrailCut
=============================================================================
