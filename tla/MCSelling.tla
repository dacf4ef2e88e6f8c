------------------------------ MODULE MCSelling ------------------------------
(***************************************************************************)
(* Selling.cfg: a direct hotel and a Hotelbeds hotel of one canonical      *)
(* hotel, searched for two nights by two adults and a child while the      *)
(* tables, a markup rule or the exchange rates change.  Market.cfg: the    *)
(* admins, the syncs, the locks and the audit reader, one part at a time.  *)
(* Meals.cfg: the meal supplements of a contract.                          *)
(***************************************************************************)
EXTENDS SellingInvariant

CONSTANTS q1, w1, w2, y1, y2

Window == [from |-> None, to |-> None]

MCRestriction(id, contract, plan, kind, param) ==
  [id |-> id, tenant |-> "t1", supplier |-> "d1", hotel |-> "K1", contract |-> contract,
   season |-> None, plan |-> plan, room |-> None, day |-> 1, kind |-> kind, param |-> param,
   from |-> 0, to |-> None, by |-> None]

MCPolicy(id, hotel, contract) ==
  [id |-> id, tenant |-> "t1", supplier |-> "d1", hotel |-> hotel, contract |-> contract,
   plan |-> None, windows |-> <<[since |-> None, until |-> 24, fee |-> 100]>>, version |-> 1, from |-> 0, to |-> None, by |-> None]

MCRule(id, scope, target, percent, priority) ==
  [id |-> id, tenant |-> "t1", scope |-> scope, target |-> target, percent |-> percent,
   priority |-> priority, status |-> "ACTIVE"] @@ Window

MCContract(id, status) ==
  [id |-> id, tenant |-> "t1", supplier |-> "d1", hotel |-> "K1", status |-> status] @@ Window

MCRate(id, contract, season, plan, amount) ==
  [id |-> id, contract |-> contract, season |-> season, room |-> "R", plan |-> plan,
   amount |-> amount, currency |-> "USD", base |-> 1,
   maxAdults |-> 2, maxChildren |-> 1, maxTotal |-> 3]

MCSupplement(id, kind, band, amount) ==
  [id |-> id, contract |-> "c1", season |-> "s1", room |-> "R", plan |-> "P",
   kind |-> kind, band |-> band, slot |-> 1, amount |-> amount]

MCMeal(id, kind, band, amount) ==
  [id |-> id, contract |-> "c1", season |-> "s1", room |-> None, plan |-> None, meal |-> "HB",
   kind |-> kind, band |-> band, amount |-> amount]

MCSnapshot(p, base, quote, rate, at) ==
  [provider |-> p, base |-> base, quote |-> quote, rate |-> rate, at |-> at]

MCPromotion(id, tag, type) ==
  [id |-> id, tenant |-> "t1", hotel |-> 2, tag |-> tag, type |-> type, priority |-> 0,
   status |-> "ACTIVE"] @@ Window

(* The contract's own MIN_LOS lets two nights pass, its supplier's not; a  *)
(* plan is closed; OXR has no fresh rate for the pound at first.           *)
MCInitial ==
  [accounts |-> {[id |-> 1, tenant |-> "t1", type |-> "AGENCY", status |-> "ACTIVE"],
                 [id |-> 2, tenant |-> "t2", type |-> "AGENCY", status |-> "ACTIVE"]},
   hotels |-> {[id |-> 1, supplier |-> "hb", code |-> "C1"],
               [id |-> 2, supplier |-> "d1", code |-> "X1"]},
   mappings |-> {[supplierHotel |-> 1, hotel |-> "K1", status |-> "CONFIRMED"],
                 [supplierHotel |-> 2, hotel |-> "K1", status |-> "PENDING"]},
   contracts |-> {MCContract("c1", "ACTIVE")},
   seasons |-> {[id |-> "s1", contract |-> "c1", from |-> 1, to |-> 2]},
   bands |-> {[id |-> "b1", contract |-> "c1", min |-> 2, max |-> 11]},
   rates |-> {MCRate("r1", "c1", "s1", "P", 30), MCRate("r2", "c1", "s1", "closed", 25)},
   supplements |-> {MCSupplement("x1", "EXTRA_CHILD", "b1", 4)},
   meals |-> {},
   restrictions |-> 
     {MCRestriction(4, None, None, "MIN_LOS", 3), MCRestriction(5, "c1", None, "MIN_LOS", 2),
      MCRestriction(9, "c1", "closed", "STOP_SELL", 0)},
   policies |-> {MCPolicy(7, "K1", None)},
   rules |-> {MCRule(1, "HOTEL", 2, 1000000, 0), MCRule(2, "CHANNEL", "AGENCY", 500000, 5)},
   promotions |-> {MCPromotion(1, "FEATURED", None), MCPromotion(2, "PROMOTED", "AGENCY")},
   snapshots |->
     {MCSnapshot("OXR", "USD", "EUR", 80, 0), MCSnapshot("OXR", "USD", "GBP", 70, -9),
      MCSnapshot("ECB", "EUR", "USD", 110, -24), MCSnapshot("ECB", "EUR", "GBP", 85, -24)}]

(* Two hotels of one supplier; the stay is too short for the first one's   *)
(* default, and long enough for the second one's.                          *)
MCTwoHotels ==
  [MCInitial EXCEPT
     !.hotels = @ \cup {[id |-> 3, supplier |-> "hb", code |-> "C2"]},
     !.mappings = @ \cup {[supplierHotel |-> 3, hotel |-> "K2", status |-> "CONFIRMED"]},
     !.restrictions = {MCRestriction(4, None, None, "MIN_LOS", 3),
                       [MCRestriction(3, None, None, "MIN_LOS", 1) EXCEPT !.hotel = "K2"]}]

MCDrafts ==
  [seasons |-> {[id |-> "s2", contract |-> "c1", from |-> 2, to |-> 4]},
   bands |-> {[id |-> "b2", contract |-> "c1", min |-> 6, max |-> 11]},
   rates |-> {[MCRate("r3", "c1", "s1", "P", 20) EXCEPT !.base = 2]},
   supplements |-> {MCSupplement("x2", "EXTRA_ADULT", None, 6)},
   meals |-> {},
   restrictions |-> 
     {MCRestriction(6, "c1", None, "MIN_LOS", 3), MCRestriction(3, None, None, "STOP_SELL", 0)},
   policies |-> {MCPolicy(8, "K1", "c1")}]

MCAgent == [class |-> "AGENCY", tenant |-> "t1", account |-> 1]

MCRequest ==
  [actor |-> MCAgent, body |-> [tenant |-> None, account |-> None], hotels |-> <<"C1">>,
   from |-> 1, to |-> 3, adults |-> 2, children |-> 1, ages |-> <<5>>, display |-> "EUR"]

MCRequests ==
  {MCRequest, [MCRequest EXCEPT !.ages = <<5, 6>>],
   [MCRequest EXCEPT !.actor.class = "OPERATOR"], [MCRequest EXCEPT !.actor.account = 2]}

MCBothHotels == {[MCRequest EXCEPT !.hotels = <<"C1", "C2">>]}

MCAvailability == "C1" :>
  {<<>>, <<[key |-> "k", room |-> "SR", plan |-> "SP", meal |-> "BB", net |-> 5000,
            currency |-> "GBP", penalties |-> <<1, 9>>]>>}
  @@ "C2" :> {<<>>}

MCContent == <<"C1", "C2", "C3">>

MCNewHotel == "C1" :> 11 @@ "C2" :> 12 @@ "C3" :> 13

MCTtl == [OXR |-> 4, ECB |-> 48]

MCPivot == [OXR |-> "USD", ECB |-> "EUR"]

MCFeeds == {[provider |-> "OXR", base |-> "USD", at |-> 0, rates |-> [EUR |-> 90, GBP |-> 75]]}

Patch(table, id, fields) ==
  [op |-> "PATCH", table |-> table, id |-> id, tenant |-> "t1", keys |-> {}, fields |-> fields]

MCChanges == {Patch("rules", 1, [priority |-> 7]), Patch("rules", 1, [status |-> "INACTIVE"])}

MCNoLimits == [default |-> 2, least |-> 1, greatest |-> 3]

(* What has happened beside the search.                                    *)
Happened ==
  changes + clock + Cardinality({w \in Admins : job[w] # NoJob})
  + (IF fetched # {} \/ db.snapshots # Initial.snapshots THEN 1 ELSE 0)

(* A search is followed from its request to its answer, with two things    *)
(* happening beside it; a call of the internal endpoint to its answer.     *)
SellingBound ==
  /\ \A q \in Searches : /\ search[q].answer.outcome = "NONE"
                         /\ search[q] = NoSearch /\ call[q] = NoCall => raws = {}
  /\ Happened <= IF \A q \in Searches : search[q] = NoSearch THEN 0 ELSE 2
-----------------------------------------------------------------------------
(* Market.cfg.  Two patches of one rule's window are each fine alone, and  *)
(* no window together.                                                     *)
Create(table, named, fields) ==
  [op |-> "CREATE", table |-> table, id |-> 3, tenant |-> "t1", keys |-> named,
   fields |-> fields @@ Window]

HotelRule(target) == [scope |-> "HOTEL", target |-> target, percent |-> 1, priority |-> 0]

MCMarketChanges ==
  {Create("rules", {"HOTEL"}, HotelRule(2)), Create("rules", {"HOTEL", "CHANNEL"}, HotelRule(2)),
   Create("rules", {"HOTEL"}, HotelRule(9)),
   Create("promotions", {}, [hotel |-> 1, tag |-> "FEATURED", type |-> None, priority |-> 0]),
   Patch("rules", 1, [from |-> 5]), Patch("rules", 1, [to |-> 4]),
   Patch("rules", 1, [percent |-> 2, to |-> None]), Patch("rules", 9, [priority |-> 1]),
   Patch("rules", 1, [scope |-> "ACCOUNT"]), Patch("rules", 1, [priority |-> -1]),
   [Patch("rules", 1, [status |-> "INACTIVE"]) EXCEPT !.op = "SOFT_DELETE"],
   Patch("promotions", 2, [priority |-> 1, from |-> 3])}

MCMarketDrafts ==
  [MCDrafts EXCEPT
     !.seasons = {[id |-> "s2", contract |-> "c1", from |-> 3, to |-> 4],
                  [id |-> "s3", contract |-> "c1", from |-> 2, to |-> 1]},
     !.bands = {[id |-> "b2", contract |-> "c1", min |-> 12, max |-> 17]},
     !.rates = {MCRate("r3", "c1", "s2", "P", 20), MCRate("r4", "c1", "s1", "P", -1)},
     !.supplements = {MCSupplement("x2", "EXTRA_ADULT", None, 6),
                      MCSupplement("x3", "EXTRA_CHILD", "b2", 3),
                      MCSupplement("x4", "EXTRA_CHILD", None, 1)},
     !.meals = {MCMeal("m1", "CHILD", "b1", 2), MCMeal("m2", "ADULT", None, 9)},
     !.policies = @ \cup {[MCPolicy(9, "K1", None) EXCEPT !.from = 2, !.to = 1]},
     !.restrictions = @ \cup {[MCRestriction(8, "c1", None, "STOP_SELL", 0) EXCEPT !.season = "s1"],
                              MCRestriction(10, "c1", None, "MIN_LOS", 0)}]

(* A rate of a snapshot there is already, one that is zero, a later one.   *)
MCManyFeeds ==
  {[provider |-> "OXR", base |-> "USD", at |-> 0, rates |-> [EUR |-> 90, GBP |-> 75]],
   [provider |-> "ECB", base |-> "EUR", at |-> 1, rates |-> [USD |-> 108, GBP |-> 0]],
   [provider |-> "OXR", base |-> "USD", at |-> 1, rates |-> [EUR |-> 33]]}

MCBookings ==
  {[source |-> "USD", charge |-> "EUR", minor |-> 3], [source |-> "EUR", charge |-> "EUR", minor |-> 2],
   [source |-> "GBP", charge |-> "EUR", minor |-> 2]}

MCQuotes == {[id |-> "fxq1", rate |-> 127], [id |-> "fxq2", rate |-> 0]}

MCEventKinds ==
  {[tenant |-> "t1", category |-> "BOOKING"], [tenant |-> "t1", category |-> "SENSITIVE_ACCESS"],
   [tenant |-> "t2", category |-> "BOOKING"]}

MCQuery(sensitive, limit, category, from, to) ==
  [tenant |-> "t1", canViewSensitive |-> sensitive, limit |-> limit, category |-> category,
   from |-> from, to |-> to]

MCAuditQueries ==
  {MCQuery(FALSE, None, None, None, None), MCQuery(TRUE, 0, None, None, None),
   MCQuery(TRUE, 9, "BOOKING", 0, 1), MCQuery(FALSE, 1, "SENSITIVE_ACCESS", None, None),
   MCQuery(TRUE, 1, None, 1, 0)}

MCLimits == [default |-> 2, least |-> 1, greatest |-> 2]

MCRefunds == {1, 2}

(* One part at a time, and one booking: they share the tables, and none    *)
(* reads what another of them writes.  A trail is followed to its end, and *)
(* a booking over three refunds.                                           *)
MarketBound ==
  /\ trail.step \in {"idle", "list"}
  /\ Cardinality({b \in Bookings : decision[b] # NoDecision}) <= 1
  /\ Cardinality(locks) <= 4
  /\ Cardinality({part \in 1..5 :
       CASE part = 1 -> \E w \in Admins : job[w] # NoJob
         [] part = 2 -> \E y \in Syncs : sync[y] # NoSync
         [] part = 3 -> auditVars # <<{}, {}, NoTrail>>
         [] part = 4 -> \/ fetched # {} \/ db.snapshots # Initial.snapshots
                        \/ \E b \in Bookings : decision[b] # NoDecision
         [] part = 5 -> changes > 0}) <= 1
-----------------------------------------------------------------------------
(* Meals.cfg.  Two supplements for one meal, at different prices.          *)
MCTwoMeals ==
  [MCDrafts EXCEPT !.meals = {MCMeal("m1", "ADULT", None, 9), MCMeal("m2", "ADULT", None, 7)}]
=============================================================================
