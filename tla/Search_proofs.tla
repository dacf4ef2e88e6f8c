---------------------------- MODULE Search_proofs -----------------------------
(***************************************************************************)
(* The searches of Selling: what one holds of the tables when its          *)
(* statements have run, and what its answer is made of, for every value of *)
(* the constants.                                                          *)
(***************************************************************************)
EXTENDS Selling_proofs
-----------------------------------------------------------------------------
(* The stages of a search.                                                 *)
QueryNames ==
  {"account", "hotels", "codes", "canonical", "contracts", "mappings", "rules", "promotions",
   "contracts2", "seasons", "bands", "mappings2", "rates", "supplements", "restrictions",
   "policies", "oxr", "ecb", "record"}

LEMMA StageSets ==
  /\ DOMAIN Stages = 1..11
  /\ Stages[1] = {"account"} /\ Stages[2] = {"hotels"} /\ Stages[3] = {"codes", "canonical"}
  /\ Stages[4] = {"contracts"} /\ Stages[5] = {"mappings"} /\ Stages[6] = {"rules", "promotions"}
  /\ Stages[7] = {"contracts2"} /\ Stages[8] = {"seasons", "bands", "mappings2"}
  /\ Stages[9] = {"rates", "supplements", "restrictions", "policies"}
  /\ Stages[10] = {"oxr", "ecb"} /\ Stages[11] = {"record"}
BY DEF Stages

LEMMA StageNames ==
  /\ Queries = QueryNames /\ Reads = QueryNames \ {"hotels", "record"}
  /\ \A x \in QueryNames : StageOf[x] \in 1..11
  /\ \A n \in 1..11 : Stages[n] = {x \in QueryNames : StageOf[x] = n}
<1>1. \A x \in QueryNames : StageOf[x] \in 1..11
  BY DEF QueryNames, StageOf
<1>2. \A n \in 1..11 : \A x : x \in Stages[n] <=> x \in QueryNames /\ StageOf[x] = n
  <2> SUFFICES ASSUME NEW n \in 1..11, NEW x
               PROVE  x \in Stages[n] <=> x \in QueryNames /\ StageOf[x] = n
    OBVIOUS
  <2>1. \/ n = 1 \/ n = 2 \/ n = 3 \/ n = 4 \/ n = 5 \/ n = 6 \/ n = 7 \/ n = 8 \/ n = 9
        \/ n = 10 \/ n = 11
    OBVIOUS
  <2> QED BY <2>1, StageSets DEF QueryNames, StageOf
<1>3. Queries = QueryNames
  <2>1. Queries = UNION {Stages[n] : n \in 1..11}
    BY StageSets DEF Queries, Range
  <2> QED BY <1>1, <1>2, <2>1
<1> QED BY <1>1, <1>2, <1>3 DEF Reads

LEMMA SearchFields == DOMAIN NoSearch =
  {"stage", "req", "now", "left", "rates", "todo", "got", "answer"}
BY DEF NoSearch

(* What a search holds after one of the edits the code makes.              *)
Shaped(s) == DOMAIN s = DOMAIN NoSearch /\ DOMAIN s.got = Reads

(* Two states of a search that hold the same of what was asked and read.   *)
SameRead(s, t, queries) ==
  s.req = t.req /\ s.now = t.now /\ \A x \in queries : s.got[x] = t.got[x]

LEMMA SameContext ==
  ASSUME NEW s, NEW t, SameRead(s, t, {"account"})
  PROVE  Ctx(s) = Ctx(t)
<1>1. s.req = t.req /\ s.got.account = t.got.account
  BY DEF SameRead
<1> QED BY <1>1, Zenon DEF Ctx

LEMMA SameHotels ==
  ASSUME NEW s, NEW t
  PROVE  /\ SameRead(s, t, {"canonical"}) => Canonicals(s) = Canonicals(t)
         /\ SameRead(s, t, {"codes", "mappings"}) => RuleHotels(s) = RuleHotels(t)
BY DEF SameRead, Canonicals, RuleHotels

LEMMA SameSeasons ==
  ASSUME NEW s, NEW t, SameRead(s, t, {"contracts2", "seasons"})
  PROVE  Covering(s) = Covering(t) /\ Usable(s) = Usable(t)
<1>1. /\ s.req = t.req /\ s.got.contracts2 = t.got.contracts2
      /\ s.got.seasons = t.got.seasons
  BY DEF SameRead
<1>2. Covering(s) = Covering(t)
  BY <1>1, Zenon DEF Covering, CoversStay
<1>3. Usable(s) = Usable(t)
  BY <1>1, <1>2, Zenon DEF Usable
<1> QED BY <1>2, <1>3

LEMMA SameScope ==
  ASSUME NEW s, NEW t, SameRead(s, t, {"canonical", "contracts2", "seasons"})
  PROVE  /\ \A rows : OfUsable(rows, s) = OfUsable(rows, t)
         /\ \A r : AuthoredScope(r, s) <=> AuthoredScope(r, t)
<1>1. /\ s.req = t.req /\ s.now = t.now /\ Covering(s) = Covering(t) /\ Usable(s) = Usable(t)
      /\ Canonicals(s) = Canonicals(t)
  BY SameSeasons, SameHotels DEF SameRead
<1>2. \A rows : OfUsable(rows, s) = OfUsable(rows, t)
  BY <1>1, Zenon DEF OfUsable
<1>3. \A r : AuthoredScope(r, s) <=> AuthoredScope(r, t)
  BY <1>1, Zenon DEF AuthoredScope
<1> QED BY <1>2, <1>3

(* The answer is made of what was read.                                    *)
LEMMA SameAnswer ==
  ASSUME NEW s, NEW t, NEW q, SameRead(s, t, Reads), s.rates = t.rates
  PROVE  /\ Offers(s) = Offers(t) /\ Applications(q, s) = Applications(q, t)
         /\ Answer(q, s) = Answer(q, t)
<1>1. /\ s.req = t.req /\ s.now = t.now
      /\ s.got.codes = t.got.codes /\ s.got.rules = t.got.rules /\ s.got.rates = t.got.rates
      /\ s.got.mappings2 = t.got.mappings2 /\ s.got.supplements = t.got.supplements
      /\ s.got.bands = t.got.bands /\ s.got.policies = t.got.policies
      /\ s.got.restrictions = t.got.restrictions /\ s.got.contracts2 = t.got.contracts2
      /\ s.got.oxr = t.got.oxr /\ s.got.ecb = t.got.ecb /\ s.got.promotions = t.got.promotions
  BY StageNames DEF SameRead, QueryNames
<1>2. Ctx(s) = Ctx(t) /\ Covering(s) = Covering(t)
  BY SameContext, SameSeasons, StageNames DEF SameRead, QueryNames
<1>3. \A r : PriceSourced(s, r) = PriceSourced(t, r)
  BY <1>1, <1>2, Zenon DEF PriceSourced
<1>4. \A c, u, r : AuthoredOffer(s, c, u, r) = AuthoredOffer(t, c, u, r)
  <2> SUFFICES ASSUME NEW c, NEW u, NEW r
               PROVE  AuthoredOffer(s, c, u, r) = AuthoredOffer(t, c, u, r)
    OBVIOUS
  <2> QED BY <1>1, <1>2, SMT DEF AuthoredOffer
<1>5. \A r : Available(s, r) <=> Available(t, r)
  BY <1>1, Zenon DEF Available
<1>6. Assemble(s) = Assemble(t)
  BY <1>1, <1>2, <1>4, <1>5, SMT DEF Assemble
<1>7. \A o : Display(s, o) = Display(t, o)
  BY <1>1, Zenon DEF Display
<1>8. Offers(s) = Offers(t)
  BY <1>3, <1>6, <1>7, Zenon DEF Offers
<1>9. Applications(q, s) = Applications(q, t)
  BY <1>1, <1>8, SMT DEF Applications
<1> QED BY <1>1, <1>8, <1>9, Zenon DEF Answer

-----------------------------------------------------------------------------
(* What a search found of a table rests on what it had read by then.       *)
ReadBy(query) == {x \in Reads : x = query \/ StageOf[x] < StageOf[query]}

LEMMA FoundSame ==
  ASSUME NEW q, NEW s, NEW t, NEW w, NEW query \in Queries, SameRead(s, t, ReadBy(query)),
         query = "record" => s.rates = t.rates, Found(q, s, w, query)
  PROVE  Found(q, t, w, query)
<1> USE StageNames DEF QueryNames
<1>1. s.req = t.req /\ s.now = t.now /\ (query \in Reads => s.got[query] = t.got[query])
  BY DEF SameRead, ReadBy
<1>2. ASSUME NEW x \in Reads, StageOf[x] < StageOf[query]
      PROVE  s.got[x] = t.got[x]
  BY <1>2 DEF SameRead, ReadBy
<1>3. CASE query = "canonical"
  BY <1>1, <1>3 DEF Found, CanonicalFound, Canonicals
<1>4. CASE query \in {"contracts", "contracts2", "mappings", "mappings2"}
  <2>1. s.got.canonical = t.got.canonical
    BY <1>2, <1>4 DEF StageOf
  <2>2. Canonicals(s) = Canonicals(t)
    BY <2>1 DEF Canonicals
  <2>3. \A c : ContractCovers(s, c) <=> ContractCovers(t, c)
    BY <1>1 DEF ContractCovers
  <2>4. \A rows : ContractsFound(s, w, rows) <=> ContractsFound(t, w, rows)
    BY <2>2, <2>3 DEF ContractsFound
  <2>5. \A contracts, rows :
          MappingsFound(s, w, contracts, rows) <=> MappingsFound(t, w, contracts, rows)
    BY <2>2, Zenon DEF MappingsFound
  <2>6. /\ query = "mappings" => s.got.contracts = t.got.contracts
        /\ query = "mappings2" => s.got.contracts2 = t.got.contracts2
    BY <1>2 DEF StageOf
  <2> QED BY <1>1, <1>4, <2>4, <2>5, <2>6 DEF Found
<1>5. CASE query = "rules"
  <2>1. /\ s.got.account = t.got.account /\ s.got.codes = t.got.codes
        /\ s.got.mappings = t.got.mappings
    BY <1>2, <1>5 DEF StageOf
  <2>2. Ctx(s) = Ctx(t) /\ RuleHotels(s) = RuleHotels(t)
    BY <1>1, <2>1, SameContext, SameHotels DEF SameRead
  <2>3. \A r : RuleApplies(s, r) <=> RuleApplies(t, r)
    BY <2>2 DEF RuleApplies
  <2>4. s.got.rules = t.got.rules
    BY <1>1, <1>5
  <2> QED BY <1>1, <1>5, <2>3, <2>4 DEF Found, RulesFound
<1>6. CASE query \in {"seasons", "bands"}
  <2>1. s.got.contracts2 = t.got.contracts2
    BY <1>2, <1>6 DEF StageOf
  <2> QED BY <1>1, <1>6, <2>1 DEF Found, SeasonsFound, BandsFound, SeasonCovers
<1>7. CASE query \in {"rates", "supplements", "restrictions", "policies"}
  <2>1. /\ s.got.canonical = t.got.canonical /\ s.got.contracts2 = t.got.contracts2
        /\ s.got.seasons = t.got.seasons
    BY <1>2, <1>7 DEF StageOf
  <2>2. /\ \A rows : OfUsable(rows, s) = OfUsable(rows, t)
        /\ \A r : AuthoredScope(r, s) <=> AuthoredScope(r, t)
    BY <1>1, <2>1, SameScope DEF SameRead
  <2>3. \A r : InForceFor(s, r) <=> InForceFor(t, r)
    BY <1>1 DEF InForceFor
  <2> QED BY <1>1, <1>7, <2>2, <2>3 DEF Found, UsableFound, RestrictionsFound, PoliciesFound
<1>8. CASE query \in {"oxr", "ecb"}
  BY <1>1, <1>8 DEF Found, SnapshotsFound
<1>9. CASE query = "record"
  <2>1. SameRead(s, t, Reads) /\ s.rates = t.rates
    BY <1>1, <1>2, <1>9 DEF SameRead, StageOf
  <2> QED BY <1>9, <2>1, SameAnswer DEF Found
<1> QED BY <1>3, <1>4, <1>5, <1>6, <1>7, <1>8, <1>9 DEF Found

(* What was found stays found as the tables go on.                         *)
Later(w, v) ==
  /\ w.clock \in Int /\ v.clock \in Int /\ w.clock <= v.clock
  /\ \A t \in Tables : w.ever[t] \subseteq v.ever[t] /\ v.always[t] \subseteq w.always[t]
  /\ w.applied \subseteq v.applied

LEMMA FoundKept ==
  ASSUME NEW q, NEW s, NEW w, NEW v, NEW query \in Queries, Later(w, v), s.now \in Int,
         \A r \in w.always.rules : RuleOk(r), Found(q, s, w, query)
  PROVE  Found(q, s, v, query)
<1>1. /\ \A t \in Tables : w.ever[t] \subseteq v.ever[t] /\ v.always[t] \subseteq w.always[t]
      /\ w.applied \subseteq v.applied
  BY DEF Later
<1>2. /\ v.always.hotels \subseteq w.always.hotels /\ v.always.mappings \subseteq w.always.mappings
      /\ w.ever.contracts \subseteq v.ever.contracts /\ v.always.contracts \subseteq w.always.contracts
      /\ w.ever.rules \subseteq v.ever.rules /\ v.always.rules \subseteq w.always.rules
      /\ w.ever.seasons \subseteq v.ever.seasons /\ v.always.seasons \subseteq w.always.seasons
      /\ w.ever.bands \subseteq v.ever.bands /\ v.always.bands \subseteq w.always.bands
  BY <1>1, TableNames
<1>3. /\ w.ever.restrictions \subseteq v.ever.restrictions
      /\ v.always.restrictions \subseteq w.always.restrictions
      /\ w.ever.policies \subseteq v.ever.policies /\ v.always.policies \subseteq w.always.policies
      /\ w.ever.snapshots \subseteq v.ever.snapshots /\ v.always.snapshots \subseteq w.always.snapshots
  BY <1>1, TableNames
<1>4. CanonicalFound(s, w) => CanonicalFound(s, v)
  BY <1>2, Zenon DEF CanonicalFound
<1>5. \A rows : ContractsFound(s, w, rows) => ContractsFound(s, v, rows)
  BY <1>2, Zenon DEF ContractsFound
<1>6. \A contracts, rows : MappingsFound(s, w, contracts, rows) => MappingsFound(s, v, contracts, rows)
  BY <1>2 DEF MappingsFound
<1>7. RulesFound(s, w) => RulesFound(s, v)
  <2> SUFFICES ASSUME RulesFound(s, w) PROVE RulesFound(s, v)
    OBVIOUS
  <2>1. w.clock \in Int /\ v.clock \in Int /\ w.clock <= v.clock
    BY DEF Later
  <2>2. \A r : RuleOk(r) => r.from \in Int \cup {None} /\ r.to \in Int \cup {None}
    BY DEF RuleOk, WindowOk
  <2>3. \A r \in s.got.rules :
          /\ r \in v.ever.rules /\ RuleOk(r) /\ r.status = "ACTIVE"
          /\ r.from = None \/ r.from <= v.clock
          /\ r.to = None \/ r.to > s.now
    BY <1>2, <2>1, <2>2 DEF RulesFound
  <2>4. ASSUME NEW r \in v.always.rules, r.tenant = s.req.actor.tenant, r.status = "ACTIVE",
               RuleApplies(s, r), r.from = None \/ r.from <= s.now, r.to = None \/ r.to > v.clock
        PROVE  r \in s.got.rules
    <3>1. r.to = None \/ r.to > w.clock
      BY <1>2, <2>1, <2>2, <2>4
    <3> QED BY <1>2, <2>4, <3>1 DEF RulesFound
  <2> QED BY <2>3, <2>4 DEF RulesFound
<1>8. SeasonsFound(s, w) => SeasonsFound(s, v)
  BY <1>2 DEF SeasonsFound
<1>9. BandsFound(s, w) => BandsFound(s, v)
  BY <1>2 DEF BandsFound
<1>10. \A table \in {"rates", "supplements"} : UsableFound(s, w, table) => UsableFound(s, v, table)
  <2> TAKE table \in {"rates", "supplements"}
  <2>1. w.ever[table] \subseteq v.ever[table] /\ v.always[table] \subseteq w.always[table]
    BY <1>1, TableNames
  <2> QED BY <2>1 DEF UsableFound, OfUsable
<1>11. RestrictionsFound(s, w) => RestrictionsFound(s, v)
  BY <1>3, Zenon DEF RestrictionsFound
<1>12. PoliciesFound(s, w) => PoliciesFound(s, v)
  BY <1>3, Zenon DEF PoliciesFound
<1>13. \A p, rows : SnapshotsFound(s, w, p, rows) => SnapshotsFound(s, v, p, rows)
  BY <1>3, Zenon DEF SnapshotsFound
<1> QED BY <1>1, <1>4, <1>5, <1>6, <1>7, <1>8, <1>9, <1>10, <1>11, <1>12, <1>13 DEF Found

LEMMA NeededAt ==
  ASSUME NEW q, NEW s
  PROVE  /\ Needed(1, q, s) = {"account"} /\ Needed(2, q, s) = {"hotels"}
         /\ Needed(3, q, s) = IF s.rates = {} THEN {"canonical"} ELSE {"codes", "canonical"}
         /\ Needed(4, q, s) = IF Canonicals(s) = {} THEN {} ELSE {"contracts"}
         /\ Needed(5, q, s) = IF s.got.contracts = {} THEN {} ELSE {"mappings"}
         /\ Needed(6, q, s) = IF RuleHotels(s) = {} THEN {"rules"} ELSE {"rules", "promotions"}
         /\ Needed(7, q, s) = IF Canonicals(s) = {} THEN {} ELSE {"contracts2"}
         /\ Needed(8, q, s) = IF s.got.contracts2 = {} THEN {}
                              ELSE {"seasons", "bands", "mappings2"}
         /\ Needed(9, q, s) = IF Usable(s) = {} THEN {}
                              ELSE {"rates", "supplements", "restrictions", "policies"}
         /\ Needed(10, q, s) = IF s.req.display = None THEN {} ELSE {"oxr", "ecb"}
         /\ Needed(11, q, s) = IF Applications(q, s) = {} THEN {} ELSE {"record"}
<1> DEFINE Rated == IF s.rates = {} THEN {"canonical"} ELSE {"codes", "canonical"}
<1>1. Needed(1, q, s) = {"account"}
  BY StageSets DEF Needed
<1>2. Needed(2, q, s) = {"hotels"}
  BY StageSets DEF Needed
<1>3. Needed(3, q, s) = Rated
  BY StageSets DEF Needed
<1>4. Needed(4, q, s) = IF Canonicals(s) = {} THEN {} ELSE {"contracts"}
  BY StageSets DEF Needed
<1>5. Needed(5, q, s) = IF s.got.contracts = {} THEN {} ELSE {"mappings"}
  BY StageSets DEF Needed
<1>6. Needed(6, q, s) = IF RuleHotels(s) = {} THEN {"rules"} ELSE {"rules", "promotions"}
  BY StageSets DEF Needed
<1>7. Needed(7, q, s) = IF Canonicals(s) = {} THEN {} ELSE {"contracts2"}
  BY StageSets DEF Needed
<1>8. Needed(8, q, s) = IF s.got.contracts2 = {} THEN {} ELSE {"seasons", "bands", "mappings2"}
  BY StageSets DEF Needed
<1>9. Needed(9, q, s) = IF Usable(s) = {} THEN {}
                       ELSE {"rates", "supplements", "restrictions", "policies"}
  BY StageSets DEF Needed
<1>10. Needed(10, q, s) = IF s.req.display = None THEN {} ELSE {"oxr", "ecb"}
  BY StageSets DEF Needed
<1>11. Needed(11, q, s) = IF Applications(q, s) = {} THEN {} ELSE {"record"}
  BY StageSets DEF Needed
<1> QED BY <1>1, <1>2, <1>3, <1>4, <1>5, <1>6, <1>7, <1>8, <1>9, <1>10, <1>11

(* A statement that is not needed has nothing to find.                     *)
LEMMA Skipped ==
  ASSUME NEW q, NEW s, NEW w, NEW query \in Queries, query \notin Needed(StageOf[query], q, s),
         query \in Reads => s.got[query] = {}
  PROVE  Found(q, s, w, query)
<1> USE StageNames DEF QueryNames
<1>1. CASE query \in {"account", "hotels", "codes", "promotions"}
  BY <1>1 DEF Found
<1>2. query # "canonical"
  BY NeededAt DEF StageOf
<1>3. query # "rules"
  BY NeededAt DEF StageOf
<1>4. CASE query \in {"contracts", "contracts2"}
  <2>1. Canonicals(s) = {}
    BY <1>4, NeededAt DEF StageOf
  <2> QED BY <1>4, <2>1 DEF Found, ContractsFound
<1>5. CASE query = "mappings"
  <2>1. s.got.contracts = {}
    BY <1>5, NeededAt DEF StageOf
  <2> QED BY <1>5, <2>1 DEF Found, MappingsFound
<1>6. CASE query \in {"seasons", "bands", "mappings2"}
  <2>1. s.got.contracts2 = {}
    BY <1>6, NeededAt DEF StageOf
  <2> QED BY <1>6, <2>1 DEF Found, MappingsFound, SeasonsFound, BandsFound, IdsDistinct
<1>7. CASE query \in {"rates", "supplements", "restrictions", "policies"}
  <2>1. Usable(s) = {}
    BY <1>7, NeededAt DEF StageOf
  <2>2. \A rows : OfUsable(rows, s) = {}
    BY <2>1 DEF OfUsable
  <2>3. \A r : ~AuthoredScope(r, s)
    BY <2>1 DEF AuthoredScope
  <2> QED BY <1>7, <2>2, <2>3 DEF Found, UsableFound, RestrictionsFound, PoliciesFound
<1>8. CASE query \in {"oxr", "ecb"}
  <2>1. s.req.display = None
    BY <1>8, NeededAt DEF StageOf
  <2> QED BY <1>8, <2>1, FS_EmptySet DEF Found, SnapshotsFound
<1>9. CASE query = "record"
  <2>1. Applications(q, s) = {}
    BY <1>9, NeededAt DEF StageOf
  <2> QED BY <1>9, <2>1 DEF Found
<1> QED BY <1>1, <1>2, <1>3, <1>4, <1>5, <1>6, <1>7, <1>8, <1>9

LEMMA FirstStage ==
  ASSUME NEW S \in SUBSET (1..11), S # {}
  PROVE  \E n \in S : \A m \in S : n <= m
<1>1. S \subseteq Nat /\ S # {}
  OBVIOUS
<1>2. PICK n \in S : \A m \in S : ~(<<m, n>> \in OpToRel(<, Nat))
  BY <1>1, WFMin, NatLessThanWellFounded, Zenon
<1>3. \A m \in S : ~(m < n)
  BY <1>1, <1>2, Zenon DEF OpToRel
<1> QED BY <1>3

LEMMA NeededWithin ==
  ASSUME NEW q, NEW s, NEW n \in 1..11
  PROVE  Needed(n, q, s) \subseteq Stages[n]
<1>1. \/ n = 1 \/ n = 2 \/ n = 3 \/ n = 4 \/ n = 5 \/ n = 6 \/ n = 7 \/ n = 8 \/ n = 9
      \/ n = 10 \/ n = 11
  OBVIOUS
<1> QED BY <1>1, NeededAt, StageSets

(* A search goes to the next stage that has something to read.             *)
Going(q, s) == SearchFormed(q, s) /\ s.stage # 0

SameButStage(s, t) ==
  /\ Shaped(t) /\ t.req = s.req /\ t.now = s.now /\ t.left = s.left /\ t.rates = s.rates
  /\ t.got = s.got

LEMMA AdvanceTo ==
  ASSUME NEW q, NEW s, Going(q, s)
  PROVE  LET t == Advance(q, s) IN
         /\ SameButStage(s, t)
         /\ \/ /\ t.stage \in 1..11 /\ t.stage > s.stage
               /\ t.todo = Needed(t.stage, q, s) /\ t.answer = s.answer
               /\ \A n \in 1..11 : n > s.stage /\ n < t.stage => Needed(n, q, s) = {}
            \/ /\ t.stage = 0 /\ t.todo = s.todo /\ t.answer = Answer(q, s)
               /\ \A n \in 1..11 : n > s.stage => Needed(n, q, s) = {}
<1> DEFINE later == {n \in DOMAIN Stages : n > s.stage /\ Needed(n, q, s) # {}}
           next == CHOOSE n \in later : \A m \in later : n <= m
           t == Advance(q, s)
<1>1. Shaped(s) /\ s.stage \in 1..11
  BY DEF Going, SearchFormed, Shaped
<1>2. DOMAIN Stages = 1..11
  BY StageSets
<1>3. CASE later # {}
  <2>1. later \in SUBSET (1..11)
    BY <1>2
  <2>2. next \in later /\ \A m \in later : next <= m
    <3> HIDE DEF later
    <3> QED BY <1>3, <2>1, FirstStage, Zenon
  <2>3. t = [s EXCEPT !.stage = next, !.todo = Needed(next, q, s)]
    BY <1>3, Zenon DEF Advance
  <2>4. next \in 1..11 /\ next > s.stage
        /\ \A n \in 1..11 : n > s.stage /\ n < next => Needed(n, q, s) = {}
    <3>1. next \in 1..11 /\ next > s.stage
      BY <1>2, <2>2
    <3>2. \A n \in 1..11 : n > s.stage /\ Needed(n, q, s) # {} => next <= n
      BY <1>2, <2>2
    <3> HIDE DEF next, later
    <3> QED BY <3>1, <3>2
  <2> HIDE DEF next, later, t
  <2>5. SameButStage(s, t) /\ t.stage = next /\ t.todo = Needed(next, q, s) /\ t.answer = s.answer
    BY <1>1, <2>3, SearchFields DEF SameButStage, Shaped
  <2> QED BY <2>4, <2>5 DEF t
<1>4. CASE later = {}
  <2>1. t = [s EXCEPT !.stage = 0, !.answer = Answer(q, s)]
    BY <1>4, Zenon DEF Advance
  <2>2. \A n \in 1..11 : n > s.stage => Needed(n, q, s) = {}
    BY <1>2, <1>4
  <2> HIDE DEF later, t
  <2>3. SameButStage(s, t) /\ t.stage = 0 /\ t.todo = s.todo /\ t.answer = Answer(q, s)
    BY <1>1, <2>1, SearchFields DEF SameButStage, Shaped
  <2> QED BY <2>2, <2>3 DEF t
<1> QED BY <1>3, <1>4

LEMMA ProceedFormed ==
  ASSUME NEW q, NEW s, Going(q, s), NEW t, t = IF s.todo = {} THEN Advance(q, s) ELSE s
  PROVE  SearchFormed(q, t) /\ SameButStage(s, t)
<1>1. CASE s.todo # {}
  BY <1>1 DEF Going, SearchFormed, SameButStage, Shaped
<1>2. CASE s.todo = {}
  <2>1. t = Advance(q, s)
    BY <1>2
  <2>2. SameButStage(s, t)
    BY <2>1, AdvanceTo
  <2>3. s.answer.outcome = "NONE" /\ s.stage \in 1..11 /\ s.req \in Requests /\ s.now \in Nat
    BY DEF Going, SearchFormed
  <2>4. CASE /\ t.stage \in 1..11 /\ t.stage > s.stage
             /\ t.todo = Needed(t.stage, q, s) /\ t.answer = s.answer
    <3>1. t.todo \subseteq {x \in Queries : StageOf[x] = t.stage}
      BY <2>4, NeededWithin, StageNames
    <3>2. \A x \in Reads : ~Behind(t, x) => t.got[x] = {}
      <4> TAKE x \in Reads
      <4>1. StageOf[x] \in 1..11
        BY StageNames
      <4>2. Behind(s, x) => StageOf[x] < t.stage
        BY <2>3, <2>4, <4>1 DEF Behind
      <4> QED BY <2>2, <4>2 DEF Behind, Going, SearchFormed, SameButStage
    <3>3. /\ DOMAIN t.answer = DOMAIN NoAnswer /\ t.answer.outcome = "NONE"
          /\ t.answer = [NoAnswer EXCEPT !.outcome = t.answer.outcome]
      BY <2>3, <2>4 DEF Going, SearchFormed
    <3> QED BY <2>2, <2>3, <2>4, <3>1, <3>2, <3>3 DEF SearchFormed, SameButStage, Shaped
  <2>5. CASE t.stage = 0 /\ t.todo = s.todo /\ t.answer = Answer(q, s)
    <3>1. Answer(q, s) = Answer(q, t)
      BY <2>2, SameAnswer DEF SameButStage, SameRead
    <3>2. Answer(q, t).outcome = "OK" /\ DOMAIN Answer(q, t) = DOMAIN NoAnswer
      BY DEF Answer, NoAnswer
    <3>3. \A x \in Reads : Behind(t, x)
      BY <2>5, <3>1, <3>2 DEF Behind
    <3> QED BY <1>2, <2>2, <2>3, <2>5, <3>1, <3>2, <3>3 DEF SearchFormed, SameButStage, Shaped
  <2> QED BY <2>1, <2>2, <2>4, <2>5, AdvanceTo
<1> QED BY <1>1, <1>2

LEMMA ProceedFound ==
  ASSUME NEW q, NEW s, Going(q, s), NEW t, t = IF s.todo = {} THEN Advance(q, s) ELSE s, NEW w,
         \A x \in Queries : Behind(s, x) => Found(q, s, w, x)
  PROVE  \A x \in Queries : Behind(t, x) => Found(q, t, w, x)
<1>1. CASE s.todo # {}
  BY <1>1
<1>2. CASE s.todo = {}
  <2>1. t = Advance(q, s)
    BY <1>2
  <2>2. SameButStage(s, t)
    BY <2>1, AdvanceTo
  <2>3. SUFFICES ASSUME NEW x \in Queries, Behind(t, x)
                 PROVE  Found(q, s, w, x)
    <3>1. \A x \in Queries : SameRead(s, t, ReadBy(x)) /\ s.rates = t.rates
      BY <2>2 DEF SameRead, SameButStage
    <3> QED BY <3>1, FoundSame
  <2>4. s.answer.outcome = "NONE" /\ s.stage \in 1..11 /\ StageOf[x] \in 1..11
    BY StageNames DEF Going, SearchFormed
  <2>5. CASE Behind(s, x)
    BY <2>3, <2>5
  <2>6. CASE ~Behind(s, x)
    <3>1. StageOf[x] > s.stage
      BY <1>2, <2>4, <2>6 DEF Behind
    <3>2. x \notin Needed(StageOf[x], q, s)
      <4>1. CASE /\ t.stage \in 1..11 /\ t.stage > s.stage
                 /\ t.todo = Needed(t.stage, q, s) /\ t.answer = s.answer
                 /\ \A n \in 1..11 : n > s.stage /\ n < t.stage => Needed(n, q, s) = {}
        BY <2>3, <2>4, <3>1, <4>1 DEF Behind
      <4>2. CASE \A n \in 1..11 : n > s.stage => Needed(n, q, s) = {}
        BY <2>4, <3>1, <4>2
      <4> QED BY <2>1, <4>1, <4>2, AdvanceTo
    <3>3. x \in Reads => s.got[x] = {}
      BY <2>6 DEF Going, SearchFormed
    <3> QED BY <3>2, <3>3, Skipped
  <2> QED BY <2>5, <2>6
<1> QED BY <1>1, <1>2

LEMMA ResultAt ==
  ASSUME NEW s
  PROVE  /\ Result("account", s) = ResolveActive(s) /\ Result("codes", s) = ResolveCodes(s)
         /\ Result("canonical", s) = ResolveCanonical(s)
         /\ Result("contracts", s) = FindActiveContracts(s)
         /\ Result("contracts2", s) = FindActiveContracts(s)
         /\ Result("mappings", s) = FindMappings(s.got.contracts, s)
         /\ Result("mappings2", s) = FindMappings(s.got.contracts2, s)
         /\ Result("rules", s) = FindRules(s) /\ Result("promotions", s) = FindPromotions(s)
         /\ Result("seasons", s) = OverlappingSeasons(s)
         /\ Result("bands", s) = FindChildAgeBands(s)
         /\ Result("rates", s) = FindBaseRates(s)
         /\ Result("supplements", s) = FindOccupancySupplements(s)
         /\ Result("restrictions", s) = FindActiveRestrictions(s)
         /\ Result("policies", s) = FindActivePolicies(s)
         /\ Result("oxr", s) = FindFreshSnapshots("OXR", s)
         /\ Result("ecb", s) = FindFreshSnapshots("ECB", s)
BY DEF Result

(* What has been there all along is there, and what is there has been.     *)
LEMMA WorldSeen ==
  ASSUME TablesSeen, NEW q \in Searches, NEW t \in Tables
  PROVE  World(q).always[t] \subseteq db[t] /\ db[t] \subseteq World(q).ever[t]
BY DEF TablesSeen, World

(* Each statement finds what it is there for.                              *)
LEMMA MappingsRead ==
  ASSUME TablesSeen, MappingsOk(db.mappings), IdsDistinct(db.hotels), NEW q \in Searches, NEW s,
         NEW contracts
  PROVE  MappingsFound(s, World(q), contracts, FindMappings(contracts, s))
<1> DEFINE w == World(q)
           Joins(h, m) == /\ h.supplier \in {c.supplier : c \in contracts}
                          /\ m.hotel \in Canonicals(s) /\ m.supplierHotel = h.id /\ InForce(m)
           Pair(h, m) == [supplier |-> h.supplier, hotel |-> m.hotel, id |-> h.id, code |-> h.code]
           rows == FindMappings(contracts, s)
<1>1. w.always.hotels \subseteq db.hotels /\ w.always.mappings \subseteq db.mappings
  BY WorldSeen, TableNames
<1>2. \A x \in rows : \E h \in db.hotels, m \in db.mappings : Joins(h, m) /\ x = Pair(h, m)
  BY Zenon DEF FindMappings
<1>3. \A h \in db.hotels, m \in db.mappings : Joins(h, m) => Pair(h, m) \in rows
  <2> TAKE h \in db.hotels, m \in db.mappings
  <2> HAVE Joins(h, m)
  <2> DEFINE pair == <<h, m>>
  <2>1. pair \in db.hotels \X db.mappings /\ pair[1] = h /\ pair[2] = m
    OBVIOUS
  <2> HIDE DEF pair
  <2>2. pair \in {p \in db.hotels \X db.mappings :
                   /\ p[1].supplier \in {c.supplier : c \in contracts}
                   /\ p[2].hotel \in Canonicals(s)
                   /\ p[2].supplierHotel = p[1].id /\ InForce(p[2])}
    BY <2>1
  <2> QED BY <2>1, <2>2, Zenon DEF FindMappings
<1>4. ASSUME NEW x \in rows
      PROVE  /\ \A h \in w.always.hotels : h.id = x.id => h.supplier = x.supplier
             /\ \A m \in w.always.mappings : m.supplierHotel = x.id /\ InForce(m) => m.hotel = x.hotel
  <2>1. PICK h \in db.hotels, m \in db.mappings : Joins(h, m) /\ x = Pair(h, m)
    BY <1>2
  <2>2. x.id = h.id /\ x.supplier = h.supplier /\ x.hotel = m.hotel /\ m.supplierHotel = x.id
        /\ InForce(m)
    BY <2>1
  <2>3. \A g \in db.hotels : g.id = x.id => g = h
    BY <2>2 DEF IdsDistinct
  <2>4. \A n \in db.mappings : n.supplierHotel = x.id /\ InForce(n) => n = m
    BY <2>2 DEF MappingsOk
  <2> QED BY <1>1, <2>2, <2>3, <2>4
<1>5. ASSUME NEW h \in w.always.hotels, NEW m \in w.always.mappings, Joins(h, m)
      PROVE  h.id \in {x.id : x \in rows}
  <2>1. Pair(h, m) \in rows /\ Pair(h, m).id = h.id
    BY <1>1, <1>3, <1>5
  <2> QED BY <2>1
<1> QED BY <1>4, <1>5 DEF MappingsFound

LEMMA RulesRead ==
  ASSUME TablesSeen, NEW q \in Searches, NEW s, \A r \in db.rules : RuleOk(r),
         IsFiniteSet(db.rules), IdsDistinct(db.rules), clock \in Nat, s.now \in Nat, s.now <= clock,
         s.got.rules = FindRules(s)
  PROVE  RulesFound(s, World(q))
<1> DEFINE w == World(q)
<1>1. w.always.rules \subseteq db.rules /\ db.rules \subseteq w.ever.rules /\ w.clock = clock
  BY WorldSeen, TableNames DEF World
<1>2. s.got.rules \in SUBSET db.rules
  BY DEF FindRules
<1>3. IsFiniteSet(s.got.rules) /\ IdsDistinct(s.got.rules)
  BY <1>2, FS_Subset DEF IdsDistinct
<1>4. \A r \in db.rules : r.from \in Int \cup {None} /\ r.to \in Int \cup {None}
  BY DEF RuleOk, WindowOk
<1>5. \A r \in db.rules : /\ InWindow(r) => r.to = None \/ r.to > s.now
                          /\ (r.from = None \/ r.from <= s.now) /\ (r.to = None \/ r.to > clock)
                             => InWindow(r)
  BY <1>4 DEF InWindow
<1>6. \A r \in s.got.rules :
        /\ r \in w.ever.rules /\ RuleOk(r) /\ r.status = "ACTIVE"
        /\ r.from = None \/ r.from <= w.clock
        /\ r.to = None \/ r.to > s.now
  BY <1>1, <1>5 DEF FindRules, InWindow
<1>7. \A r \in w.always.rules :
        /\ r.tenant = s.req.actor.tenant /\ r.status = "ACTIVE" /\ RuleApplies(s, r)
        /\ r.from = None \/ r.from <= s.now
        /\ r.to = None \/ r.to > w.clock
        => r \in s.got.rules
  BY <1>1, <1>5 DEF FindRules, RuleApplies
<1> QED BY <1>3, <1>6, <1>7 DEF RulesFound

LEMMA ReadFound ==
  ASSUME CatalogueInductive, IdsDistinct(db.hotels), NEW q \in Searches, NEW s, NEW t,
         NEW query \in Reads, SameRead(s, t, ReadBy(query) \ {query}),
         t.got[query] = Result(query, s), s.req \in Requests,
         clock \in Nat, s.now \in Nat, s.now <= clock
  PROVE  Found(q, t, World(q), query)
<1> DEFINE w == World(q)
           rows == t.got[query]
<1> USE StageNames DEF QueryNames
<1>1. TablesSeen /\ TablesOk(db) /\ RowsFinite
  BY DEF CatalogueInductive
<1>2. \A table \in Tables : w.always[table] \subseteq db[table] /\ db[table] \subseteq w.ever[table]
  BY <1>1, WorldSeen
<1>3. /\ w.always.hotels \subseteq db.hotels /\ w.always.mappings \subseteq db.mappings
      /\ w.always.contracts \subseteq db.contracts /\ db.contracts \subseteq w.ever.contracts
      /\ w.always.seasons \subseteq db.seasons /\ db.seasons \subseteq w.ever.seasons
      /\ w.always.bands \subseteq db.bands /\ db.bands \subseteq w.ever.bands
  BY <1>2, TableNames
<1>4. /\ w.always.restrictions \subseteq db.restrictions /\ db.restrictions \subseteq w.ever.restrictions
      /\ w.always.policies \subseteq db.policies /\ db.policies \subseteq w.ever.policies
      /\ w.always.snapshots \subseteq db.snapshots /\ db.snapshots \subseteq w.ever.snapshots
  BY <1>2, TableNames
<1>5. s.req = t.req /\ s.now = t.now
      /\ \A x \in Reads : StageOf[x] < StageOf[query] => s.got[x] = t.got[x]
  BY StageNames DEF SameRead, ReadBy
<1>6. CASE query = "canonical"
  <2>1. rows = ResolveCanonical(t)
    BY <1>5, <1>6, ResultAt DEF ResolveCanonical
  <2>2. ASSUME NEW h \in db.hotels, NEW m \in db.mappings, h.supplier = Hotelbeds,
               h.code \in Range(t.req.hotels), m.supplierHotel = h.id, InForce(m)
        PROVE  m.hotel \in {l.hotel : l \in rows}
    <3> DEFINE pair == <<h, m>>
               link == [code |-> h.code, hotel |-> m.hotel]
    <3>1. pair \in db.hotels \X db.mappings /\ pair[1] = h /\ pair[2] = m /\ link.hotel = m.hotel
      OBVIOUS
    <3>2. link = [code |-> pair[1].code, hotel |-> pair[2].hotel]
      OBVIOUS
    <3> HIDE DEF pair, link
    <3>3. pair \in {p \in db.hotels \X db.mappings :
                     /\ p[1].supplier = Hotelbeds /\ p[1].code \in Range(t.req.hotels)
                     /\ p[2].supplierHotel = p[1].id /\ InForce(p[2])}
      BY <2>2, <3>1
    <3>4. link \in rows
      BY <2>1, <3>2, <3>3, Zenon DEF ResolveCanonical
    <3> QED BY <3>1, <3>4
  <2>3. CanonicalFound(t, w)
    BY <1>3, <1>6, <2>2 DEF CanonicalFound, Canonicals
  <2> QED BY <1>6, <2>3 DEF Found
<1>7. CASE query \in {"contracts", "contracts2"}
  <2>1. Canonicals(s) = Canonicals(t)
    BY <1>5, <1>7 DEF Canonicals, StageOf
  <2>2. rows = FindActiveContracts(s)
    BY <1>7, ResultAt
  <2>3. ContractsFound(t, w, rows)
    BY <1>3, <1>5, <2>1, <2>2 DEF ContractsFound, FindActiveContracts, ContractCovers
  <2> QED BY <1>7, <2>3 DEF Found
<1>8. CASE query \in {"mappings", "mappings2"}
  <2>1. /\ Canonicals(s) = Canonicals(t)
        /\ query = "mappings" => s.got.contracts = t.got.contracts
        /\ query = "mappings2" => s.got.contracts2 = t.got.contracts2
    BY <1>5, <1>8 DEF Canonicals, StageOf
  <2>2. \A contracts : FindMappings(contracts, s) = FindMappings(contracts, t)
    BY <2>1, Zenon DEF FindMappings
  <2>3. \A contracts : MappingsFound(t, w, contracts, FindMappings(contracts, t))
    BY <1>1, MappingsRead DEF TablesOk
  <2> QED BY <1>8, <2>1, <2>2, <2>3, ResultAt DEF Found
<1>9. CASE query = "rules"
  <2>1. Ctx(s) = Ctx(t) /\ RuleHotels(s) = RuleHotels(t)
    BY <1>5, <1>9, SameContext, SameHotels DEF SameRead, StageOf
  <2>2. FindRules(t) = FindRules(s)
    BY <1>5, <2>1, Zenon DEF FindRules
  <2>3. t.got.rules = FindRules(t)
    BY <1>9, <2>2, ResultAt
  <2> QED BY <1>1, <1>5, <1>9, <2>3, RulesRead DEF Found, TablesOk, RowsFinite
<1>10. CASE query \in {"seasons", "bands"}
  <2>1. s.got.contracts2 = t.got.contracts2
    BY <1>5, <1>10 DEF StageOf
  <2>2. CASE query = "seasons"
    <3>1. t.got.seasons = OverlappingSeasons(t)
      BY <1>5, <2>1, <2>2, ResultAt DEF OverlappingSeasons
    <3>2. t.got.seasons \in SUBSET db.seasons
      BY <3>1 DEF OverlappingSeasons
    <3>3. IdsDistinct(t.got.seasons)
      BY <1>1, <3>2 DEF TablesOk, IdsDistinct
    <3>4. \A u \in w.always.seasons :
            u.contract \in {c.id : c \in t.got.contracts2} /\ SeasonCovers(t, u) => u \in t.got.seasons
      <4>1. \A u \in db.seasons : u.from \in Int /\ u.to \in Int
        BY <1>1 DEF TablesOk, SeasonOk
      <4>2. t.req.from \in Int /\ t.req.to \in Int
        BY <1>5, RequestsAssumption
      <4> QED BY <1>3, <3>1, <4>1, <4>2 DEF OverlappingSeasons, SeasonCovers
    <3> QED BY <1>3, <2>2, <3>2, <3>3, <3>4 DEF Found, SeasonsFound
  <2>3. CASE query = "bands"
    <3>1. t.got.bands = FindChildAgeBands(t)
      BY <2>1, <2>3, ResultAt DEF FindChildAgeBands
    <3> QED BY <1>3, <2>3, <3>1 DEF Found, BandsFound, FindChildAgeBands
  <2> QED BY <1>10, <2>2, <2>3
<1>11. CASE query \in {"rates", "supplements", "restrictions", "policies"}
  <2>1. /\ s.got.canonical = t.got.canonical /\ s.got.contracts2 = t.got.contracts2
        /\ s.got.seasons = t.got.seasons
    BY <1>5, <1>11 DEF StageOf
  <2>2. /\ \A set : OfUsable(set, s) = OfUsable(set, t)
        /\ \A r : AuthoredScope(r, s) <=> AuthoredScope(r, t)
    BY <1>5, <2>1, SameScope DEF SameRead
  <2>3. CASE query \in {"rates", "supplements"}
    <3>1. rows = OfUsable(db[query], t)
      BY <2>2, <2>3, ResultAt DEF FindBaseRates, FindOccupancySupplements
    <3>2. w.always[query] \subseteq db[query] /\ db[query] \subseteq w.ever[query]
      BY <1>2, <2>3, TableNames
    <3>3. UsableFound(t, w, query)
      BY <3>1, <3>2 DEF UsableFound, OfUsable
    <3> QED BY <2>3, <3>3 DEF Found
  <2>4. \A r : AuthoredScope(r, t) => InForceFor(t, r)
    BY DEF AuthoredScope, InForceFor
  <2>5. CASE query = "restrictions"
    <3>1. t.got.restrictions = {r \in db.restrictions : AuthoredScope(r, t) /\ r.day \in t.req.from..t.req.to}
      BY <1>5, <2>2, <2>5, ResultAt DEF FindActiveRestrictions
    <3> QED BY <1>4, <2>4, <2>5, <3>1 DEF Found, RestrictionsFound
  <2>6. CASE query = "policies"
    <3>1. t.got.policies = {p \in db.policies : AuthoredScope(p, t)}
      BY <2>2, <2>6, ResultAt DEF FindActivePolicies
    <3> QED BY <1>4, <2>4, <2>6, <3>1 DEF Found, PoliciesFound
  <2> QED BY <1>11, <2>3, <2>5, <2>6
<1>12. ASSUME NEW p \in {"OXR", "ECB"}, rows = FindFreshSnapshots(p, s)
       PROVE  SnapshotsFound(t, w, p, rows)
  <2>1. rows \in SUBSET db.snapshots
    BY <1>12 DEF FindFreshSnapshots
  <2>2. IsFiniteSet(rows)
    <3> HIDE DEF rows
    <3> QED BY <1>1, <2>1, FS_Subset DEF RowsFinite
  <2>3. \A r \in rows : r \in w.ever.snapshots /\ r.at \in Int
    BY <1>1, <1>4, <2>1 DEF TablesOk, SnapshotOk
  <2>4. \A r \in w.always.snapshots : r.provider = p /\ r.at >= t.now - Ttl[p] => r \in rows
    BY <1>4, <1>5, <1>12 DEF FindFreshSnapshots
  <2> QED BY <2>2, <2>3, <2>4, Zenon DEF SnapshotsFound
<1>13. CASE query \in {"oxr", "ecb"}
  BY <1>12, <1>13, ResultAt DEF Found
<1>14. CASE query \in {"account", "codes", "promotions"}
  BY <1>14 DEF Found
<1> QED BY <1>6, <1>7, <1>8, <1>9, <1>10, <1>11, <1>13, <1>14

(* The states of a search that has read nothing.                           *)
Reset(req, outcome) == [NoSearch EXCEPT !.req = req, !.answer.outcome = outcome]

Begun(req) == [NoSearch EXCEPT !.stage = 1, !.todo = Stages[1], !.req = req, !.now = clock,
                               !.left = req.hotels]

LEMMA FreshFormed ==
  ASSUME NEW q, NEW s, NEW outcome, outcome # "OK",
         DOMAIN s = DOMAIN NoSearch, s.stage = 0, s.todo = {}, s.now = 0,
         s.got = NoSearch.got, s.answer = [NoAnswer EXCEPT !.outcome = outcome]
  PROVE  SearchFormed(q, s) /\ \A x \in Queries : ~Behind(s, x)
<1>1. DOMAIN s.got = Reads /\ \A x \in Reads : s.got[x] = {}
  BY DEF NoSearch
<1>2. s.answer.outcome = outcome /\ DOMAIN s.answer = DOMAIN NoAnswer
  BY DEF NoAnswer
<1>3. \A x \in Queries : ~Behind(s, x)
  <2>1. \A x \in Queries : StageOf[x] \in 1..11
    BY StageNames
  <2> QED BY <1>2, <2>1 DEF Behind
<1>4. SearchFormed(q, s)
  BY <1>1, <1>2 DEF SearchFormed
<1> QED BY <1>3, <1>4

LEMMA ResetFormed ==
  ASSUME NEW q, NEW req, NEW outcome, outcome # "OK"
  PROVE  /\ SearchFormed(q, Reset(req, outcome)) /\ Reset(req, outcome).now = 0
         /\ Reset(req, outcome).rates = {}
         /\ \A x \in Queries : ~Behind(Reset(req, outcome), x)
<1> DEFINE s == Reset(req, outcome)
<1>1. /\ DOMAIN s = DOMAIN NoSearch /\ s.stage = 0 /\ s.todo = {} /\ s.now = 0 /\ s.rates = {}
      /\ s.got = NoSearch.got /\ s.answer = [NoAnswer EXCEPT !.outcome = outcome]
  BY DEF Reset, NoSearch
<1> HIDE DEF s
<1>2. SearchFormed(q, s) /\ \A x \in Queries : ~Behind(s, x)
  BY <1>1, FreshFormed
<1> QED BY <1>1, <1>2 DEF s

LEMMA BegunFormed ==
  ASSUME NEW q, NEW req \in Requests, clock \in Nat
  PROVE  /\ SearchFormed(q, Begun(req)) /\ Begun(req).now = clock /\ Begun(req).rates = {}
         /\ \A x \in Queries : ~Behind(Begun(req), x)
<1> DEFINE s == Begun(req)
<1>1. /\ DOMAIN s = DOMAIN NoSearch /\ s.stage = 1 /\ s.todo = {"account"} /\ s.now = clock
      /\ s.req = req /\ s.rates = {} /\ s.got = NoSearch.got /\ s.answer = NoAnswer
  BY StageSets DEF Begun, NoSearch
<1>2. DOMAIN s.got = Reads /\ \A x \in Reads : s.got[x] = {}
  BY <1>1 DEF NoSearch
<1>3. /\ s.answer.outcome = "NONE" /\ DOMAIN s.answer = DOMAIN NoAnswer
      /\ s.answer = [NoAnswer EXCEPT !.outcome = s.answer.outcome]
  BY <1>1 DEF NoAnswer
<1>4. \A x \in Queries : StageOf[x] \in 1..11 /\ (StageOf[x] = 1 <=> x = "account")
  BY StageNames, StageSets
<1>5. "account" \in Queries
  BY StageNames DEF QueryNames
<1> HIDE DEF s
<1>6. \A x \in Queries : ~Behind(s, x)
  BY <1>1, <1>3, <1>4 DEF Behind
<1>7. SearchFormed(q, s)
  BY <1>1, <1>2, <1>3, <1>4, <1>5 DEF SearchFormed
<1> QED BY <1>1, <1>6, <1>7 DEF s

(* The states of a search between a statement and what comes next.         *)
LEMMA EditFormed ==
  ASSUME NEW q, NEW s, Going(q, s), NEW t, DOMAIN t = DOMAIN NoSearch, DOMAIN t.got = Reads,
         t.stage = s.stage, t.todo \subseteq s.todo, t.req = s.req, t.now = s.now,
         t.answer = s.answer, \A x \in Reads : t.got[x] = s.got[x] \/ x \in s.todo \ t.todo
  PROVE  Going(q, t)
<1>1. /\ s.stage \in 1..11 /\ s.answer.outcome = "NONE"
      /\ t.todo \subseteq {x \in Queries : StageOf[x] = t.stage}
  BY DEF Going, SearchFormed
<1>2. \A x \in Reads : ~Behind(t, x) => t.got[x] = {}
  <2> TAKE x \in Reads
  <2>1. Behind(s, x) => Behind(t, x)
    BY DEF Behind
  <2>2. x \in s.todo \ t.todo => Behind(t, x)
    BY <1>1 DEF Behind, Going, SearchFormed
  <2> QED BY <2>1, <2>2 DEF Going, SearchFormed
<1> QED BY <1>1, <1>2 DEF Going, SearchFormed

LEMMA Reading ==
  ASSUME NEW q, NEW s, SearchFormed(q, s), s.todo # {}
  PROVE  Going(q, s)
<1>1. \A x \in Queries : StageOf[x] \in 1..11
  BY StageNames
<1> QED BY <1>1 DEF SearchFormed, Going

Fetched(s, query, rows) == [s EXCEPT !.got[query] = rows, !.todo = @ \ {query}]

LEMMA ReadEdit ==
  ASSUME NEW q, NEW s, SearchFormed(q, s), NEW query \in Reads, query \in s.todo, NEW rows
  PROVE  LET t == Fetched(s, query, rows) IN
         /\ Going(q, s) /\ Going(q, t)
         /\ t.req = s.req /\ t.now = s.now /\ t.rates = s.rates /\ t.left = s.left
         /\ t.got[query] = rows /\ \A x \in Reads \ {query} : t.got[x] = s.got[x]
         /\ t.stage = s.stage /\ t.todo = s.todo \ {query}
<1> DEFINE t == Fetched(s, query, rows)
<1>1. Going(q, s)
  BY Reading
<1>2. Shaped(s)
  BY DEF SearchFormed, Shaped
<1>3. /\ DOMAIN t = DOMAIN NoSearch /\ t.stage = s.stage /\ t.todo = s.todo \ {query}
      /\ t.req = s.req /\ t.now = s.now /\ t.rates = s.rates /\ t.left = s.left
      /\ t.answer = s.answer /\ t.got = [s.got EXCEPT ![query] = rows]
  BY <1>2, SearchFields DEF Fetched, Shaped
<1> HIDE DEF t
<1>4. /\ DOMAIN t.got = Reads /\ t.got[query] = rows
      /\ \A x \in Reads \ {query} : t.got[x] = s.got[x]
  BY <1>2, <1>3 DEF Shaped
<1>5. Going(q, t)
  BY <1>1, <1>3, <1>4, EditFormed
<1> QED BY <1>1, <1>3, <1>4, <1>5 DEF t

ReadMove(q, query) ==
  \/ \E outcome \in {"NOT_FOUND", "FORBIDDEN"} :
       search' = [search EXCEPT ![q] = Reset(search[q].req, outcome)]
  \/ Proceed(q, Fetched(search[q], query, Result(query, search[q])))

LEMMA ReadMoves ==
  ASSUME NEW q, NEW query, Read(q, query)
  PROVE  ReadMove(q, query)
BY Zenon DEF Read, ReadMove, Refuse, Reset, Fetched

Taken(s, rates) == [s EXCEPT !.rates = rates, !.left = Tail(@),
                             !.todo = IF Len(s.left) = 1 THEN {} ELSE @]

LEMMA TakeEdit ==
  ASSUME NEW q, NEW s, SearchFormed(q, s), "hotels" \in s.todo, NEW rates, NEW t,
         t = Taken(s, rates)
  PROVE  /\ Going(q, s) /\ Going(q, t)
         /\ t.req = s.req /\ t.now = s.now /\ t.rates = rates /\ t.got = s.got
         /\ t.stage = s.stage /\ t.todo \subseteq s.todo
<1>1. Going(q, s)
  BY Reading
<1>2. Shaped(s)
  BY DEF SearchFormed, Shaped
<1>3. /\ DOMAIN t = DOMAIN NoSearch /\ t.stage = s.stage /\ t.todo \subseteq s.todo
      /\ t.req = s.req /\ t.now = s.now /\ t.rates = rates
      /\ t.answer = s.answer /\ t.got = s.got
  BY <1>2, SearchFields DEF Taken, Shaped
<1>4. Going(q, t)
  BY <1>1, <1>2, <1>3, EditFormed DEF Shaped
<1> QED BY <1>1, <1>3, <1>4

LEMMA RecordEdit ==
  ASSUME NEW q, NEW s, SearchFormed(q, s), "record" \in s.todo, NEW t, t = [s EXCEPT !.todo = {}]
  PROVE  /\ Going(q, s) /\ Going(q, t) /\ SameButStage(s, t)
         /\ t.stage = s.stage /\ t.todo = {}
<1>1. Going(q, s)
  BY Reading
<1>2. Shaped(s)
  BY DEF SearchFormed, Shaped
<1>3. /\ DOMAIN t = DOMAIN NoSearch /\ t.stage = s.stage /\ t.todo = {}
      /\ t.req = s.req /\ t.now = s.now /\ t.rates = s.rates /\ t.left = s.left
      /\ t.answer = s.answer /\ t.got = s.got
  BY <1>2, SearchFields DEF Shaped
<1>4. Going(q, t)
  BY <1>1, <1>2, <1>3, EditFormed DEF Shaped
<1> QED BY <1>1, <1>2, <1>3, <1>4 DEF SameButStage, Shaped

LEMMA ClockGrows ==
  ASSUME clock \in Nat, [Next]_vars
  PROVE  clock' \in Nat /\ clock <= clock'
<1>1. CASE Tick
  BY <1>1 DEF Tick
<1>2. CASE UNCHANGED vars
  BY <1>2 DEF vars, catalogueVars
<1>3. CASE Next /\ ~Tick
  BY <1>3, ClockKept
<1> QED BY <1>1, <1>2, <1>3

(* Who but a search leaves it alone.                                       *)
LEMMA OutsideSearch ==
  ASSUME [Next]_vars, ~Sell
  PROVE  UNCHANGED searchVars
BY DEF Next, Stock, SyncContent, Administer, Audit, Exchange, vars

LEMMA FormedMove ==
  ASSUME SearchesFormed, NEW q \in Searches, NEW t, search' = [search EXCEPT ![q] = t],
         SearchFormed(q, t), t.now <= clock, clock' = clock
  PROVE  SearchesFormed'
<1>1. /\ DOMAIN search' = Searches /\ search'[q] = t
      /\ \A p \in Searches \ {q} : search'[p] = search[p]
  BY DEF SearchesFormed
<1> QED BY <1>1 DEF SearchesFormed

LEMMA FormedProceed ==
  ASSUME SearchesFormed, NEW q \in Searches, NEW s, Going(q, s), s.now <= clock, Proceed(q, s),
         clock' = clock
  PROVE  SearchesFormed'
<1> DEFINE t == IF s.todo = {} THEN Advance(q, s) ELSE s
<1>1. search' = [search EXCEPT ![q] = t]
  BY DEF Proceed
<1> HIDE DEF t
<1>2. SearchFormed(q, t) /\ t.now = s.now
  BY ProceedFormed DEF t, SameButStage
<1> QED BY <1>1, <1>2, FormedMove

LEMMA StartMove ==
  ASSUME NEW q, Start(q)
  PROVE  \E req \in Requests :
           \/ Refusal(req) # "OK" /\ search' = [search EXCEPT ![q] = Reset(req, Refusal(req))]
           \/ search' = [search EXCEPT ![q] = Begun(req)]
<1>1. PICK req \in Requests :
        /\ search[q] = NoSearch
        /\ IF Refusal(req) # "NONE"
           THEN search' = [search EXCEPT ![q].req = req, ![q].answer.outcome = Refusal(req)]
           ELSE search' = [search EXCEPT ![q] = Begun(req)]
  BY Zenon DEF Start, Begun
<1>2. CASE Refusal(req) # "NONE"
  <2>1. search' = [search EXCEPT ![q] = Reset(req, Refusal(req))]
    BY <1>1, <1>2 DEF Reset
  <2>2. Refusal(req) # "OK"
    BY DEF Refusal
  <2> QED BY <2>1, <2>2
<1>3. CASE Refusal(req) = "NONE"
  BY <1>1, <1>3
<1> QED BY <1>2, <1>3

LEMMA FormedStep ==
  ASSUME SearchesFormed, [Next]_vars
  PROVE  SearchesFormed'
<1>1. CASE UNCHANGED search
  <2>1. clock \in Nat
    BY DEF SearchesFormed
  <2>2. clock' \in Nat /\ clock <= clock'
    BY <2>1, ClockGrows
  <2>3. ASSUME NEW q \in Searches
        PROVE  SearchFormed(q, search'[q]) /\ search'[q].now <= clock'
    <3>1. SearchFormed(q, search[q]) /\ search[q].now <= clock /\ search[q].now \in Nat
      BY DEF SearchesFormed, SearchFormed
    <3> QED BY <1>1, <2>1, <2>2, <3>1
  <2> QED BY <1>1, <2>2, <2>3 DEF SearchesFormed
<1>2. ASSUME NEW q \in Searches, SearchStep(q), clock' = clock
      PROVE  SearchesFormed'
  <2>1. SearchFormed(q, search[q]) /\ search[q].now <= clock /\ clock \in Nat
    BY DEF SearchesFormed
  <2>2. ASSUME NEW req, NEW outcome, outcome # "OK",
               search' = [search EXCEPT ![q] = Reset(req, outcome)]
        PROVE  SearchesFormed'
    <3>1. SearchFormed(q, Reset(req, outcome)) /\ Reset(req, outcome).now = 0
      BY <2>2, ResetFormed
    <3>2. Reset(req, outcome).now <= clock
      BY <2>1, <3>1
    <3> QED BY <1>2, <2>2, <3>1, <3>2, FormedMove
  <2>3. CASE Start(q)
    <3>1. PICK req \in Requests :
             \/ Refusal(req) # "OK" /\ search' = [search EXCEPT ![q] = Reset(req, Refusal(req))]
             \/ search' = [search EXCEPT ![q] = Begun(req)]
      BY <2>3, StartMove
    <3>2. CASE search' = [search EXCEPT ![q] = Begun(req)]
      <4>1. SearchFormed(q, Begun(req)) /\ Begun(req).now = clock
        BY <2>1, BegunFormed
      <4>2. Begun(req).now <= clock
        BY <2>1, <4>1
      <4> QED BY <1>2, <3>2, <4>1, <4>2, FormedMove
    <3> QED BY <2>2, <3>1, <3>2
  <2>4. ASSUME NEW query \in Reads, Read(q, query)
        PROVE  SearchesFormed'
    <3>1. CASE \E outcome \in {"NOT_FOUND", "FORBIDDEN"} :
                 search' = [search EXCEPT ![q] = Reset(search[q].req, outcome)]
      BY <2>2, <3>1
    <3>2. CASE Proceed(q, Fetched(search[q], query, Result(query, search[q])))
      <4> DEFINE rows == Result(query, search[q])
                 t == Fetched(search[q], query, rows)
      <4>1. query \in search[q].todo /\ query \in Reads
        BY <2>4 DEF Read
      <4>2. t = Fetched(search[q], query, rows) /\ Proceed(q, t)
        BY <3>2
      <4> HIDE DEF rows, t
      <4>3. Going(q, t) /\ t.now = search[q].now
        <5>1. SearchFormed(q, search[q])
          BY <2>1
        <5>2. /\ Going(q, Fetched(search[q], query, rows))
              /\ Fetched(search[q], query, rows).now = search[q].now
          BY <4>1, <5>1, ReadEdit
        <5> QED BY <4>2, <5>2
      <4> QED BY <1>2, <2>1, <4>2, <4>3, FormedProceed
    <3> QED BY <2>4, <3>1, <3>2, ReadMoves DEF ReadMove
  <2>5. CASE TakeRates(q)
    <3> DEFINE t == Taken(search[q], search[q].rates \cup call[q].got)
    <3>1. "hotels" \in search[q].todo /\ Proceed(q, t)
      BY <2>5, Zenon DEF TakeRates, Taken
    <3>2. Going(q, t) /\ t.now = search[q].now
      BY <2>1, <3>1, TakeEdit
    <3> QED BY <1>2, <2>1, <3>1, <3>2, FormedProceed
  <2>6. CASE Record(q)
    <3> DEFINE t == [search[q] EXCEPT !.todo = {}]
    <3>1. "record" \in search[q].todo /\ Proceed(q, t)
      BY <2>6, Zenon DEF Record
    <3>2. Going(q, t) /\ t.now = search[q].now
      BY <2>1, <3>1, RecordEdit DEF SameButStage
    <3> QED BY <1>2, <2>1, <3>1, <3>2, FormedProceed
  <2>7. CASE SearchFails(q)
    <3>1. search' = [search EXCEPT ![q] = Reset(search[q].req, "ERROR")]
      BY <2>7, Zenon DEF SearchFails, Refuse, Reset
    <3> QED BY <2>2, <3>1
  <2>8. CASE AskAdapter(q) \/ TriggerSearch(q) \/ ProjectRates(q)
    BY <1>1, <2>8 DEF AskAdapter, TriggerSearch, ProjectRates, searchVars
  <2> QED BY <1>2, <2>3, <2>4, <2>5, <2>6, <2>7, <2>8 DEF SearchStep
<1>3. CASE Sell
  <2>1. clock' = clock
    BY <1>3, SellClock
  <2> QED BY <1>1, <1>2, <1>3, <2>1 DEF Sell, searchVars
<1>4. CASE ~Sell
  BY <1>1, <1>4, OutsideSearch DEF searchVars
<1> QED BY <1>3, <1>4

LEMMA CommitLater ==
  ASSUME TablesSeen, NEW table \in Tables, NEW gone, NEW come, Commit(table, gone, come)
  PROVE  \A q \in Searches, t \in Tables :
           ever[q][t] \subseteq ever'[q][t] /\ always'[q][t] \subseteq always[q][t]
<1> SUFFICES ASSUME NEW q \in Searches
             PROVE  \A t \in Tables :
                      ever[q][t] \subseteq ever'[q][t] /\ always'[q][t] \subseteq always[q][t]
  OBVIOUS
<1>1. /\ ever'[q] = [ever[q] EXCEPT ![table] = @ \cup come]
      /\ always'[q] = [always[q] EXCEPT ![table] = @ \ gone]
  BY DEF Commit
<1>2. /\ ever'[q][table] = ever[q][table] \cup come
      /\ always'[q][table] = always[q][table] \ gone
      /\ \A t \in Tables \ {table} : ever'[q][t] = ever[q][t] /\ always'[q][t] = always[q][t]
  BY <1>1 DEF TablesSeen
<1> QED BY <1>2

(* What a search has seen of the tables grows, whoever changes them, until *)
(* another search begins in its place.                                     *)
LEMMA WorldLater ==
  ASSUME CatalogueInductive, clock \in Nat, [Next]_vars, NEW q \in Searches, ~Start(q)
  PROVE  Later(World(q), World(q)')
<1> DEFINE Grown == \A t \in Tables :
             ever[q][t] \subseteq ever'[q][t] /\ always'[q][t] \subseteq always[q][t]
<1>1. TablesSeen /\ JobsKnown
  BY DEF CatalogueInductive
<1>2. clock' \in Nat /\ clock <= clock'
  BY ClockGrows
<1>3. applications \subseteq applications'
  BY DEF Next, Sell, SearchStep, Start, Read, AskAdapter, TakeRates, Record, SearchFails,
    TriggerSearch, ProjectRates, searchVars, Stock, SyncContent, Administer, Audit, Exchange, vars
<1>4. ASSUME NEW tables, tables \subseteq Tables, Writes(tables)
      PROVE  Grown
  <2>1. CASE UNCHANGED <<db, ever, always>>
    BY <2>1
  <2>2. ASSUME NEW table \in tables, NEW gone, NEW come, Commit(table, gone, come)
        PROVE  Grown
    BY <1>1, <1>4, <2>2, CommitLater
  <2> QED BY <1>4, <2>1, <2>2 DEF Writes
<1>5. Grown
  <2>1. CASE UNCHANGED vars
    BY <2>1 DEF vars, catalogueVars
  <2>2. ASSUME NEW p \in Searches, Start(p)
        PROVE  Grown
    <3>1. p # q
      BY <2>2
    <3>2. ever' = [ever EXCEPT ![p] = db] /\ always' = [always EXCEPT ![p] = db]
      BY <2>2 DEF Start, Watch
    <3>3. ever'[q] = ever[q] /\ always'[q] = always[q]
      BY <1>1, <3>1, <3>2 DEF TablesSeen
    <3> QED BY <3>3
  <2>3. CASE Administer
    <3>1. \A v \in Admins : job[v].step \in {"insert", "update"} =>
            job[v].change.table \in {"rules", "promotions"}
      BY <1>1, MarketColumns DEF JobsKnown, JobKnown, MarketTables
    <3>2. Writes({"rules", "promotions"})
      BY <2>3, <3>1, AdministerWrites
    <3> QED BY <1>4, <3>2, TableNames
  <2>4. CASE Sell
    BY <1>4, <2>2, <2>4, SellWrites
  <2>5. CASE Stock
    BY <1>4, <2>5, StockWrites DEF Edited
  <2>6. CASE SyncContent \/ Audit \/ Exchange
    BY <1>4, <2>6, SyncWrites, AuditWrites, ExchangeWrites, TableNames
  <2> QED BY <2>1, <2>3, <2>4, <2>5, <2>6 DEF Next
<1> QED BY <1>2, <1>3, <1>5 DEF Later, World

LEMMA AlwaysRules ==
  ASSUME CatalogueInductive, NEW q \in Searches
  PROVE  \A r \in World(q).always.rules : RuleOk(r)
<1>1. World(q).always["rules"] \subseteq db["rules"]
  BY WorldSeen, TableNames DEF CatalogueInductive
<1> QED BY <1>1 DEF CatalogueInductive, TablesOk

(* A search that does nothing still has found what it had.                 *)
LEMMA FoundIdle ==
  ASSUME SearchInductive, [Next]_vars, NEW q \in Searches, ~Start(q), search'[q] = search[q]
  PROVE  \A x \in Queries : Behind(search'[q], x) => Found(q, search'[q], World(q)', x)
<1>1. CatalogueInductive /\ clock \in Nat
  BY DEF SearchInductive, SyncInductive, SearchesFormed
<1>2. Later(World(q), World(q)')
  BY <1>1, WorldLater
<1>3. search[q].now \in Int
  <2>1. search[q].now \in Nat
    BY Zenon DEF SearchInductive, SearchesFormed, SearchFormed
  <2> QED BY <2>1
<1>4. \A x \in Queries : Behind(search[q], x) => Found(q, search[q], World(q), x)
  BY DEF SearchInductive, SearchesFound
<1>5. \A r \in World(q).always.rules : RuleOk(r)
  BY <1>1, AlwaysRules
<1>6. \A x \in Queries : Found(q, search[q], World(q), x) => Found(q, search[q], World(q)', x)
  BY <1>2, <1>3, <1>5, FoundKept
<1> QED BY <1>4, <1>6

(* One that has begun anew has found nothing.                              *)
LEMMA FoundNothing ==
  ASSUME SearchesFormed, NEW q \in Searches, NEW t, search' = [search EXCEPT ![q] = t],
         \A x \in Queries : ~Behind(t, x)
  PROVE  \A x \in Queries : Behind(search'[q], x) => Found(q, search'[q], World(q)', x)
<1>1. search'[q] = t
  BY DEF SearchesFormed
<1> QED BY <1>1

LEMMA FoundProceed ==
  ASSUME SearchesFormed, NEW q \in Searches, NEW s, Going(q, s), Proceed(q, s),
         \A x \in Queries : Behind(s, x) => Found(q, s, World(q)', x)
  PROVE  \A x \in Queries : Behind(search'[q], x) => Found(q, search'[q], World(q)', x)
<1> DEFINE t == IF s.todo = {} THEN Advance(q, s) ELSE s
<1>1. search'[q] = t
  BY DEF Proceed, SearchesFormed
<1> HIDE DEF t
<1>2. t = IF s.todo = {} THEN Advance(q, s) ELSE s
  BY DEF t
<1>3. \A x \in Queries : Behind(t, x) => Found(q, t, World(q)', x)
  BY <1>2, ProceedFound
<1> QED BY <1>1, <1>3

(* What is not behind a search after a statement was behind it before, but *)
(* for that statement.                                                     *)
LEMMA BehindBefore ==
  ASSUME NEW q, NEW s, NEW t, Going(q, s), Going(q, t), t.stage = s.stage,
         NEW x \in Queries, Behind(t, x)
  PROVE  Behind(s, x) \/ (StageOf[x] = s.stage /\ x \in s.todo \ t.todo)
<1>1. t.answer.outcome = "NONE" /\ s.answer.outcome = "NONE"
  BY Zenon DEF Going, SearchFormed
<1> QED BY <1>1 DEF Behind

LEMMA FoundRead ==
  ASSUME SearchInductive, [Next]_vars, NEW q \in Searches, ~Start(q), NEW query \in Reads,
         Read(q, query)
  PROVE  \A x \in Queries : Behind(search'[q], x) => Found(q, search'[q], World(q)', x)
<1> DEFINE s == search[q]
           rows == Result(query, s)
           t == Fetched(s, query, rows)
<1>1. CatalogueInductive /\ IdsDistinct(db.hotels) /\ clock \in Nat
  BY DEF SearchInductive, SyncInductive, SearchesFormed, HotelsNamed
<1>2. SearchesFormed /\ SearchFormed(q, s) /\ s.now <= clock
  BY DEF SearchInductive, SearchesFormed
<1>3. s.now \in Nat
  BY <1>2, Zenon DEF SearchFormed
<1>4. query \in s.todo
  BY DEF Read
<1>5. s.req \in Requests
  <2>1. Going(q, s)
    BY <1>2, <1>4, Reading
  <2> QED BY <2>1, Zenon DEF Going, SearchFormed
<1>6. CASE \E outcome \in {"NOT_FOUND", "FORBIDDEN"} :
             search' = [search EXCEPT ![q] = Reset(search[q].req, outcome)]
  <2>1. PICK outcome \in {"NOT_FOUND", "FORBIDDEN"} :
          search' = [search EXCEPT ![q] = Reset(search[q].req, outcome)]
    BY <1>6
  <2>2. \A x \in Queries : ~Behind(Reset(search[q].req, outcome), x)
    BY ResetFormed
  <2> QED BY <1>2, <2>1, <2>2, FoundNothing
<1>7. CASE Proceed(q, t)
  <2> HIDE DEF rows
  <2>1. /\ Going(q, s) /\ Going(q, t) /\ t.req = s.req /\ t.now = s.now /\ t.rates = s.rates
        /\ t.got[query] = rows /\ \A x \in Reads \ {query} : t.got[x] = s.got[x]
        /\ t.stage = s.stage /\ t.todo = s.todo \ {query}
    BY <1>2, <1>4, ReadEdit
  <2> HIDE DEF t
  <2>2. Later(World(q), World(q)') /\ \A r \in World(q).always.rules : RuleOk(r)
    BY <1>1, WorldLater, AlwaysRules
  <2>3. StageOf[query] = s.stage
    BY <1>4, <2>1, Zenon DEF Going, SearchFormed
  <2>4. Found(q, t, World(q), query)
    <3>1. SameRead(s, t, ReadBy(query) \ {query})
      BY <2>1 DEF SameRead, ReadBy
    <3>2. t.got[query] = Result(query, s)
      BY <2>1 DEF rows
    <3> QED BY <1>1, <1>2, <1>3, <1>5, <3>1, <3>2, ReadFound
  <2>5. ASSUME NEW x \in Queries, Behind(t, x)
        PROVE  Found(q, t, World(q)', x)
    <3>1. x = query \/ Behind(s, x)
      BY <2>1, <2>5, BehindBefore
    <3>2. Found(q, t, World(q), x)
      <4>1. CASE x = query
        BY <2>4, <4>1
      <4>2. CASE x # query /\ Behind(s, x)
        <5>1. StageOf[x] <= s.stage /\ s.stage \in 1..11 /\ StageOf[x] \in 1..11
          <6>1. s.answer.outcome = "NONE" /\ s.stage \in 0..11 /\ s.stage # 0
            BY <2>1, Zenon DEF Going, SearchFormed
          <6> QED BY <4>2, <6>1, StageNames DEF Behind
        <5>2. SameRead(s, t, ReadBy(x))
          BY <2>1, <2>3, <4>2, <5>1 DEF SameRead, ReadBy
        <5>3. Found(q, s, World(q), x)
          BY <4>2 DEF SearchInductive, SearchesFound
        <5> QED BY <2>1, <5>2, <5>3, FoundSame
      <4> QED BY <3>1, <4>1, <4>2
    <3>3. t.now \in Int
      BY <1>3, <2>1
    <3> QED BY <2>2, <3>2, <3>3, FoundKept
  <2> QED BY <1>2, <1>7, <2>1, <2>5, FoundProceed
<1> QED BY <1>6, <1>7, ReadMoves DEF ReadMove

LEMMA FoundTake ==
  ASSUME SearchInductive, [Next]_vars, NEW q \in Searches, ~Start(q), TakeRates(q)
  PROVE  \A x \in Queries : Behind(search'[q], x) => Found(q, search'[q], World(q)', x)
<1> DEFINE s == search[q]
           t == Taken(s, s.rates \cup call[q].got)
<1>1. CatalogueInductive /\ clock \in Nat
  BY DEF SearchInductive, SyncInductive, SearchesFormed
<1>2. SearchesFormed /\ SearchFormed(q, s)
  BY DEF SearchInductive, SearchesFormed
<1>3. "hotels" \in s.todo /\ Proceed(q, t)
  BY Zenon DEF TakeRates, Taken
<1>4. /\ Going(q, s) /\ Going(q, t) /\ t.req = s.req /\ t.now = s.now /\ t.got = s.got
      /\ t.stage = s.stage /\ t.todo \subseteq s.todo
  BY <1>2, <1>3, TakeEdit
<1> HIDE DEF t
<1>5. s.todo \subseteq {x \in Queries : StageOf[x] = s.stage} /\ s.now \in Nat
  BY <1>2, Zenon DEF SearchFormed
<1>6. s.stage = 2 /\ s.todo = {"hotels"} /\ s.answer.outcome = "NONE"
  <2>1. s.stage = 2 /\ s.todo \subseteq Stages[2]
    BY <1>3, <1>5, StageNames DEF StageOf
  <2>2. s.answer.outcome = "NONE"
    BY <1>4, Zenon DEF Going, SearchFormed
  <2> QED BY <1>3, <2>1, <2>2, StageSets
<1>7. Later(World(q), World(q)') /\ \A r \in World(q).always.rules : RuleOk(r)
  BY <1>1, WorldLater, AlwaysRules
<1>8. ASSUME NEW x \in Queries, Behind(t, x)
      PROVE  Found(q, t, World(q)', x)
  <2>1. Behind(s, x) \/ x = "hotels"
    BY <1>4, <1>6, <1>8, BehindBefore
  <2>2. CASE x = "hotels"
    BY <2>2 DEF Found
  <2>3. CASE Behind(s, x)
    <3>1. x # "record"
      BY <1>6, <2>3 DEF Behind, StageOf
    <3>2. SameRead(s, t, ReadBy(x))
      BY <1>4 DEF SameRead
    <3>3. Found(q, s, World(q), x)
      BY <2>3 DEF SearchInductive, SearchesFound
    <3>4. Found(q, t, World(q), x)
      BY <3>1, <3>2, <3>3, FoundSame
    <3>5. t.now \in Int
      BY <1>4, <1>5
    <3> QED BY <1>7, <3>4, <3>5, FoundKept
  <2> QED BY <2>1, <2>2, <2>3
<1> QED BY <1>2, <1>3, <1>4, <1>8, FoundProceed

LEMMA FoundRecord ==
  ASSUME SearchInductive, [Next]_vars, NEW q \in Searches, ~Start(q), Record(q)
  PROVE  \A x \in Queries : Behind(search'[q], x) => Found(q, search'[q], World(q)', x)
<1> DEFINE s == search[q]
           t == [s EXCEPT !.todo = {}]
<1>1. CatalogueInductive /\ clock \in Nat
  BY DEF SearchInductive, SyncInductive, SearchesFormed
<1>2. SearchesFormed /\ SearchFormed(q, s)
  BY DEF SearchInductive, SearchesFormed
<1>3. "record" \in s.todo /\ Proceed(q, t) /\ applications' = applications \cup Applications(q, s)
  BY Zenon DEF Record
<1>4. Going(q, s) /\ Going(q, t) /\ SameButStage(s, t) /\ t.stage = s.stage /\ t.todo = {}
  BY <1>2, <1>3, RecordEdit
<1> HIDE DEF t
<1>5. s.todo \subseteq {x \in Queries : StageOf[x] = s.stage} /\ s.now \in Nat
  BY <1>2, Zenon DEF SearchFormed
<1>6. s.todo = {"record"}
  <2>1. s.todo \subseteq Stages[11]
    BY <1>3, <1>5, StageNames DEF StageOf
  <2> QED BY <1>3, <2>1, StageSets
<1>7. Later(World(q), World(q)') /\ \A r \in World(q).always.rules : RuleOk(r)
  BY <1>1, WorldLater, AlwaysRules
<1>8. ASSUME NEW x \in Queries, Behind(t, x)
      PROVE  Found(q, t, World(q)', x)
  <2>1. Behind(s, x) \/ x = "record"
    BY <1>4, <1>6, <1>8, BehindBefore
  <2>2. CASE x = "record"
    <3>1. Applications(q, t) = Applications(q, s)
      BY <1>4, SameAnswer DEF SameButStage, SameRead
    <3>2. Applications(q, t) \subseteq World(q)'.applied
      BY <1>3, <3>1 DEF World
    <3> QED BY <2>2, <3>2 DEF Found
  <2>3. CASE Behind(s, x)
    <3>1. SameRead(s, t, ReadBy(x)) /\ s.rates = t.rates
      BY <1>4 DEF SameRead, SameButStage
    <3>2. Found(q, s, World(q), x)
      BY <2>3 DEF SearchInductive, SearchesFound
    <3>3. Found(q, t, World(q), x)
      BY <3>1, <3>2, FoundSame
    <3>4. t.now \in Int
      BY <1>4, <1>5 DEF SameButStage
    <3> QED BY <1>7, <3>3, <3>4, FoundKept
  <2> QED BY <2>1, <2>2, <2>3
<1> QED BY <1>2, <1>3, <1>4, <1>8, FoundProceed

LEMMA FoundStep ==
  ASSUME SearchInductive, [Next]_vars
  PROVE  SearchesFound'
<1>1. SearchesFormed /\ clock \in Nat
  BY DEF SearchInductive, SearchesFormed
<1>2. SUFFICES ASSUME NEW q \in Searches
               PROVE  \A x \in Queries : Behind(search'[q], x) => Found(q, search'[q], World(q)', x)
  BY DEF SearchesFound
<1>3. CASE Start(q)
  <2>1. PICK req \in Requests :
           \/ Refusal(req) # "OK" /\ search' = [search EXCEPT ![q] = Reset(req, Refusal(req))]
           \/ search' = [search EXCEPT ![q] = Begun(req)]
    BY <1>3, StartMove
  <2>2. CASE Refusal(req) # "OK" /\ search' = [search EXCEPT ![q] = Reset(req, Refusal(req))]
    <3>1. \A x \in Queries : ~Behind(Reset(req, Refusal(req)), x)
      BY <2>2, ResetFormed
    <3> QED BY <1>1, <2>2, <3>1, FoundNothing
  <2>3. CASE search' = [search EXCEPT ![q] = Begun(req)]
    <3>1. \A x \in Queries : ~Behind(Begun(req), x)
      BY <1>1, BegunFormed
    <3> QED BY <1>1, <2>3, <3>1, FoundNothing
  <2> QED BY <2>1, <2>2, <2>3
<1>4. CASE ~Start(q) /\ search'[q] = search[q]
  BY <1>4, FoundIdle
<1>5. CASE ~Start(q) /\ SearchStep(q)
  <2>1. ASSUME NEW query \in Reads, Read(q, query)
        PROVE  \A x \in Queries : Behind(search'[q], x) => Found(q, search'[q], World(q)', x)
    BY <1>5, <2>1, FoundRead
  <2>2. CASE TakeRates(q)
    BY <1>5, <2>2, FoundTake
  <2>3. CASE Record(q)
    BY <1>5, <2>3, FoundRecord
  <2>4. CASE SearchFails(q)
    <3>1. search' = [search EXCEPT ![q] = Reset(search[q].req, "ERROR")]
      BY <2>4, Zenon DEF SearchFails, Refuse, Reset
    <3>2. \A x \in Queries : ~Behind(Reset(search[q].req, "ERROR"), x)
      BY ResetFormed
    <3> QED BY <1>1, <3>1, <3>2, FoundNothing
  <2>5. CASE AskAdapter(q) \/ TriggerSearch(q) \/ ProjectRates(q)
    BY <1>4, <1>5, <2>5 DEF AskAdapter, TriggerSearch, ProjectRates, searchVars
  <2> QED BY <1>5, <2>1, <2>2, <2>3, <2>4, <2>5 DEF SearchStep
<1>6. search'[q] = search[q] \/ SearchStep(q)
  <2>1. ASSUME NEW p \in Searches, SearchStep(p), p # q
        PROVE  search'[q] = search[q]
    <3>1. \E s : search' = [search EXCEPT ![p] = s] \/ search' = search
      <4>1. Start(p) => \E s : search' = [search EXCEPT ![p] = s]
        BY StartMove, Zenon
      <4>2. \A query \in Reads : Read(p, query) => \E s : search' = [search EXCEPT ![p] = s]
        BY Zenon DEF Read, Refuse, Proceed
      <4>3. TakeRates(p) \/ Record(p) \/ SearchFails(p) => \E s : search' = [search EXCEPT ![p] = s]
        BY Zenon DEF TakeRates, Record, SearchFails, Refuse, Proceed
      <4>4. AskAdapter(p) \/ TriggerSearch(p) \/ ProjectRates(p) => search' = search
        BY DEF AskAdapter, TriggerSearch, ProjectRates, searchVars
      <4> QED BY <2>1, <4>1, <4>2, <4>3, <4>4, Zenon DEF SearchStep
    <3> QED BY <1>1, <2>1, <3>1 DEF SearchesFormed
  <2>2. CASE Sell
    BY <2>1, <2>2 DEF Sell, searchVars
  <2>3. CASE ~Sell
    BY <2>3, OutsideSearch DEF searchVars
  <2> QED BY <2>2, <2>3
<1> QED BY <1>3, <1>4, <1>5, <1>6

(* A search that has not started holds nothing.                           *)
LEMMA SearchStarts == Init => SearchesFormed /\ SearchesFound
<1> SUFFICES ASSUME Init PROVE SearchesFormed /\ SearchesFound
  OBVIOUS
<1>1. clock = 0 /\ search = [q \in Searches |-> NoSearch]
  BY DEF Init, CatalogueInit, SearchInit
<1>2. /\ NoSearch.stage = 0 /\ NoSearch.todo = {} /\ NoSearch.now = 0
      /\ NoSearch.answer = [NoAnswer EXCEPT !.outcome = "NONE"]
  BY DEF NoSearch, NoAnswer
<1>3. ASSUME NEW q \in Searches
      PROVE  /\ SearchFormed(q, search[q]) /\ search[q].now = 0
             /\ \A x \in Queries : ~Behind(search[q], x)
  <2>1. search[q] = NoSearch
    BY <1>1
  <2>2. SearchFormed(q, NoSearch) /\ \A x \in Queries : ~Behind(NoSearch, x)
    BY <1>2, FreshFormed
  <2> QED BY <1>2, <2>1, <2>2
<1> QED BY <1>1, <1>3 DEF SearchesFormed, SearchesFound

(* A search holds what there was when it read it: the inductive invariant. *)
THEOREM SearchInvariant == Spec => []SearchInductive
<1>1. SearchInductive /\ [Next]_vars => SyncInductive'
  BY CatalogueStep, SyncStep, NamesStep DEF SearchInductive, SyncInductive
<1>2. SearchInductive /\ [Next]_vars => SearchesFormed' /\ SearchesFound'
  BY FormedStep, FoundStep DEF SearchInductive
<1> QED BY <1>1, <1>2, SearchStarts, SyncInvariant, PTL DEF Spec, SearchInductive

-----------------------------------------------------------------------------
(* What is shown: the offers of an answer, whatever hotel they are under.  *)
LEMMA Grouped ==
  ASSUME NEW offers, NEW promotions
  PROVE  UNION {g.rates : g \in GroupByHotel(offers, promotions)} = offers
<1> DEFINE Under(g) == {o \in offers : o.supplier = g[1] /\ o.code = g[2]}
           Group(g) == [supplier |-> g[1], code |-> g[2], rates |-> Under(g),
                        promotion |-> {p.tag : p \in {x \in promotions :
                                         x.hotel \in {o.hotelRow : o \in Under(g)}}}]
           Keys == {<<o.supplier, o.code>> : o \in offers}
<1>1. GroupByHotel(offers, promotions) = {Group(g) : g \in Keys}
  BY Zenon DEF GroupByHotel
<1>2. \A g \in Keys : Group(g).rates = Under(g)
  OBVIOUS
<1>3. \A o \in offers : <<o.supplier, o.code>> \in Keys /\ o \in Under(<<o.supplier, o.code>>)
  OBVIOUS
<1>4. \A g \in Keys : Under(g) \subseteq offers
  OBVIOUS
<1> HIDE DEF Under, Group, Keys
<1> QED BY <1>1, <1>2, <1>3, <1>4

LEMMA OffersShown ==
  ASSUME SearchesFormed, NEW q \in Searches
  PROVE  /\ OffersOf(q) = IF Answered(q) THEN Offers(search[q]) ELSE {}
         /\ Answered(q) => search[q].req \in Requests /\ search[q].now \in Nat
<1>1. SearchFormed(q, search[q])
  BY DEF SearchesFormed
<1>2. CASE Answered(q)
  <2>1. search[q].answer = Answer(q, search[q])
    BY <1>1, <1>2, Zenon DEF SearchFormed, Answered
  <2>2. search[q].answer.results = GroupByHotel(Offers(search[q]), search[q].got.promotions)
    BY <2>1 DEF Answer
  <2>3. OffersOf(q) = Offers(search[q])
    BY <2>2, Grouped DEF OffersOf
  <2>4. search[q].req \in Requests /\ search[q].now \in Nat
    BY <1>1, <1>2, Zenon DEF SearchFormed, Answered
  <2> QED BY <1>2, <2>3, <2>4
<1>3. CASE ~Answered(q)
  <2>1. search[q].answer = [NoAnswer EXCEPT !.outcome = search[q].answer.outcome]
    BY <1>1, <1>3, Zenon DEF SearchFormed, Answered
  <2>2. search[q].answer.results = {}
    BY <2>1 DEF NoAnswer
  <2> QED BY <1>3, <2>2 DEF OffersOf
<1> QED BY <1>2, <1>3

LEMMA AllFound ==
  ASSUME SearchInductive, NEW q \in Searches, Answered(q)
  PROVE  \A x \in Queries : Found(q, search[q], World(q), x)
BY DEF SearchInductive, SearchesFound, Behind, Answered

(* A converted price is all that an offer gets on its way to the answer.   *)
Priced(s) == {PriceSourced(s, r) : r \in s.rates} \cup Assemble(s)

OfferFields == {"kind", "key", "supplier", "code", "hotelRow", "room", "plan",
                "policy", "bookable", "display", "quote"}

SameOffer(o, p) ==
  /\ o.kind = p.kind /\ o.key = p.key /\ o.supplier = p.supplier /\ o.code = p.code
  /\ o.hotelRow = p.hotelRow /\ o.room = p.room /\ o.plan = p.plan /\ o.policy = p.policy
  /\ o.bookable = p.bookable /\ o.quote = p.quote

LEMMA DisplayKeeps ==
  ASSUME NEW s, NEW p, DOMAIN p = OfferFields
  PROVE  SameOffer(Display(s, p), p)
<1>1. \A d : SameOffer([p EXCEPT !.display = d], p)
  BY DEF SameOffer, OfferFields
<1>2. SameOffer(p, p)
  BY DEF SameOffer
<1>3. Display(s, p) = p \/ \E d : Display(s, p) = [p EXCEPT !.display = d]
  BY Zenon DEF Display, Shown
<1> QED BY <1>1, <1>2, <1>3, Zenon

LEMMA SourcedFields ==
  ASSUME NEW s, NEW r
  PROVE  LET p == PriceSourced(s, r) IN
         /\ DOMAIN p = OfferFields /\ p.kind = "sourced" /\ p.key = r.key /\ p.code = r.hotel
         /\ p.room = r.room /\ p.plan = r.plan /\ p.bookable = AssertRateBookable(r.provenance)
         /\ p.display = {} /\ p.supplier = Hotelbeds
         /\ p.quote.net = ToMinorUnits(r.net, r.currency) /\ p.quote.currency = r.currency
         /\ p.quote.rule = PickRule(s.got.rules, Ctx(s), p.hotelRow)
         /\ p.hotelRow = None \/ \E h \in s.got.codes : h.code = r.hotel /\ p.hotelRow = h.id
<1> DEFINE ids == {h.id : h \in {x \in s.got.codes : x.code = r.hotel}}
           id == IF ids = {} THEN None ELSE CHOOSE i \in ids : TRUE
           price == EvaluateSourcedOffer(ToMinorUnits(r.net, r.currency), r.currency, id,
                                         s.got.rules, Ctx(s))
<1>1. id = None \/ id \in ids
  OBVIOUS
<1>2. id \in ids => \E h \in s.got.codes : h.code = r.hotel /\ id = h.id
  OBVIOUS
<1>3. /\ price.net = ToMinorUnits(r.net, r.currency) /\ price.currency = r.currency
      /\ price.rule = PickRule(s.got.rules, Ctx(s), id)
  BY DEF EvaluateSourcedOffer, Quote
<1>4. PriceSourced(s, r) =
        [kind |-> "sourced", key |-> r.key, supplier |-> Hotelbeds, code |-> r.hotel,
         hotelRow |-> id, room |-> r.room, plan |-> r.plan, policy |-> None,
         bookable |-> AssertRateBookable(r.provenance), display |-> {}, quote |-> price]
  BY Zenon DEF PriceSourced
<1> HIDE DEF id, price, ids
<1> QED BY <1>1, <1>2, <1>3, <1>4 DEF OfferFields

(* The rows of the supplements and bands that make up a price.             *)
RowsFor(rows, c, t, r) ==
  {x \in rows : x.contract = c /\ x.season = t /\ x.room = r.room /\ x.plan = r.plan}

LEMMA AuthoredShape ==
  ASSUME NEW s, NEW c, NEW t, NEW r
  PROVE  LET p == AuthoredOffer(s, c, t, r) IN
         /\ DOMAIN p = OfferFields /\ p.kind = "authored" /\ p.key = r.id /\ p.display = {}
         /\ p.supplier = c.supplier
<1>1. \E code, row, policy, quote : AuthoredOffer(s, c, t, r) =
        [kind |-> "authored", key |-> r.id, supplier |-> c.supplier, code |-> code,
         hotelRow |-> row, room |-> r.room, plan |-> r.plan, bookable |-> TRUE,
         display |-> {}, policy |-> policy, quote |-> quote]
  BY Zenon DEF AuthoredOffer
<1> QED BY <1>1 DEF OfferFields

AuthoredNet(s, c, t, r) ==
  (s.req.to - s.req.from)
    * (r.amount + Occupancy(RowsFor(s.got.supplements, c.id, t.id, r),
                            {b \in s.got.bands : b.contract = c.id}, s.req, r.base))

LEMMA AuthoredFields ==
  ASSUME NEW s, NEW c, NEW t, NEW r, NEW p, p = AuthoredOffer(s, c, t, r)
  PROVE  /\ p.policy = ResolveCancellationPolicy(s.now, r, s.got.policies)
         /\ p.quote.net = AuthoredNet(s, c, t, r)
         /\ p.quote.rule = PickRule(s.got.rules, Ctx(s), p.hotelRow)
         /\ \/ p.hotelRow = None
            \/ \E m \in s.got.mappings2 :
                 m.supplier = c.supplier /\ m.hotel = c.hotel /\ p.hotelRow = m.id
<1> DEFINE found == {m \in s.got.mappings2 : m.supplier = c.supplier /\ m.hotel = c.hotel}
           mapping == IF found = {} THEN [id |-> None, code |-> c.hotel] ELSE CHOOSE m \in found : TRUE
           supplements == RowsFor(s.got.supplements, c.id, t.id, r)
           bands == {b \in s.got.bands : b.contract = c.id}
           extra == Occupancy(supplements, bands, s.req, r.base)
           nights == s.req.to - s.req.from
           price == EvaluateAuthoredOffer(nights, r.amount, extra, r.currency, mapping.id,
                                          s.got.rules, Ctx(s))
           policy == ResolveCancellationPolicy(s.now, r, s.got.policies)
<1>1. mapping.id = None \/ mapping \in found
  OBVIOUS
<1>2. /\ price.net = nights * (r.amount + extra)
      /\ price.rule = PickRule(s.got.rules, Ctx(s), mapping.id)
  BY DEF EvaluateAuthoredOffer, Quote
<1>3. AuthoredOffer(s, c, t, r) =
        [kind |-> "authored", key |-> r.id, supplier |-> c.supplier, code |-> mapping.code,
         hotelRow |-> mapping.id, room |-> r.room, plan |-> r.plan, bookable |-> TRUE,
         display |-> {}, policy |-> policy, quote |-> price]
  BY Zenon DEF AuthoredOffer, RowsFor
<1>4. mapping \in found => mapping \in s.got.mappings2 /\ mapping.supplier = c.supplier
                           /\ mapping.hotel = c.hotel
  OBVIOUS
<1> HIDE DEF mapping, found, supplements, bands, extra, nights, price, policy
<1>5. p.policy = policy /\ p.quote = price /\ p.hotelRow = mapping.id
  BY <1>3
<1>6. p.quote.net = AuthoredNet(s, c, t, r)
  BY <1>2, <1>5 DEF AuthoredNet, nights, extra, supplements, bands
<1>7. \/ p.hotelRow = None
      \/ \E m \in s.got.mappings2 :
           m.supplier = c.supplier /\ m.hotel = c.hotel /\ p.hotelRow = m.id
  BY <1>1, <1>4, <1>5
<1>8. p.policy = ResolveCancellationPolicy(s.now, r, s.got.policies)
  BY <1>5 DEF policy
<1> QED BY <1>2, <1>5, <1>6, <1>7, <1>8

LEMMA Assembled ==
  ASSUME NEW s
  PROVE  \A o : o \in Assemble(s) <=>
           \E c \in s.got.contracts2, t \in Covering(s), r \in s.got.rates :
             /\ t.contract = c.id /\ r.contract = c.id /\ r.season = t.id /\ Available(s, r)
             /\ o = AuthoredOffer(s, c, t, r)
<1> DEFINE Pairs == {p \in s.got.contracts2 \X Covering(s) : p[2].contract = p[1].id}
           Made(pair) == {AuthoredOffer(s, pair[1], pair[2], r) :
             r \in {x \in s.got.rates : /\ x.contract = pair[1].id /\ x.season = pair[2].id
                                        /\ Available(s, x)}}
<1>1. Assemble(s) = UNION {Made(pair) : pair \in Pairs}
  BY Zenon DEF Assemble
<1>2. \A pair \in Pairs : \A o : o \in Made(pair) <=>
        \E r \in s.got.rates : /\ r.contract = pair[1].id /\ r.season = pair[2].id
                               /\ Available(s, r) /\ o = AuthoredOffer(s, pair[1], pair[2], r)
  BY Zenon
<1>3. \A pair \in Pairs : pair[1] \in s.got.contracts2 /\ pair[2] \in Covering(s)
                          /\ pair[2].contract = pair[1].id
  OBVIOUS
<1>4. \A c \in s.got.contracts2, t \in Covering(s) : t.contract = c.id =>
        \E pair \in Pairs : pair[1] = c /\ pair[2] = t
  <2> TAKE c \in s.got.contracts2, t \in Covering(s)
  <2> HAVE t.contract = c.id
  <2>1. <<c, t>> \in Pairs /\ <<c, t>>[1] = c /\ <<c, t>>[2] = t
    OBVIOUS
  <2> QED BY <2>1
<1> HIDE DEF Pairs, Made
<1>5. \A o : o \in Assemble(s) <=> \E pair \in Pairs : o \in Made(pair)
  BY <1>1
<1> DEFINE Sold(o) == \E c \in s.got.contracts2, t \in Covering(s), r \in s.got.rates :
             /\ t.contract = c.id /\ r.contract = c.id /\ r.season = t.id /\ Available(s, r)
             /\ o = AuthoredOffer(s, c, t, r)
<1>6. \A o : o \in Assemble(s) => Sold(o)
  <2> SUFFICES ASSUME NEW o \in Assemble(s) PROVE Sold(o)
    OBVIOUS
  <2>1. PICK pair \in Pairs : o \in Made(pair)
    BY <1>5
  <2> DEFINE c == pair[1]
             t == pair[2]
  <2>2. c \in s.got.contracts2 /\ t \in Covering(s) /\ t.contract = c.id
    BY <1>3
  <2>3. \E r \in s.got.rates : /\ r.contract = c.id /\ r.season = t.id
                               /\ Available(s, r) /\ o = AuthoredOffer(s, c, t, r)
    BY <1>2, <2>1
  <2> HIDE DEF c, t
  <2> QED BY <2>2, <2>3
<1>7. \A o : Sold(o) => o \in Assemble(s)
  <2> SUFFICES ASSUME NEW o, NEW c \in s.got.contracts2, NEW t \in Covering(s), NEW r \in s.got.rates,
                      t.contract = c.id, r.contract = c.id, r.season = t.id, Available(s, r),
                      o = AuthoredOffer(s, c, t, r)
               PROVE  o \in Assemble(s)
    OBVIOUS
  <2>1. PICK pair \in Pairs : pair[1] = c /\ pair[2] = t
    BY <1>4
  <2>2. o \in Made(pair)
    BY <1>2, <2>1, Zenon
  <2> QED BY <1>5, <2>2
<1> QED BY <1>6, <1>7

(* Each offer shown is one that was priced.                                *)
LEMMA OfferKinds ==
  ASSUME NEW s, NEW p \in Priced(s)
  PROVE  /\ p.kind = "authored" => p \in Assemble(s)
         /\ p.kind = "sourced" => \E r \in s.rates : p = PriceSourced(s, r)
         /\ p.kind \in {"authored", "sourced"} /\ p.display = {} /\ DOMAIN p = OfferFields
<1>1. ASSUME NEW r \in s.rates, p = PriceSourced(s, r)
      PROVE  p.kind = "sourced" /\ p.display = {} /\ DOMAIN p = OfferFields
  BY <1>1, SourcedFields
<1>2. CASE p \in Assemble(s)
  <2>1. PICK c \in s.got.contracts2, t \in Covering(s), r \in s.got.rates :
          p = AuthoredOffer(s, c, t, r)
    BY <1>2, Assembled
  <2>2. /\ AuthoredOffer(s, c, t, r).kind = "authored" /\ AuthoredOffer(s, c, t, r).display = {}
        /\ DOMAIN AuthoredOffer(s, c, t, r) = OfferFields
    BY AuthoredShape
  <2> QED BY <1>2, <2>1, <2>2
<1> QED BY <1>1, <1>2 DEF Priced

LEMMA OffersPriced ==
  ASSUME NEW s
  PROVE  /\ \A o \in Offers(s) : \E p \in Priced(s) : o = Display(s, p) /\ SameOffer(o, p)
         /\ \A p \in Priced(s) : Display(s, p) \in Offers(s) /\ SameOffer(Display(s, p), p)
<1>1. \A p \in Priced(s) : SameOffer(Display(s, p), p)
  BY OfferKinds, DisplayKeeps
<1> QED BY <1>1, Zenon DEF Offers, Priced

-----------------------------------------------------------------------------
(* Rules are ordered by scope, priority and id.                            *)
LEMMA OutranksOrders ==
  ASSUME NEW r, NEW s, NEW t, RuleOk(r), RuleOk(s), RuleOk(t)
  PROVE  /\ ~Outranks(r, r)
         /\ Outranks(r, s) /\ Outranks(s, t) => Outranks(r, t)
         /\ r.id # s.id => Outranks(r, s) \/ Outranks(s, r)
<1> DEFINE Ranked(x) == /\ x.scope \in {"ACCOUNT", "HOTEL", "CHANNEL"}
                        /\ x.priority \in Int /\ x.id \in Int
<1>1. Ranked(r) /\ Ranked(s) /\ Ranked(t)
  BY DEF RuleOk
<1>2. /\ ScopePrecedence["ACCOUNT"] = 3 /\ ScopePrecedence["HOTEL"] = 2
      /\ ScopePrecedence["CHANNEL"] = 1
  BY DEF ScopePrecedence
<1> HIDE DEF Ranked
<1>3. ~Outranks(r, r)
  BY <1>1, <1>2 DEF Outranks, Ranked
<1>4. Outranks(r, s) /\ Outranks(s, t) => Outranks(r, t)
  BY <1>1, <1>2 DEF Outranks, Ranked
<1>5. r.id # s.id => Outranks(r, s) \/ Outranks(s, r)
  BY <1>1, <1>2 DEF Outranks, Ranked
<1> QED BY <1>3, <1>4, <1>5

(* pickRule finds the best rule there is, if one matches.                  *)
LEMMA BestRule ==
  ASSUME NEW rules, IsFiniteSet(rules), IdsDistinct(rules), \A r \in rules : RuleOk(r),
         NEW ctx, NEW hotel
  PROVE  /\ \A best \in PickRule(rules, ctx, hotel) : best \in rules /\ Matches(best, ctx, hotel)
         /\ \A r \in rules : Matches(r, ctx, hotel) =>
              \E best \in PickRule(rules, ctx, hotel) : ~Outranks(r, best)
<1> DEFINE matching == {r \in rules : Matches(r, ctx, hotel)}
           R == {p \in matching \X matching : Outranks(p[1], p[2])}
<1>1. PickRule(rules, ctx, hotel) =
        {r \in matching : \A s \in matching \ {r} : Outranks(r, s)}
  BY DEF PickRule
<1>2. matching \in SUBSET rules
  OBVIOUS
<1>3. \A r, s \in matching : <<r, s>> \in R <=> Outranks(r, s)
  OBVIOUS
<1>4. /\ \A r \in matching : ~Outranks(r, r)
      /\ \A r, s, t \in matching : Outranks(r, s) /\ Outranks(s, t) => Outranks(r, t)
      /\ \A r, s \in matching : r # s => Outranks(r, s) \/ Outranks(s, r)
  <2>1. \A r \in matching : RuleOk(r)
    BY <1>2
  <2>2. \A r, s \in matching : r # s => r.id # s.id
    BY <1>2 DEF IdsDistinct
  <2> HIDE DEF matching
  <2> QED BY <2>1, <2>2, OutranksOrders, Zenon
<1>5. ASSUME NEW r \in rules, Matches(r, ctx, hotel)
      PROVE  \E best \in PickRule(rules, ctx, hotel) : ~Outranks(r, best)
  <2>1. r \in matching
    BY <1>5
  <2> HIDE DEF matching, R
  <2>2. IsFiniteSet(matching) /\ matching # {}
    BY <1>2, <2>1, FS_Subset
  <2>3. PICK best \in matching : \A s \in matching : <<s, best>> \notin R
    BY <1>3, <1>4, <2>2, FiniteLeast, Zenon
  <2>4. \A s \in matching : ~Outranks(s, best)
    BY <1>3, <2>3
  <2>5. \A s \in matching \ {best} : Outranks(best, s)
    BY <1>4, <2>4
  <2> QED BY <1>1, <2>1, <2>4, <2>5
<1> QED BY <1>1, <1>5

(* The rule of an offer is picked for the row it is priced by.             *)
LEMMA OfferRule ==
  ASSUME NEW s, NEW o \in Offers(s)
  PROVE  /\ o.quote.rule = PickRule(s.got.rules, Ctx(s), o.hotelRow)
         /\ \/ o.hotelRow = None
            \/ o.kind = "sourced" /\ \E h \in s.got.codes : o.hotelRow = h.id
            \/ o.kind = "authored" /\ \E c \in s.got.contracts2, m \in s.got.mappings2 :
                 /\ o.supplier = c.supplier /\ m.supplier = c.supplier /\ m.hotel = c.hotel
                 /\ o.hotelRow = m.id
<1>1. PICK p \in Priced(s) : SameOffer(o, p)
  BY OffersPriced
<1>2. /\ o.quote = p.quote /\ o.hotelRow = p.hotelRow /\ o.kind = p.kind
      /\ o.supplier = p.supplier
  BY <1>1 DEF SameOffer
<1>3. ASSUME NEW r \in s.rates, p = PriceSourced(s, r)
      PROVE  /\ p.quote.rule = PickRule(s.got.rules, Ctx(s), p.hotelRow)
             /\ p.hotelRow = None \/ \E h \in s.got.codes : p.hotelRow = h.id
             /\ p.kind = "sourced"
  BY <1>3, SourcedFields
<1>4. ASSUME NEW c \in s.got.contracts2, NEW t, NEW r, p = AuthoredOffer(s, c, t, r)
      PROVE  /\ p.quote.rule = PickRule(s.got.rules, Ctx(s), p.hotelRow)
             /\ p.hotelRow = None \/ \E m \in s.got.mappings2 :
                  m.supplier = c.supplier /\ m.hotel = c.hotel /\ p.hotelRow = m.id
             /\ p.kind = "authored" /\ p.supplier = c.supplier
  <2>1. p.kind = "authored" /\ p.supplier = c.supplier
    BY <1>4, AuthoredShape
  <2>2. /\ p.quote.rule = PickRule(s.got.rules, Ctx(s), p.hotelRow)
        /\ p.hotelRow = None \/ \E m \in s.got.mappings2 :
             m.supplier = c.supplier /\ m.hotel = c.hotel /\ p.hotelRow = m.id
    BY <1>4, AuthoredFields
  <2> QED BY <2>1, <2>2
<1>5. CASE \E r \in s.rates : p = PriceSourced(s, r)
  BY <1>2, <1>3, <1>5
<1>6. CASE p \in Assemble(s)
  <2>1. PICK c \in s.got.contracts2, t \in Covering(s), r \in s.got.rates :
          p = AuthoredOffer(s, c, t, r)
    BY <1>6, Assembled
  <2> QED BY <1>2, <1>4, <2>1
<1> QED BY <1>5, <1>6 DEF Priced

-----------------------------------------------------------------------------
(* What was there all along is there now, and what is there now was.       *)
LEMMA AllAlong ==
  ASSUME SearchInductive, NEW q \in Searches, NEW t \in Tables
  PROVE  always[q][t] \subseteq db[t] /\ db[t] \subseteq ever[q][t]
BY DEF SearchInductive, SyncInductive, CatalogueInductive, TablesSeen

(* A rule that was there all along has been read.                          *)
LEMMA AskedFound ==
  ASSUME SearchInductive, NEW q \in Searches, Answered(q), NEW c, HotelAsked(q, c)
  PROVE  c.hotel \in Canonicals(search[q])
<1>1. CanonicalFound(search[q], World(q))
  BY AllFound DEF Found, Queries, Stages, Range
<1> QED BY <1>1, Zenon DEF CanonicalFound, World, HotelAsked

LEMMA RowRead ==
  ASSUME SearchInductive, NEW q \in Searches, Answered(q), NEW o \in Offers(search[q]),
         RowKnown(q, o)
  PROVE  o.hotelRow \in RuleHotels(search[q])
<1> DEFINE s == search[q]
           w == World(q)
<1>1. \A x \in Queries : Found(q, s, w, x)
  BY AllFound
<1>2. PICK h \in always[q].hotels : h.id = o.hotelRow
  BY DEF RowKnown
<1>3. o.hotelRow # None
  <2>1. h \in db.hotels
    BY <1>2, AllAlong, TableNames
  <2> QED BY <1>2, <2>1 DEF SearchInductive, SyncInductive, HotelsNamed
<1>4. CASE o.kind = "sourced" /\ \E g \in s.got.codes : o.hotelRow = g.id
  BY <1>4 DEF RuleHotels
<1>5. ASSUME o.kind = "authored", NEW c \in s.got.contracts2, NEW x \in s.got.mappings2,
             o.supplier = c.supplier, x.supplier = c.supplier, x.hotel = c.hotel,
             o.hotelRow = x.id
      PROVE  o.hotelRow \in RuleHotels(s)
  <2>1. PICK m \in always[q].mappings : m.supplierHotel = o.hotelRow /\ InForce(m)
    BY <1>5 DEF RowKnown
  <2>2. PICK d \in always[q].contracts :
          d.supplier = o.supplier /\ ContractCovers(s, d) /\ HotelAsked(q, d)
    BY <1>5 DEF RowKnown
  <2>3. h.supplier = x.supplier /\ m.hotel = x.hotel
    <3>1. MappingsFound(s, w, s.got.contracts2, s.got.mappings2)
      BY <1>1 DEF Found, Queries, Stages, Range
    <3> QED BY <1>2, <1>5, <2>1, <3>1, Zenon DEF MappingsFound, World
  <2>4. c.hotel \in Canonicals(s)
    <3>1. ContractsFound(s, w, s.got.contracts2)
      BY <1>1 DEF Found, Queries, Stages, Range
    <3> QED BY <1>5, <3>1 DEF ContractsFound
  <2>5. d \in s.got.contracts
    <3>1. ContractsFound(s, w, s.got.contracts)
      BY <1>1 DEF Found, Queries, Stages, Range
    <3>2. d.hotel \in Canonicals(s)
      BY <2>2, AskedFound
    <3> QED BY <2>2, <3>1, <3>2, Zenon DEF ContractsFound, World
  <2>6. MappingsFound(s, w, s.got.contracts, s.got.mappings)
    BY <1>1 DEF Found, Queries, Stages, Range
  <2>7. h.supplier \in {k.supplier : k \in s.got.contracts}
    BY <1>5, <2>2, <2>3, <2>5
  <2>8. h.id \in {y.id : y \in s.got.mappings}
    <3>1. m.hotel \in Canonicals(s) /\ m.supplierHotel = h.id
      BY <1>2, <1>5, <2>1, <2>3, <2>4
    <3> QED BY <1>2, <2>1, <2>6, <2>7, <3>1, Zenon DEF MappingsFound, World
  <2> QED BY <1>2, <2>8 DEF RuleHotels
<1> QED BY <1>3, <1>4, <1>5, OfferRule

LEMMA RuleRead ==
  ASSUME SearchInductive, NEW q \in Searches, Answered(q), NEW o \in Offers(search[q]),
         NEW r \in always[q].rules, r.status = "ACTIVE", Matches(r, Ctx(search[q]), o.hotelRow),
         r.from = None \/ r.from <= search[q].now, r.to = None \/ r.to > clock,
         r.scope = "HOTEL" => RowKnown(q, o)
  PROVE  r \in search[q].got.rules
<1> DEFINE s == search[q]
           ctx == Ctx(s)
<1>1. RulesFound(s, World(q))
  BY AllFound DEF Found, Queries, Stages, Range
<1>2. ctx.tenant = s.req.actor.tenant
  BY DEF Ctx
<1>3. r.scope \in {"ACCOUNT", "HOTEL", "CHANNEL"}
  <2>1. r \in db.rules
    BY AllAlong, TableNames
  <2> QED BY <2>1 DEF SearchInductive, SyncInductive, CatalogueInductive, TablesOk, RuleOk
<1>4. RuleApplies(s, r)
  <2>1. CASE r.scope = "ACCOUNT"
    BY <2>1 DEF Matches, RuleApplies
  <2>2. CASE r.scope = "HOTEL"
    <3>1. r.target = o.hotelRow
      BY <2>2 DEF Matches
    <3> QED BY <2>2, <3>1, RowRead DEF RuleApplies
  <2>3. CASE r.scope = "CHANNEL"
    BY <2>3 DEF Matches, RuleApplies
  <2> QED BY <1>3, <2>1, <2>2, <2>3
<1>5. r.tenant = s.req.actor.tenant
  BY <1>2 DEF Matches
<1> QED BY <1>1, <1>4, <1>5, Zenon DEF RulesFound, World

(* Every price carries the best markup rule there is for it: one that      *)
(* matches, was in force at some moment of the search, and is outranked    *)
(* by no rule that was in force throughout (pickRule, findApplicable).     *)
THEOREM BestRulePrices == Spec => []PricedByBestRule
<1>1. SearchInductive => PricedByBestRule
  <2> SUFFICES ASSUME SearchInductive, NEW q \in Searches, NEW o \in OffersOf(q)
               PROVE  /\ \A best \in o.quote.rule :
                           /\ best \in ever[q].rules /\ Matches(best, Ctx(search[q]), o.hotelRow)
                           /\ best.status = "ACTIVE"
                           /\ best.from = None \/ best.from <= clock
                           /\ best.to = None \/ best.to > search[q].now
                      /\ \A r \in always[q].rules :
                           /\ r.status = "ACTIVE" /\ Matches(r, Ctx(search[q]), o.hotelRow)
                           /\ r.from = None \/ r.from <= search[q].now
                           /\ r.to = None \/ r.to > clock
                           /\ r.scope = "HOTEL" => RowKnown(q, o)
                           => \E best \in o.quote.rule : ~Outranks(r, best)
    BY Zenon DEF PricedByBestRule
  <2>1. Answered(q) /\ o \in Offers(search[q])
    BY OffersShown DEF SearchInductive
  <2>2. RulesFound(search[q], World(q))
    BY <2>1, AllFound DEF Found, Queries, Stages, Range
  <2> DEFINE rules == search[q].got.rules
             ctx == Ctx(search[q])
  <2>3. IsFiniteSet(rules) /\ IdsDistinct(rules) /\ \A r \in rules : RuleOk(r)
    BY <2>2 DEF RulesFound
  <2>4. o.quote.rule = PickRule(rules, ctx, o.hotelRow)
    BY <2>1, OfferRule
  <2>5. \A r \in rules : /\ r \in ever[q].rules /\ r.status = "ACTIVE"
                         /\ r.from = None \/ r.from <= clock
                         /\ r.to = None \/ r.to > search[q].now
    BY <2>2 DEF RulesFound, World
  <2> HIDE DEF rules, ctx
  <2>6. /\ \A best \in o.quote.rule : best \in rules /\ Matches(best, ctx, o.hotelRow)
        /\ \A r \in rules : Matches(r, ctx, o.hotelRow) =>
             \E best \in o.quote.rule : ~Outranks(r, best)
    BY <2>3, <2>4, BestRule
  <2>7. ASSUME NEW r \in always[q].rules, r.status = "ACTIVE",
               Matches(r, Ctx(search[q]), o.hotelRow),
               r.from = None \/ r.from <= search[q].now, r.to = None \/ r.to > clock,
               r.scope = "HOTEL" => RowKnown(q, o)
        PROVE  \E best \in o.quote.rule : ~Outranks(r, best)
    BY <2>1, <2>6, <2>7, RuleRead DEF rules, ctx
  <2> QED BY <2>5, <2>6, <2>7 DEF ctx
<1> QED BY <1>1, SearchInvariant, PTL

-----------------------------------------------------------------------------
(* Only the days of the stay, the one of departure included, are looked at.*)
LEMMA WinnersAgree ==
  ASSUME NEW rows, NEW others, NEW kind, NEW day,
         \A x : x.day = day => (x \in rows <=> x \in others)
  PROVE  PickWinner(rows, kind, day) = PickWinner(others, kind, day)
<1> DEFINE Of(set) == {r \in set : r.kind = kind /\ r.day = day}
<1>1. \A set : PickWinner(set, kind, day) =
        {r \in Of(set) : \A s \in Of(set) \ {r} :
           Tier(r) < Tier(s) \/ (Tier(r) = Tier(s) /\ r.id < s.id)}
  BY DEF PickWinner
<1>2. \A r : r \in Of(rows) <=> r \in Of(others)
  BY Zenon
<1> HIDE DEF Of
<1>3. Of(rows) = Of(others)
  BY <1>2
<1> QED BY <1>1, <1>3, Zenon

LEMMA WithinStay ==
  ASSUME NEW stay, NEW now, NEW offer, NEW rows, NEW others,
         stay.from \in Int, stay.to \in Int, stay.from <= stay.to,
         {x \in rows : x.day \in stay.from..stay.to} = {x \in others : x.day \in stay.from..stay.to}
  PROVE  EvaluateRestrictions(stay, now, offer, rows)
         = EvaluateRestrictions(stay, now, offer, others)
<1> DEFINE Win(set, kind, day) == PickWinner({r \in set : IsCandidate(r, offer, now)}, kind, day)
           nights == stay.to - stay.from
           hours == 24 * stay.from - now
           Open(set) ==
             /\ \A day \in stay.from..(stay.to - 1) : Win(set, "STOP_SELL", day) = {}
             /\ Win(set, "CTA", stay.from) = {}
             /\ Win(set, "CTD", stay.to) = {}
             /\ \A r \in Win(set, "MIN_LOS", stay.from) : nights >= r.param
             /\ \A r \in Win(set, "MAX_LOS", stay.from) : nights <= r.param
             /\ \A r \in Win(set, "ADVANCE_PURCHASE_MIN", stay.from) : hours \div 24 >= r.param
             /\ \A r \in Win(set, "ADVANCE_PURCHASE_MAX", stay.from) : hours \div 24 <= r.param
             /\ \A r \in Win(set, "RELEASE_HOURS", stay.from) \cup Win(set, "CUTOFF_HOURS", stay.from) :
                  hours >= r.param
<1>1. \A set : EvaluateRestrictions(stay, now, offer, set) = Open(set)
  BY Zenon DEF EvaluateRestrictions
<1>2. ASSUME NEW kind, NEW day \in stay.from..stay.to
      PROVE  Win(rows, kind, day) = Win(others, kind, day)
  <2> DEFINE Fit(set) == {r \in set : IsCandidate(r, offer, now)}
  <2>1. \A x : x.day = day => (x \in Fit(rows) <=> x \in Fit(others))
    <3>1. \A x : x.day = day => (x \in rows <=> x \in others)
      BY <1>2
    <3> QED BY <3>1, Zenon
  <2> HIDE DEF Fit
  <2>2. PickWinner(Fit(rows), kind, day) = PickWinner(Fit(others), kind, day)
    BY <2>1, WinnersAgree
  <2> QED BY <2>2 DEF Fit
<1>3. /\ stay.from \in stay.from..stay.to /\ stay.to \in stay.from..stay.to
      /\ \A day \in stay.from..(stay.to - 1) : day \in stay.from..stay.to
  OBVIOUS
<1> HIDE DEF Win, nights, hours
<1>4. \A kind : /\ Win(rows, kind, stay.from) = Win(others, kind, stay.from)
                /\ Win(rows, kind, stay.to) = Win(others, kind, stay.to)
                /\ \A day \in stay.from..(stay.to - 1) : Win(rows, kind, day) = Win(others, kind, day)
  BY <1>2, <1>3, Zenon
<1>5. Open(rows) = Open(others)
  <2>1. Win(rows, "CTA", stay.from) = Win(others, "CTA", stay.from)
    BY <1>4
  <2>2. Win(rows, "CTD", stay.to) = Win(others, "CTD", stay.to)
    BY <1>4
  <2>3. Win(rows, "MIN_LOS", stay.from) = Win(others, "MIN_LOS", stay.from)
    BY <1>4
  <2>4. Win(rows, "MAX_LOS", stay.from) = Win(others, "MAX_LOS", stay.from)
    BY <1>4
  <2>5. Win(rows, "ADVANCE_PURCHASE_MIN", stay.from) = Win(others, "ADVANCE_PURCHASE_MIN", stay.from)
    BY <1>4
  <2>6. Win(rows, "ADVANCE_PURCHASE_MAX", stay.from) = Win(others, "ADVANCE_PURCHASE_MAX", stay.from)
    BY <1>4
  <2>7. Win(rows, "RELEASE_HOURS", stay.from) = Win(others, "RELEASE_HOURS", stay.from)
    BY <1>4
  <2>8. Win(rows, "CUTOFF_HOURS", stay.from) = Win(others, "CUTOFF_HOURS", stay.from)
    BY <1>4
  <2>9. \A day \in stay.from..(stay.to - 1) :
          Win(rows, "STOP_SELL", day) = Win(others, "STOP_SELL", day)
    BY <1>4
  <2> QED BY <2>1, <2>2, <2>3, <2>4, <2>5, <2>6, <2>7, <2>8, <2>9, Zenon
<1> HIDE DEF Open
<1> QED BY <1>1, <1>5, Zenon

(* What a search holds of the restrictions and policies is what it may     *)
(* have read for any contract it offers rates of.                          *)
LEMMA MayRead ==
  ASSUME NEW q \in Searches, NEW c, NEW table, NEW rows,
         \A x \in rows : x \in ever[q][table] /\ InForceFor(search[q], x)
  PROVE  {r \in always[q][table] : Own(search[q], c, r)} \cup rows \in MayHaveRead(q, c, table)
<1> DEFINE sure == {r \in always[q][table] : Own(search[q], c, r)}
           rest == {r \in ever[q][table] \ sure : InForceFor(search[q], r)}
<1>1. rows \ sure \in SUBSET rest
  OBVIOUS
<1>2. MayHaveRead(q, c, table) = {sure \cup x : x \in SUBSET rest}
  BY DEF MayHaveRead
<1> HIDE DEF rest, sure
<1>3. sure \cup rows = sure \cup (rows \ sure)
  OBVIOUS
<1> QED BY <1>1, <1>2, <1>3, Zenon DEF sure

LEMMA OwnScoped ==
  ASSUME SearchInductive, NEW q \in Searches, Answered(q), NEW c \in Usable(search[q])
  PROVE  \A r : Own(search[q], c, r) => AuthoredScope(r, search[q])
<1> DEFINE s == search[q]
<1>1. c.hotel \in Canonicals(s)
  <2>1. ContractsFound(s, World(q), s.got.contracts2)
    BY AllFound DEF Found, Queries, Stages, Range
  <2> QED BY <2>1 DEF ContractsFound, Usable
<1>2. c.id \in {x.id : x \in Usable(s)} /\ c.supplier \in {x.supplier : x \in Usable(s)}
  OBVIOUS
<1> HIDE DEF s
<1> QED BY <1>1, <1>2 DEF Own, InForceFor, AuthoredScope, s

LEMMA RestrictionsRead ==
  ASSUME SearchInductive, NEW q \in Searches, Answered(q), NEW c \in Usable(search[q])
  PROVE  \E rows \in MayHaveRead(q, c, "restrictions") :
           {x \in rows : x.day \in search[q].req.from..search[q].req.to}
           = {x \in search[q].got.restrictions : x.day \in search[q].req.from..search[q].req.to}
<1> DEFINE s == search[q]
           got == s.got.restrictions
           sure == {r \in always[q]["restrictions"] : Own(s, c, r)}
           Days == s.req.from..s.req.to
<1>1. RestrictionsFound(s, World(q))
  BY AllFound DEF Found, Queries, Stages, Range
<1>2. \A x \in got : x \in ever[q]["restrictions"] /\ InForceFor(s, x)
  BY <1>1 DEF RestrictionsFound, World
<1>3. sure \cup got \in MayHaveRead(q, c, "restrictions")
  BY <1>2, MayRead
<1>4. \A x \in sure : x.day \in Days => x \in got
  BY <1>1, OwnScoped DEF RestrictionsFound, World
<1> HIDE DEF sure, got, Days
<1>5. {x \in sure \cup got : x.day \in Days} = {x \in got : x.day \in Days}
  BY <1>4
<1> QED BY <1>3, <1>5 DEF got, Days

LEMMA PoliciesRead ==
  ASSUME SearchInductive, NEW q \in Searches, Answered(q), NEW c \in Usable(search[q])
  PROVE  search[q].got.policies \in MayHaveRead(q, c, "policies")
<1> DEFINE s == search[q]
           got == s.got.policies
           sure == {r \in always[q]["policies"] : Own(s, c, r)}
<1>1. PoliciesFound(s, World(q))
  BY AllFound DEF Found, Queries, Stages, Range
<1>2. \A x \in got : x \in ever[q]["policies"] /\ InForceFor(s, x)
  BY <1>1 DEF PoliciesFound, World
<1>3. sure \cup got \in MayHaveRead(q, c, "policies")
  BY <1>2, MayRead
<1>4. \A x \in sure : x \in got
  BY <1>1, OwnScoped DEF PoliciesFound, World
<1> HIDE DEF sure, got
<1>5. sure \cup got = got
  BY <1>4
<1> QED BY <1>3, <1>5 DEF got

(* An offer of the catalogue that is in the answer, and the rows it is of. *)
LEMMA AuthoredShown ==
  ASSUME NEW s, NEW o \in Offers(s), o.kind = "authored"
  PROVE  \E c \in s.got.contracts2, t \in Covering(s), r \in s.got.rates :
           /\ t.contract = c.id /\ r.contract = c.id /\ r.season = t.id /\ Available(s, r)
           /\ o.key = r.id /\ o.supplier = c.supplier /\ o.quote.net = AuthoredNet(s, c, t, r)
           /\ o.policy = ResolveCancellationPolicy(s.now, r, s.got.policies)
<1>1. PICK p \in Priced(s) : SameOffer(o, p)
  BY OffersPriced
<1>2. o.kind = p.kind /\ o.key = p.key /\ o.supplier = p.supplier /\ o.quote = p.quote /\ o.policy = p.policy
  BY <1>1 DEF SameOffer
<1>3. p \in Assemble(s)
  BY <1>2, OfferKinds
<1>4. PICK c \in s.got.contracts2, t \in Covering(s), r \in s.got.rates :
        /\ t.contract = c.id /\ r.contract = c.id /\ r.season = t.id /\ Available(s, r)
        /\ p = AuthoredOffer(s, c, t, r)
  BY <1>3, Assembled
<1>5. p.key = r.id /\ p.supplier = c.supplier
  BY <1>4, AuthoredShape
<1>6. /\ p.policy = ResolveCancellationPolicy(s.now, r, s.got.policies)
      /\ p.quote.net = AuthoredNet(s, c, t, r)
  BY <1>4, AuthoredFields
<1> QED BY <1>2, <1>4, <1>5, <1>6

LEMMA StayDays ==
  ASSUME SearchInductive, NEW q \in Searches, Answered(q)
  PROVE  search[q].req.from \in Int /\ search[q].req.to \in Int
BY OffersShown, RequestsAssumption DEF SearchInductive

(* May a rate be sold?  It is decided by what was read of the days of the  *)
(* stay.                                                                   *)
LEMMA SellableOnDays ==
  ASSUME SearchInductive, NEW q \in Searches, Answered(q), NEW r, NEW t \in Covering(search[q]),
         NEW rows,
         {x \in rows : x.day \in search[q].req.from..search[q].req.to}
         = {x \in search[q].got.restrictions : x.day \in search[q].req.from..search[q].req.to}
  PROVE  Available(search[q], r) <=>
           /\ FitsCapacity(r, search[q].req.adults, search[q].req.children)
           /\ Sellable(q, r, rows)
<1> DEFINE s == search[q]
           stay == [from |-> s.req.from, to |-> s.req.to]
<1>1. s.req.from \in Int /\ s.req.to \in Int /\ s.req.from < s.req.to
  BY StayDays DEF Covering, CoversStay
<1>2. stay.from = s.req.from /\ stay.to = s.req.to
  OBVIOUS
<1> HIDE DEF s, stay
<1>3. stay.from \in Int /\ stay.to \in Int /\ stay.from <= stay.to
  BY <1>1, <1>2
<1>4. {x \in rows : x.day \in stay.from..stay.to} = {x \in s.got.restrictions : x.day \in stay.from..stay.to}
  BY <1>2 DEF s
<1>5. EvaluateRestrictions(stay, s.now, r, rows) = EvaluateRestrictions(stay, s.now, r, s.got.restrictions)
  BY <1>3, <1>4, WithinStay
<1>6. Sellable(q, r, rows) = EvaluateRestrictions(stay, s.now, r, rows)
  BY Zenon DEF Sellable, s, stay
<1>7. Available(s, r) <=> /\ FitsCapacity(r, s.req.adults, s.req.children)
                          /\ EvaluateRestrictions(stay, s.now, r, s.got.restrictions)
  BY Zenon DEF Available, stay
<1> QED BY <1>5, <1>6, <1>7, Zenon DEF s

LEMMA SeasonHeld ==
  ASSUME SearchInductive, NEW q \in Searches, Answered(q), NEW c \in search[q].got.contracts2,
         NEW t \in always[q].seasons, t.contract = c.id, SeasonCovers(search[q], t),
         \A u \in ever[q].seasons : u.contract = c.id /\ SeasonCovers(search[q], u) => u.id = t.id
  PROVE  t \in Covering(search[q])
<1> DEFINE s == search[q]
           Fits(u) == u.contract = t.contract /\ CoversStay(u, s)
<1>1. SeasonsFound(s, World(q))
  BY AllFound DEF Found, Queries, Stages, Range
<1>2. \A u : SeasonCovers(s, u) <=> CoversStay(u, s)
  BY DEF SeasonCovers, CoversStay
<1>3. t \in s.got.seasons
  <2>1. t.contract \in {x.id : x \in s.got.contracts2}
    OBVIOUS
  <2> QED BY <1>1, <2>1, Zenon DEF SeasonsFound, World
<1>4. Fits(t)
  BY <1>2
<1>5. \A u \in s.got.seasons : Fits(u) => u = t
  <2>1. s.got.seasons \subseteq ever[q].seasons /\ IdsDistinct(s.got.seasons)
    BY <1>1 DEF SeasonsFound, World
  <2> QED BY <1>2, <1>3, <2>1 DEF IdsDistinct
<1>6. t = CHOOSE u \in s.got.seasons : u.contract = t.contract /\ CoversStay(u, s)
  BY <1>3, <1>4, <1>5, Zenon
<1> QED BY <1>3, <1>4, <1>6, Zenon DEF Covering

(* Nothing that could be sold all along is withheld: a rate of a contract  *)
(* and of the one season of it that covers the stay, there from the first  *)
(* statement of the search to its answer, and that no restriction it may   *)
(* have read closes, is offered (SearchService.search,                     *)
(* AuthoredSearchService.assemble).                                        *)
THEOREM OffersComplete == Spec => []NothingWithheld
<1>1. SearchInductive => NothingWithheld
  <2> SUFFICES ASSUME SearchInductive, NEW q \in Searches, Answered(q),
                      NEW r \in always[q].rates, NEW c \in always[q].contracts,
                      NEW t \in always[q].seasons,
                      r.contract = c.id, r.season = t.id, t.contract = c.id,
                      ContractCovers(search[q], c), SeasonCovers(search[q], t), HotelAsked(q, c),
                      \A u \in ever[q].seasons :
                        u.contract = c.id /\ SeasonCovers(search[q], u) => u.id = t.id,
                      FitsCapacity(r, search[q].req.adults, search[q].req.children),
                      \A restrictions \in MayHaveRead(q, c, "restrictions") :
                        Sellable(q, r, restrictions)
               PROVE  \E o \in AuthoredOf(q) : o.key = r.id
    BY DEF NothingWithheld
  <2> DEFINE s == search[q]
  <2>1. c \in s.got.contracts2
    <3>1. ContractsFound(s, World(q), s.got.contracts2)
      BY AllFound DEF Found, Queries, Stages, Range
    <3> QED BY <3>1, AskedFound, Zenon DEF ContractsFound, World
  <2>2. t \in Covering(s)
    BY <2>1, SeasonHeld
  <2>3. c \in Usable(s)
    BY <2>1, <2>2 DEF Usable
  <2>4. r \in s.got.rates
    <3>1. UsableFound(s, World(q), "rates")
      BY AllFound DEF Found, Queries, Stages, Range
    <3>2. r.contract \in {x.id : x \in Usable(s)} /\ r.season \in {u.id : u \in Covering(s)}
      BY <2>2, <2>3
    <3>3. r \in OfUsable(always[q].rates, s)
      BY <3>2, Zenon DEF OfUsable
    <3> QED BY <3>1, <3>3 DEF UsableFound, World
  <2>5. Available(s, r)
    <3>1. PICK rows \in MayHaveRead(q, c, "restrictions") :
            {x \in rows : x.day \in s.req.from..s.req.to}
            = {x \in s.got.restrictions : x.day \in s.req.from..s.req.to}
      BY <2>3, RestrictionsRead
    <3> QED BY <2>2, <3>1, SellableOnDays
  <2> DEFINE p == AuthoredOffer(s, c, t, r)
  <2>6. p \in Assemble(s)
    BY <2>1, <2>2, <2>4, <2>5, Assembled
  <2>7. p \in Priced(s)
    BY <2>6 DEF Priced
  <2>8. p.kind = "authored" /\ p.key = r.id
    BY AuthoredShape
  <2> HIDE DEF p
  <2>9. PICK o \in Offers(s) : SameOffer(o, p)
    BY <2>7, OffersPriced
  <2>10. o.kind = "authored" /\ o.key = r.id
    BY <2>8, <2>9 DEF SameOffer
  <2>11. OffersOf(q) = Offers(s)
    BY OffersShown DEF SearchInductive
  <2> QED BY <2>10, <2>11 DEF AuthoredOf
<1> QED BY <1>1, SearchInvariant, PTL

(* Supplements and bands that were there all along have been read.         *)
LEMMA NetRead ==
  ASSUME SearchInductive, NEW q \in Searches, Answered(q), NEW c \in Usable(search[q]),
         NEW t \in Covering(search[q]), NEW r, r.contract = c.id, r.season = t.id
  PROVE  \E supplements \in Between(q, "supplements"), bands \in Between(q, "bands") :
           AuthoredNet(search[q], c, t, r) = NetOf(q, r, supplements, bands)
<1> DEFINE s == search[q]
           supplements == always[q]["supplements"] \cup s.got.supplements
           bands == always[q]["bands"] \cup s.got.bands
           Rows(set) == {x \in set : /\ x.contract = r.contract /\ x.season = r.season
                                     /\ x.room = r.room /\ x.plan = r.plan}
           Ages(set) == {b \in set : b.contract = r.contract}
<1>1. UsableFound(s, World(q), "supplements") /\ BandsFound(s, World(q))
  BY AllFound DEF Found, Queries, Stages, Range
<1>2. supplements \in Between(q, "supplements") /\ bands \in Between(q, "bands")
  <2>1. \A table, rows : rows \subseteq ever[q][table] => always[q][table] \cup rows \in Between(q, table)
    <3> TAKE table, rows
    <3> HAVE rows \subseteq ever[q][table]
    <3>1. rows \ always[q][table] \in SUBSET (ever[q][table] \ always[q][table])
      OBVIOUS
    <3>2. always[q][table] \cup rows = always[q][table] \cup (rows \ always[q][table])
      OBVIOUS
    <3> QED BY <3>1, <3>2, Zenon DEF Between
  <2>2. s.got.supplements \subseteq ever[q]["supplements"] /\ s.got.bands \subseteq ever[q]["bands"]
    BY <1>1 DEF UsableFound, BandsFound, World
  <2> QED BY <2>1, <2>2, Zenon
<1>3. Rows(supplements) = Rows(s.got.supplements)
  <2>1. ASSUME NEW x \in always[q]["supplements"], x.contract = r.contract, x.season = r.season
        PROVE  x \in s.got.supplements
    <3>1. x.contract \in {d.id : d \in Usable(s)} /\ x.season \in {u.id : u \in Covering(s)}
      BY <2>1
    <3>2. x \in OfUsable(always[q]["supplements"], s)
      BY <2>1, <3>1, Zenon DEF OfUsable
    <3> QED BY <1>1, <3>2 DEF UsableFound, World
  <2> QED BY <2>1
<1>4. Ages(bands) = Ages(s.got.bands)
  <2>1. ASSUME NEW b \in always[q]["bands"], b.contract = r.contract
        PROVE  b \in s.got.bands
    <3>1. c \in s.got.contracts2
      BY DEF Usable
    <3>2. b.contract \in {d.id : d \in s.got.contracts2}
      BY <2>1, <3>1
    <3> QED BY <1>1, <2>1, <3>2, Zenon DEF BandsFound, World
  <2> QED BY <2>1
<1>5. RowsFor(s.got.supplements, c.id, t.id, r) = Rows(s.got.supplements)
      /\ {b \in s.got.bands : b.contract = c.id} = Ages(s.got.bands)
  BY Zenon DEF RowsFor
<1>6. NetOf(q, r, supplements, bands) =
        (s.req.to - s.req.from) * (r.amount + Occupancy(Rows(supplements), Ages(bands), s.req, r.base))
  BY Zenon DEF NetOf
<1>7. AuthoredNet(s, c, t, r) =
        (s.req.to - s.req.from)
          * (r.amount + Occupancy(Rows(s.got.supplements), Ages(s.got.bands), s.req, r.base))
  BY <1>5, Zenon DEF AuthoredNet
<1> HIDE DEF Rows, Ages, supplements, bands
<1>8. AuthoredNet(s, c, t, r) = NetOf(q, r, supplements, bands)
  BY <1>3, <1>4, <1>6, <1>7, Zenon
<1> QED BY <1>2, <1>8

(* No offer is made up of rows that never were: each direct offer has a    *)
(* base rate of a season that covers the stay and of a contract in force,  *)
(* for which some restrictions it may have read let it be sold, its price  *)
(* is that rate with supplements there were, and its cancellation policy   *)
(* one it may have read (AuthoredSearchService.assemble).                  *)
THEOREM OffersMadeOfRows == Spec => []OffersSellable
<1>1. SearchInductive => OffersSellable
  <2> SUFFICES ASSUME SearchInductive, NEW q \in Searches, NEW o \in AuthoredOf(q)
               PROVE  \E r \in ever[q].rates, c \in ever[q].contracts :
                 /\ r.id = o.key /\ c.id = r.contract /\ c.supplier = o.supplier
                 /\ ContractCovers(search[q], c)
                 /\ \E t \in ever[q].seasons :
                      t.id = r.season /\ t.contract = c.id /\ SeasonCovers(search[q], t)
                 /\ FitsCapacity(r, search[q].req.adults, search[q].req.children)
                 /\ \E restrictions \in MayHaveRead(q, c, "restrictions") :
                      Sellable(q, r, restrictions)
                 /\ \E supplements \in Between(q, "supplements"), bands \in Between(q, "bands") :
                      o.quote.net = NetOf(q, r, supplements, bands)
                 /\ \E policies \in MayHaveRead(q, c, "policies") :
                      o.policy = ResolveCancellationPolicy(search[q].now, r, policies)
    BY DEF OffersSellable
  <2> DEFINE s == search[q]
             w == World(q)
  <2>1. Answered(q) /\ o \in Offers(s) /\ o.kind = "authored"
    BY OffersShown DEF SearchInductive, AuthoredOf
  <2>2. PICK c \in s.got.contracts2, t \in Covering(s), r \in s.got.rates :
          /\ t.contract = c.id /\ r.contract = c.id /\ r.season = t.id /\ Available(s, r)
          /\ o.key = r.id /\ o.supplier = c.supplier /\ o.quote.net = AuthoredNet(s, c, t, r)
          /\ o.policy = ResolveCancellationPolicy(s.now, r, s.got.policies)
    BY <2>1, AuthoredShown
  <2>3. c \in Usable(s)
    BY <2>2 DEF Usable
  <2>4. r \in ever[q].rates
    <3>1. UsableFound(s, w, "rates")
      BY <2>1, AllFound DEF Found, Queries, Stages, Range
    <3> QED BY <3>1 DEF UsableFound, World
  <2>5. c \in ever[q].contracts /\ ContractCovers(s, c)
    <3>1. ContractsFound(s, w, s.got.contracts2)
      BY <2>1, AllFound DEF Found, Queries, Stages, Range
    <3> QED BY <3>1 DEF ContractsFound, World
  <2>6. t \in ever[q].seasons /\ SeasonCovers(s, t)
    <3>1. SeasonsFound(s, w)
      BY <2>1, AllFound DEF Found, Queries, Stages, Range
    <3>2. t \in s.got.seasons /\ CoversStay(t, s)
      BY DEF Covering
    <3> QED BY <3>1, <3>2 DEF SeasonsFound, World, SeasonCovers, CoversStay
  <2>7. /\ FitsCapacity(r, s.req.adults, s.req.children)
        /\ \E restrictions \in MayHaveRead(q, c, "restrictions") : Sellable(q, r, restrictions)
    <3>1. PICK rows \in MayHaveRead(q, c, "restrictions") :
            {x \in rows : x.day \in s.req.from..s.req.to}
            = {x \in s.got.restrictions : x.day \in s.req.from..s.req.to}
      BY <2>1, <2>3, RestrictionsRead
    <3> QED BY <2>1, <2>2, <3>1, SellableOnDays
  <2>8. \E supplements \in Between(q, "supplements"), bands \in Between(q, "bands") :
          o.quote.net = NetOf(q, r, supplements, bands)
    BY <2>1, <2>2, <2>3, NetRead
  <2>9. s.got.policies \in MayHaveRead(q, c, "policies")
    BY <2>1, <2>3, PoliciesRead
  <2> HIDE DEF s, w
  <2> QED BY <2>2, <2>4, <2>5, <2>6, <2>7, <2>8, <2>9 DEF s
<1> QED BY <1>1, SearchInvariant, PTL

-----------------------------------------------------------------------------
(* A pair of currencies is converted when there is a fresh snapshot for it.*)
FreshFor(snaps, p, base, quote, asOf) ==
  {s \in snaps : s.provider = p /\ s.base = base /\ s.quote = quote /\ s.at >= asOf - Ttl[p]}

LEMMA FreshestFound ==
  ASSUME NEW snaps, IsFiniteSet(snaps), \A s \in snaps : s.at \in Int,
         NEW p, NEW base, NEW quote, NEW asOf, FreshFor(snaps, p, base, quote, asOf) # {}
  PROVE  FindFreshest(snaps, p, base, quote, asOf) # {}
<1> DEFINE fresh == FreshFor(snaps, p, base, quote, asOf)
           R == {x \in fresh \X fresh : x[1].at > x[2].at}
<1>1. fresh \in SUBSET snaps
  BY DEF FreshFor
<1>2. \A s, t \in fresh : <<s, t>> \in R <=> s.at > t.at
  OBVIOUS
<1>3. FindFreshest(snaps, p, base, quote, asOf) = {s \in fresh : \A t \in fresh : t.at <= s.at}
  BY Zenon DEF FindFreshest, FreshFor
<1> HIDE DEF fresh, R
<1>4. IsFiniteSet(fresh) /\ fresh # {} /\ \A s \in fresh : s.at \in Int
  BY <1>1, FS_Subset DEF fresh
<1>5. /\ \A s \in fresh : <<s, s>> \notin R
      /\ \A s, t, u \in fresh : <<s, t>> \in R /\ <<t, u>> \in R => <<s, u>> \in R
  BY <1>2, <1>4
<1>6. PICK s \in fresh : \A t \in fresh : <<t, s>> \notin R
  BY <1>4, <1>5, FiniteLeast, Zenon
<1>7. ASSUME NEW t \in fresh
      PROVE  t.at <= s.at
  <2>1. ~(t.at > s.at)
    BY <1>2, <1>6
  <2>2. t.at \in Int /\ s.at \in Int
    BY <1>4
  <2> QED BY <2>1, <2>2
<1> QED BY <1>3, <1>7

LEMMA FreshestFresh ==
  ASSUME NEW snaps, NEW p, NEW base, NEW quote, NEW asOf
  PROVE  FindFreshest(snaps, p, base, quote, asOf) \subseteq FreshFor(snaps, p, base, quote, asOf)
BY DEF FindFreshest, FreshFor

LEMMA ApplyFxEmpty ==
  ASSUME NEW c, NEW to, NEW snaps, NEW asOf, NEW p
  PROVE  ApplyFx(c, to, snaps, asOf, p) = {} <=>
           /\ FindFreshest(snaps, p, c, to, asOf) = {} /\ FindFreshest(snaps, p, to, c, asOf) = {}
           /\ \/ FindFreshest(snaps, p, Pivot[p], c, asOf) = {}
              \/ FindFreshest(snaps, p, Pivot[p], to, asOf) = {}
<1> DEFINE direct == FindFreshest(snaps, p, c, to, asOf)
           inverse == FindFreshest(snaps, p, to, c, asOf)
           from == FindFreshest(snaps, p, Pivot[p], c, asOf)
           dest == FindFreshest(snaps, p, Pivot[p], to, asOf)
           ByDirect == {Conversion("DIRECT", s.rate, {s}) : s \in direct}
           ByInverse == {Conversion("INVERSE", InverseRate(s.rate), {s}) : s \in inverse}
           ByCross == {Conversion("CROSS_RATE", DeriveCrossRate(pair[1], pair[2]), {pair[1], pair[2]}) :
                       pair \in from \X dest}
<1>1. ApplyFx(c, to, snaps, asOf, p) =
        IF direct # {} THEN ByDirect ELSE IF inverse # {} THEN ByInverse ELSE ByCross
  BY Zenon DEF ApplyFx
<1>2. (direct # {} => ByDirect # {}) /\ (inverse # {} => ByInverse # {})
  <2> HIDE DEF direct, inverse
  <2> QED OBVIOUS
<1>3. ByCross = {} <=> from = {} \/ dest = {}
  <2> HIDE DEF from, dest
  <2>1. \A s \in from, t \in dest : <<s, t>> \in from \X dest
    OBVIOUS
  <2>2. from \X dest = {} <=> from = {} \/ dest = {}
    BY <2>1
  <2> QED BY <2>2
<1> HIDE DEF direct, inverse, from, dest, ByDirect, ByInverse, ByCross
<1>4. ApplyFx(c, to, snaps, asOf, p) = {} <=> direct = {} /\ inverse = {} /\ (from = {} \/ dest = {})
  BY <1>1, <1>2, <1>3
<1> QED BY <1>4, Zenon DEF direct, inverse, from, dest

(* What was there all along to convert by has been read, and converts.     *)
LEMMA ApplyFxGrows ==
  ASSUME NEW c, NEW to, NEW snaps, NEW rows, NEW asOf, NEW p,
         IsFiniteSet(rows), \A s \in rows : s.at \in Int,
         \A s \in snaps : s.provider = p /\ s.at >= asOf - Ttl[p] => s \in rows,
         ApplyFx(c, to, rows, asOf, p) = {}
  PROVE  ApplyFx(c, to, snaps, asOf, p) = {}
<1>1. ASSUME NEW base, NEW quote, FindFreshest(rows, p, base, quote, asOf) = {}
      PROVE  FindFreshest(snaps, p, base, quote, asOf) = {}
  <2>1. FreshFor(rows, p, base, quote, asOf) = {}
    BY <1>1, FreshestFound
  <2>2. FreshFor(snaps, p, base, quote, asOf) \subseteq FreshFor(rows, p, base, quote, asOf)
    BY DEF FreshFor
  <2> QED BY <2>1, <2>2, FreshestFresh
<1> QED BY <1>1, ApplyFxEmpty

LEMMA ApplyFxLegs ==
  ASSUME NEW c, NEW to, NEW snaps, NEW asOf, NEW p, NEW v \in ApplyFx(c, to, snaps, asOf, p)
  PROVE  \A l \in v.legs : l \in snaps /\ l.provider = p /\ l.at >= asOf - Ttl[p]
<1> DEFINE direct == FindFreshest(snaps, p, c, to, asOf)
           inverse == FindFreshest(snaps, p, to, c, asOf)
           from == FindFreshest(snaps, p, Pivot[p], c, asOf)
           dest == FindFreshest(snaps, p, Pivot[p], to, asOf)
           ByDirect == {Conversion("DIRECT", s.rate, {s}) : s \in direct}
           ByInverse == {Conversion("INVERSE", InverseRate(s.rate), {s}) : s \in inverse}
           ByCross == {Conversion("CROSS_RATE", DeriveCrossRate(pair[1], pair[2]), {pair[1], pair[2]}) :
                       pair \in from \X dest}
           Fine(l) == l \in snaps /\ l.provider = p /\ l.at >= asOf - Ttl[p]
<1>1. ApplyFx(c, to, snaps, asOf, p) =
        IF direct # {} THEN ByDirect ELSE IF inverse # {} THEN ByInverse ELSE ByCross
  BY Zenon DEF ApplyFx
<1>2. \A l : l \in direct \cup inverse \cup from \cup dest => Fine(l)
  BY FreshestFresh DEF FreshFor
<1> HIDE DEF direct, inverse, from, dest, Fine
<1>3. v \in ByDirect => \E s \in direct : v.legs = {s}
  <2>1. v \in ByDirect => \E s \in direct : v = Conversion("DIRECT", s.rate, {s})
    OBVIOUS
  <2> QED BY <2>1 DEF Conversion
<1>4. v \in ByInverse => \E s \in inverse : v.legs = {s}
  <2>1. v \in ByInverse => \E s \in inverse : v = Conversion("INVERSE", InverseRate(s.rate), {s})
    OBVIOUS
  <2> QED BY <2>1 DEF Conversion
<1>5. v \in ByCross => \E s \in from, t \in dest : v.legs = {s, t}
  <2>1. v \in ByCross => \E pair \in from \X dest : v.legs = {pair[1], pair[2]}
    <3>1. v \in ByCross => \E pair \in from \X dest :
            v = Conversion("CROSS_RATE", DeriveCrossRate(pair[1], pair[2]), {pair[1], pair[2]})
      OBVIOUS
    <3> QED BY <3>1 DEF Conversion
  <2>2. \A pair \in from \X dest : pair[1] \in from /\ pair[2] \in dest
    OBVIOUS
  <2> QED BY <2>1, <2>2
<1> HIDE DEF ByDirect, ByInverse, ByCross
<1>6. v \in ByDirect \/ v \in ByInverse \/ v \in ByCross
  BY <1>1
<1>7. \A l \in v.legs : Fine(l)
  BY <1>2, <1>3, <1>4, <1>5, <1>6
<1> QED BY <1>7 DEF Fine

LEMMA Converted ==
  ASSUME NEW s, NEW p \in Priced(s), s.req.display # None
  PROVE  LET conv == Convert(p.quote.currency, s.req.display, s.got.oxr, s.got.ecb, s.now) IN
         /\ Display(s, p).display = {} => conv = {}
         /\ \A d \in Display(s, p).display : \E v \in conv : d.legs = v.legs
<1> DEFINE conv == Convert(p.quote.currency, s.req.display, s.got.oxr, s.got.ecb, s.now)
           View(v) == [method |-> v.method, rate |-> v.rate, legs |-> v.legs,
                       amount |-> ConvertAmount(FromMinorUnits(p.quote.sell, p.quote.currency),
                                                v.rate, s.req.display)]
           view == {View(v) : v \in conv}
<1>1. Display(s, p) = [p EXCEPT !.display = view]
  BY Zenon DEF Display, Shown
<1>2. DOMAIN p = OfferFields
  BY OfferKinds
<1>3. \A v : View(v).legs = v.legs
  OBVIOUS
<1> HIDE DEF View, conv
<1>4. /\ view = {} => conv = {}
      /\ \A d \in view : \E v \in conv : d.legs = v.legs
  BY <1>3
<1> HIDE DEF view
<1>5. Display(s, p).display = view
  BY <1>1, <1>2 DEF OfferFields
<1> QED BY <1>4, <1>5 DEF conv

(* The row of fx_application of each conversion by one snapshot.           *)
LEMMA ConversionApplied ==
  ASSUME NEW q, NEW s, NEW o \in Offers(s), NEW d \in o.display, d.method # "CROSS_RATE",
         NEW l \in d.legs
  PROVE  [search |-> q, source |-> o.quote.currency, to |-> s.req.display,
          rate |-> d.rate, snapshot |-> SnapshotKey(l)] \in Applications(q, s)
<1> DEFINE ApplicationOf(x, y, z) ==
             [search |-> q, source |-> x.quote.currency, to |-> s.req.display,
              rate |-> y.rate, snapshot |-> SnapshotKey(z)]
           Rows(x, y) == {ApplicationOf(x, y, z) : z \in y.legs}
           Single(x) == {y \in x.display : y.method # "CROSS_RATE"}
           Of(x) == UNION {Rows(x, y) : y \in Single(x)}
<1>1. Applications(q, s) = UNION {Of(x) : x \in Offers(s)}
  BY Zenon DEF Applications
<1>2. d \in Single(o) /\ ApplicationOf(o, d, l) \in Rows(o, d)
  OBVIOUS
<1> HIDE DEF Rows, Single, ApplicationOf
<1>3. ApplicationOf(o, d, l) \in Of(o)
  BY <1>2
<1> HIDE DEF Of
<1>4. ApplicationOf(o, d, l) \in Applications(q, s)
  BY <1>1, <1>3
<1> QED BY <1>4 DEF ApplicationOf

(* A converted price can be traced: what it was converted by are stored    *)
(* snapshots, fresh when the search began; ECB was used only where OXR     *)
(* had no rate, and no price was left alone that a rate was there for; and *)
(* a conversion by one snapshot has its row of fx_application              *)
(* (buildDisplayFx, BatchConverter.convert).                               *)
THEOREM ConversionsTraced == Spec => []ConversionsOnRecord
<1>1. ASSUME SearchInductive, NEW q \in Searches, Answered(q), NEW o \in OffersOf(q),
             search[q].req.display \notin {None, o.quote.currency}
      PROVE  LET s == search[q]
                 From(p) == ApplyFx(o.quote.currency, s.req.display, always[q].snapshots, s.now, p) IN
             /\ o.display = {} => From("OXR") = {} /\ From("ECB") = {}
             /\ \A d \in o.display :
                  /\ \A l \in d.legs : l \in ever[q].snapshots /\ l.at >= s.now - Ttl[l.provider]
                  /\ (\E l \in d.legs : l.provider = "ECB") =>
                       From("OXR") = {} /\ \A l \in d.legs : l.provider = "ECB"
                  /\ d.method # "CROSS_RATE" => \A l \in d.legs :
                       [search |-> q, source |-> o.quote.currency, to |-> s.req.display,
                        rate |-> d.rate, snapshot |-> SnapshotKey(l)] \in applications
  <2> DEFINE s == search[q]
             w == World(q)
             c == o.quote.currency
             to == s.req.display
             From(p) == ApplyFx(c, to, always[q].snapshots, s.now, p)
             Oxr == ApplyFx(c, to, s.got.oxr, s.now, "OXR")
             Ecb == ApplyFx(c, to, s.got.ecb, s.now, "ECB")
  <2>1. o \in Offers(s)
    BY <1>1, OffersShown DEF SearchInductive
  <2>2. to # None /\ to # c
    BY <1>1
  <2>3. PICK p \in Priced(s) : o = Display(s, p) /\ o.quote = p.quote
    BY <2>1, OffersPriced DEF SameOffer
  <2>4. Convert(c, to, s.got.oxr, s.got.ecb, s.now) = IF Oxr # {} THEN Oxr ELSE Ecb
    BY <2>2, Zenon DEF Convert
  <2>5. SnapshotsFound(s, w, "OXR", s.got.oxr) /\ SnapshotsFound(s, w, "ECB", s.got.ecb)
        /\ Applications(q, s) \subseteq applications
    BY <1>1, AllFound DEF Found, Queries, Stages, Range, World
  <2>6. Oxr = {} => From("OXR") = {}
    BY <2>2, <2>5, ApplyFxGrows DEF SnapshotsFound, World
  <2>7. Ecb = {} => From("ECB") = {}
    BY <2>2, <2>5, ApplyFxGrows DEF SnapshotsFound, World
  <2>8. /\ s.got.oxr \subseteq ever[q].snapshots /\ s.got.ecb \subseteq ever[q].snapshots
    BY <2>5 DEF SnapshotsFound, World
  <2>9. /\ \A v \in Oxr : \A l \in v.legs :
             l \in ever[q].snapshots /\ l.provider = "OXR" /\ l.at >= s.now - Ttl["OXR"]
        /\ \A v \in Ecb : \A l \in v.legs :
             l \in ever[q].snapshots /\ l.provider = "ECB" /\ l.at >= s.now - Ttl["ECB"]
    BY <2>8, ApplyFxLegs
  <2> HIDE DEF Oxr, Ecb, From
  <2>10. /\ o.display = {} => Oxr = {} /\ Ecb = {}
         /\ \A d \in o.display : \E v \in IF Oxr # {} THEN Oxr ELSE Ecb : d.legs = v.legs
    BY <2>2, <2>3, <2>4, Converted
  <2>11. o.display = {} => From("OXR") = {} /\ From("ECB") = {}
    BY <2>6, <2>7, <2>10
  <2>12. ASSUME NEW d \in o.display
         PROVE  /\ \A l \in d.legs : l \in ever[q].snapshots /\ l.at >= s.now - Ttl[l.provider]
                /\ (\E l \in d.legs : l.provider = "ECB") =>
                     From("OXR") = {} /\ \A l \in d.legs : l.provider = "ECB"
    <3>1. PICK v \in IF Oxr # {} THEN Oxr ELSE Ecb : d.legs = v.legs
      BY <2>10
    <3>2. CASE Oxr # {}
      BY <2>9, <3>1, <3>2
    <3>3. CASE Oxr = {}
      BY <2>6, <2>9, <3>1, <3>3
    <3> QED BY <3>2, <3>3
  <2>13. ASSUME NEW d \in o.display, d.method # "CROSS_RATE", NEW l \in d.legs
         PROVE  [search |-> q, source |-> c, to |-> to, rate |-> d.rate,
                 snapshot |-> SnapshotKey(l)] \in applications
    BY <2>1, <2>5, <2>13, ConversionApplied
  <2> QED BY <2>11, <2>12, <2>13 DEF From
<1>2. SearchInductive => ConversionsOnRecord
  BY <1>1, Zenon DEF ConversionsOnRecord
<1> QED BY <1>2, SearchInvariant, PTL

-----------------------------------------------------------------------------
(* The rates of the supplier.  What is on record of them stays there.      *)
Richer(w, v) ==
  w.raws \subseteq v.raws /\ w.sourced \subseteq v.sourced /\ w.observed \subseteq v.observed
  /\ v.hotels \subseteq w.hotels

LEMMA RecordKept ==
  ASSUME NEW q, NEW w, NEW v, Richer(w, v)
  PROVE  /\ \A rate : OnRecord(q, w, rate) => OnRecord(q, v, rate)
         /\ \A c : CallFormed(q, w, c) => CallFormed(q, v, c)
<1>1. \A hotel, rate : Stored(q, w, hotel, rate) => Stored(q, v, hotel, rate)
  BY DEF Richer, Stored
<1>2. \A kind, hotel, code : Noted(w, kind, hotel, code) => Noted(v, kind, hotel, code)
  BY DEF Richer, Noted
<1>3. \A rate : OnRecord(q, w, rate) => OnRecord(q, v, rate)
  BY <1>1, <1>2 DEF OnRecord
<1>4. w.raws \subseteq v.raws
  BY DEF Richer
<1>5. ASSUME NEW c, CallFormed(q, w, c)
      PROVE  CallFormed(q, v, c)
  BY <1>1, <1>2, <1>3, <1>4, <1>5 DEF CallFormed
<1> QED BY <1>3, <1>5

LEMMA RecordsLater ==
  ASSUME CatalogueInductive, clock \in Nat, [Next]_vars, NEW q \in Searches, ~Start(q)
  PROVE  Richer(Records(q), Records(q)')
<1>1. raws \subseteq raws' /\ sourced \subseteq sourced' /\ observed \subseteq observed'
  BY DEF Next, Sell, SearchStep, AdapterStep, Start, Read, AskAdapter, TakeRates, Record,
    SearchFails, TriggerSearch, ProjectRates, Retry, CheckAvailability, PutRaw, RecordSnapshot,
    Observe, ProjectRate, CallFails, Stock, SyncContent, ContentSync, TriggerContentSync,
    ListHotels, StorePage, UpsertSupplierHotels, SyncFails, SyncStays, Administer, Audit,
    Exchange, vars, sourcingVars
<1>2. always'[q]["hotels"] \subseteq always[q]["hotels"]
  BY WorldLater, TableNames DEF Later, World
<1> QED BY <1>1, <1>2 DEF Richer, Records

LEMMA CallFields == DOMAIN NoCall = {"step", "hotel", "attempt", "left", "todo", "got"}
BY DEF NoCall

(* A call that got nothing yet holds nothing.                              *)
LEMMA BareCall ==
  ASSUME NEW q, NEW w, NEW c, DOMAIN c = DOMAIN NoCall, c.got = {},
         c.step \in {"idle", "http", "raw", "failed"}
  PROVE  CallFormed(q, w, c)
BY DEF CallFormed

LEMMA CallReset ==
  ASSUME NEW q, NEW w, NEW c,
         c = NoCall \/ \E hotel : c = [NoCall EXCEPT !.step = "http", !.hotel = hotel]
         \/ c = [NoCall EXCEPT !.step = "failed"]
  PROVE  CallFormed(q, w, c)
<1>1. NoCall.step = "idle" /\ NoCall.got = {}
  BY DEF NoCall
<1>2. CASE c = NoCall
  BY <1>1, <1>2, BareCall
<1>3. ASSUME NEW hotel, c = [NoCall EXCEPT !.step = "http", !.hotel = hotel]
      PROVE  CallFormed(q, w, c)
  <2>1. DOMAIN c = DOMAIN NoCall /\ c.got = {} /\ c.step = "http"
    BY <1>1, <1>3, CallFields
  <2> QED BY <2>1, BareCall
<1>4. CASE c = [NoCall EXCEPT !.step = "failed"]
  <2>1. DOMAIN c = DOMAIN NoCall /\ c.got = {} /\ c.step = "failed"
    BY <1>1, <1>4, CallFields
  <2> QED BY <2>1, BareCall
<1> QED BY <1>2, <1>3, <1>4

(* The adapter's own steps.                                                *)
LEMMA HttpKept ==
  ASSUME NEW q \in Searches, CallFormed(q, Records(q), call[q]), DOMAIN call = Searches,
         NEW w, Retry(q) \/ CheckAvailability(q)
  PROVE  CallFormed(q, w, call'[q])
<1>1. call[q].step = "http" /\ call[q].got = {} /\ DOMAIN call[q] = DOMAIN NoCall
  BY DEF Retry, CheckAvailability, CallFormed
<1>2. CASE Retry(q)
  <2>1. call'[q] = [call[q] EXCEPT !.attempt = @ + 1]
    BY <1>2 DEF Retry
  <2>2. DOMAIN call'[q] = DOMAIN NoCall /\ call'[q].got = {} /\ call'[q].step = "http"
    BY <1>1, <2>1, CallFields
  <2> QED BY <2>2, BareCall
<1>3. CASE CheckAvailability(q)
  <2>1. PICK rates : call' = [call EXCEPT ![q].step = "raw", ![q].left = rates]
    BY <1>3 DEF CheckAvailability
  <2>2. call'[q] = [call[q] EXCEPT !.step = "raw", !.left = rates]
    BY <2>1
  <2>3. DOMAIN call'[q] = DOMAIN NoCall /\ call'[q].got = {} /\ call'[q].step = "raw"
    BY <1>1, <2>2, CallFields
  <2> QED BY <2>3, BareCall
<1> QED BY <1>2, <1>3

LEMMA NextFormed ==
  ASSUME NEW q, NEW w, NEW c, DOMAIN c = DOMAIN NoCall, RawOf(q, c.hotel) \in w.raws,
         \A rate \in c.got : OnRecord(q, w, rate)
  PROVE  CallFormed(q, w, NextRate(c))
<1> DEFINE d == NextRate(c)
<1>1. /\ DOMAIN d = DOMAIN NoCall /\ d.got = c.got /\ d.hotel = c.hotel
      /\ d.step \in {"fetched", "snapshot"}
  BY CallFields DEF NextRate
<1> HIDE DEF d
<1>2. CallFormed(q, w, d)
  BY <1>1 DEF CallFormed
<1> QED BY <1>2 DEF d

LEMMA PutRawKept ==
  ASSUME NEW q \in Searches, CallFormed(q, Records(q), call[q]), DOMAIN call = Searches,
         PutRaw(q), Richer(Records(q), Records(q)')
  PROVE  CallFormed(q, Records(q)', call'[q])
<1>1. call'[q] = NextRate(call[q]) /\ raws' = raws \cup {RawOf(q, call[q].hotel)}
  BY DEF PutRaw
<1>2. DOMAIN call[q] = DOMAIN NoCall /\ call[q].got = {}
  BY DEF PutRaw, CallFormed
<1>3. RawOf(q, call[q].hotel) \in Records(q)'.raws
  BY <1>1 DEF Records
<1> QED BY <1>1, <1>2, <1>3, NextFormed

LEMMA SnapshotKept ==
  ASSUME NEW q \in Searches, CallFormed(q, Records(q), call[q]), DOMAIN call = Searches,
         RecordSnapshot(q), Richer(Records(q), Records(q)')
  PROVE  CallFormed(q, Records(q)', call'[q])
<1> DEFINE c == call[q]
           rate == Head(c.left)
           todo == Observations(rate)
           d == [c EXCEPT !.step = "observe", !.todo = todo]
           snap == SnapshotOf(q, c.hotel, rate)
           v == Records(q)'
<1>1. call'[q] = d /\ sourced' = sourced \cup {snap} /\ c.step = "snapshot"
  BY DEF RecordSnapshot
<1>2. CallFormed(q, v, c)
  BY RecordKept
<1>3. /\ DOMAIN c = DOMAIN NoCall /\ RawOf(q, c.hotel) \in v.raws
      /\ \A x \in c.got : OnRecord(q, v, x)
  BY <1>1, <1>2 DEF CallFormed
<1>4. snap \in v.sourced
  BY <1>1 DEF Records
<1>5. /\ snap.search = q /\ snap.hotel = c.hotel /\ snap.key = rate.key
      /\ snap.currency = rate.currency /\ snap.raw = RawOf(q, c.hotel)
      /\ snap.total = AdapterMinorUnits(rate.net, rate.currency)
  BY DEF SnapshotOf
<1>6. AdapterMinorUnits(rate.net, rate.currency) = ToMinorUnits(rate.net, rate.currency)
  BY Zenon DEF AdapterMinorUnits, ToMinorUnits, AdapterMinorUnit, MinorUnit
<1> HIDE DEF snap, v
<1>7. Stored(q, v, c.hotel, rate)
  BY <1>3, <1>4, <1>5, <1>6 DEF Stored
<1>8. "room" \in todo /\ "plan" \in todo
  BY DEF Observations
<1> HIDE DEF todo, rate
<1>9. /\ DOMAIN d = DOMAIN NoCall /\ d.step = "observe" /\ d.todo = todo
      /\ d.hotel = c.hotel /\ d.left = c.left /\ d.got = c.got
  BY <1>3, CallFields
<1> HIDE DEF d, c
<1>10. CallFormed(q, v, d)
  BY <1>3, <1>7, <1>8, <1>9 DEF CallFormed, rate
<1> QED BY <1>1, <1>10 DEF v

LEMMA ObserveKept ==
  ASSUME NEW q \in Searches, CallFormed(q, Records(q), call[q]), DOMAIN call = Searches,
         Observe(q), Richer(Records(q), Records(q)'), TablesSeen
  PROVE  CallFormed(q, Records(q)', call'[q])
<1> DEFINE c == call[q]
           rate == Head(c.left)
           v == Records(q)'
<1>1. PICK o \in c.todo :
        /\ observed' = observed \cup Upserted(o, c.hotel, rate)
        /\ call' = [call EXCEPT ![q].todo = @ \ {o}]
  BY DEF Observe
<1> DEFINE d == [c EXCEPT !.todo = @ \ {o}]
<1>2. call'[q] = d /\ c.step = "observe"
  BY <1>1 DEF Observe
<1>3. CallFormed(q, v, c)
  BY RecordKept
<1>4. v.hotels \subseteq db["hotels"]
  <2>1. Records(q)'.hotels \subseteq Records(q).hotels
    BY DEF Richer
  <2>2. Records(q).hotels \subseteq db["hotels"]
    BY TableNames DEF Records, TablesSeen
  <2> QED BY <2>1, <2>2
<1>5. v.observed = observed'
  BY DEF Records
<1>6. \A h \in v.hotels : h.supplier = Hotelbeds /\ h.code = c.hotel => h.id \in HotelRows(c.hotel)
  BY <1>4 DEF HotelRows
<1>7. o = "room" => Noted(v, "room", c.hotel, rate.room)
  <2>1. o = "room" => \A id \in HotelRows(c.hotel) :
          [kind |-> "room", hotel |-> id, code |-> rate.room] \in observed'
    BY <1>1 DEF Upserted, UpsertRoomMapping
  <2> HIDE DEF v
  <2> QED BY <1>5, <1>6, <2>1, Zenon DEF Noted
<1>8. o = "plan" => Noted(v, "plan", c.hotel, rate.plan)
  <2>1. o = "plan" => \A id \in HotelRows(c.hotel) :
          [kind |-> "plan", hotel |-> id, code |-> rate.plan] \in observed'
    BY <1>1 DEF Upserted, UpsertRatePlanMapping
  <2> HIDE DEF v
  <2> QED BY <1>5, <1>6, <2>1, Zenon DEF Noted
<1>9. /\ DOMAIN d = DOMAIN NoCall /\ d.step = "observe" /\ d.todo = c.todo \ {o}
      /\ d.hotel = c.hotel /\ d.left = c.left /\ d.got = c.got
  BY <1>2, <1>3, CallFields DEF CallFormed
<1> HIDE DEF d, c, v
<1>10. CallFormed(q, v, d)
  BY <1>2, <1>3, <1>7, <1>8, <1>9 DEF CallFormed, rate
<1> QED BY <1>2, <1>10 DEF v

LEMMA ProjectKept ==
  ASSUME NEW q \in Searches, CallFormed(q, Records(q), call[q]), DOMAIN call = Searches,
         ProjectRate(q), Richer(Records(q), Records(q)')
  PROVE  CallFormed(q, Records(q)', call'[q])
<1> DEFINE c == call[q]
           rate == Head(c.left)
           new == AdapterRate(c.hotel, rate)
           d == [c EXCEPT !.left = Tail(@), !.got = @ \cup {new}]
           v == Records(q)'
<1>1. call'[q] = NextRate(d) /\ c.step = "observe" /\ c.todo = {}
  BY Zenon DEF ProjectRate
<1>2. CallFormed(q, v, c)
  BY RecordKept
<1>3. /\ DOMAIN c = DOMAIN NoCall /\ RawOf(q, c.hotel) \in v.raws
      /\ \A x \in c.got : OnRecord(q, v, x)
      /\ Stored(q, v, c.hotel, rate)
      /\ Noted(v, "room", c.hotel, rate.room) /\ Noted(v, "plan", c.hotel, rate.plan)
  BY <1>1, <1>2 DEF CallFormed
<1>4. /\ new.hotel = c.hotel /\ new.key = rate.key /\ new.room = rate.room /\ new.plan = rate.plan
      /\ new.net = rate.net /\ new.currency = rate.currency /\ new.provenance = "PROVISIONAL"
  BY DEF AdapterRate, MoneyMovement
<1> HIDE DEF new, v, rate
<1>5. Stored(q, v, new.hotel, new)
  BY <1>3, <1>4 DEF Stored
<1>6. OnRecord(q, v, new)
  BY <1>3, <1>4, <1>5 DEF OnRecord
<1>7. DOMAIN d = DOMAIN NoCall /\ d.hotel = c.hotel /\ d.got = c.got \cup {new}
  BY <1>3, CallFields
<1> HIDE DEF d, c
<1>8. CallFormed(q, v, NextRate(d))
  BY <1>3, <1>6, <1>7, NextFormed
<1> QED BY <1>1, <1>8 DEF v

(* What becomes of the call of a search in a step.                         *)
LEMMA CallElsewhere ==
  ASSUME [Next]_vars, DOMAIN call = Searches, NEW q \in Searches, ~SearchStep(q), ~AdapterStep(q)
  PROVE  call'[q] = call[q]
<1>1. CASE ~Sell
  BY <1>1 DEF Next, Stock, SyncContent, ContentSync, TriggerContentSync, ListHotels, StorePage,
    UpsertSupplierHotels, SyncFails, SyncStays, Administer, Audit, Exchange, vars, sourcingVars
<1>2. ASSUME NEW p \in Searches, SearchStep(p) \/ AdapterStep(p)
      PROVE  call'[q] = call[q]
  <2>1. p # q
    BY <1>2
  <2>2. UNCHANGED call \/ \E c : call' = [call EXCEPT ![p] = c]
    <3>1. SearchStep(p) => UNCHANGED call \/ \E c : call' = [call EXCEPT ![p] = c]
      BY Zenon DEF SearchStep, Start, Read, AskAdapter, FetchRates, TakeRates, Record, SearchFails,
        TriggerSearch, ProjectRates, sourcingVars
    <3>2. CASE AdapterStep(p)
      <4>1. ASSUME NEW rates, call' = [call EXCEPT ![p].step = "raw", ![p].left = rates]
            PROVE  call' = [call EXCEPT ![p] = [@ EXCEPT !.step = "raw", !.left = rates]]
        BY <4>1
      <4>2. CASE CheckAvailability(p)
        BY <4>1, <4>2 DEF CheckAvailability
      <4>3. CASE RecordSnapshot(p)
        BY <4>3 DEF RecordSnapshot
      <4>4. CASE Retry(p) \/ PutRaw(p) \/ Observe(p) \/ ProjectRate(p) \/ CallFails(p)
        BY <4>4 DEF Retry, PutRaw, Observe, ProjectRate, CallFails
      <4> QED BY <3>2, <4>2, <4>3, <4>4 DEF AdapterStep
    <3> QED BY <1>2, <3>1, <3>2
  <2> QED BY <2>1, <2>2
<1> QED BY <1>1, <1>2 DEF Sell

LEMMA CallStep ==
  ASSUME RatesInductive, [Next]_vars, NEW q \in Searches
  PROVE  CallFormed(q, Records(q)', call'[q])
<1>1. CatalogueInductive /\ clock \in Nat /\ DOMAIN call = Searches /\ CallFormed(q, Records(q), call[q])
  BY DEF RatesInductive, SearchesFormed, CallsFormed
<1>2. CASE Start(q)
  <2>1. call' = call /\ call[q].step = "idle"
    BY <1>2 DEF Start, sourcingVars
  <2>2. DOMAIN call[q] = DOMAIN NoCall /\ call[q].got = {}
    BY <1>1, <2>1 DEF CallFormed
  <2> QED BY <2>1, <2>2, BareCall
<1>3. ASSUME ~Start(q)
      PROVE  Richer(Records(q), Records(q)')
  BY <1>1, <1>3, RecordsLater
<1>4. CASE call'[q] = call[q] /\ ~Start(q)
  BY <1>1, <1>3, <1>4, RecordKept
<1>5. CASE AskAdapter(q) \/ TakeRates(q) \/ SearchFails(q) \/ TriggerSearch(q) \/ ProjectRates(q)
  <2>1. call'[q] = NoCall \/ \E hotel : call'[q] = [NoCall EXCEPT !.step = "http", !.hotel = hotel]
    BY <1>1, <1>5 DEF AskAdapter, TakeRates, SearchFails, TriggerSearch, ProjectRates, FetchRates
  <2> QED BY <2>1, CallReset
<1>6. CASE (\E query \in Reads : Read(q, query)) \/ Record(q)
  <2>1. call' = call /\ ~Start(q)
    <3>1. call' = call /\ search[q].todo # {}
      BY <1>6 DEF Read, Record, sourcingVars
    <3>2. NoSearch.todo = {}
      BY DEF NoSearch
    <3> QED BY <3>1, <3>2 DEF Start
  <2> QED BY <1>4, <2>1
<1>7. CASE AdapterStep(q) /\ ~Start(q)
  <2>1. CASE CallFails(q)
    <3>1. call'[q] = [NoCall EXCEPT !.step = "failed"]
      BY <1>1, <2>1 DEF CallFails
    <3> QED BY <3>1, CallReset
  <2>2. TablesSeen
    BY <1>1 DEF CatalogueInductive
  <2> QED BY <1>1, <1>3, <1>7, <2>1, <2>2, HttpKept, PutRawKept, SnapshotKept, ObserveKept,
            ProjectKept DEF AdapterStep
<1> QED BY <1>1, <1>2, <1>4, <1>5, <1>6, <1>7, CallElsewhere DEF SearchStep

(* The rates a search holds are what the adapter answered.                 *)
LEMMA RatesMove ==
  ASSUME SearchesFormed, [Next]_vars, NEW q \in Searches
  PROVE  IF Start(q) THEN search'[q].rates = {}
         ELSE search'[q].rates \subseteq search[q].rates \cup call[q].got
<1>1. DOMAIN search = Searches /\ SearchFormed(q, search[q])
  BY DEF SearchesFormed
<1>2. \A req, outcome : Reset(req, outcome).rates = {} /\ Begun(req).rates = {}
  BY SearchFields DEF Reset, Begun, NoSearch
<1>3. CASE Start(q)
  <2>1. PICK req \in Requests :
          \/ search' = [search EXCEPT ![q] = Reset(req, Refusal(req))]
          \/ search' = [search EXCEPT ![q] = Begun(req)]
    BY <1>3, StartMove
  <2> QED BY <1>1, <1>2, <1>3, <2>1
<1>4. ASSUME NEW t, Going(q, t), Proceed(q, t)
      PROVE  search'[q].rates = t.rates
  <2>1. search'[q] = IF t.todo = {} THEN Advance(q, t) ELSE t
    BY <1>1, <1>4 DEF Proceed
  <2>2. Advance(q, t).rates = t.rates
    BY <1>4, AdvanceTo DEF SameButStage
  <2> QED BY <2>1, <2>2
<1>5. ASSUME NEW query \in Reads, Read(q, query), ~Start(q)
      PROVE  search'[q].rates \subseteq search[q].rates
  <2> DEFINE rows == Result(query, search[q])
             t == Fetched(search[q], query, rows)
  <2>1. query \in search[q].todo
    BY <1>5 DEF Read
  <2>2. \/ \E outcome \in {"NOT_FOUND", "FORBIDDEN"} :
             search' = [search EXCEPT ![q] = Reset(search[q].req, outcome)]
        \/ Proceed(q, t)
    BY <1>5, ReadMoves DEF ReadMove
  <2> HIDE DEF rows
  <2>3. Going(q, t) /\ t.rates = search[q].rates
    BY <1>1, <2>1, ReadEdit
  <2> HIDE DEF t
  <2> QED BY <1>1, <1>2, <1>4, <2>2, <2>3
<1>6. CASE TakeRates(q) /\ ~Start(q)
  <2> DEFINE t == Taken(search[q], search[q].rates \cup call[q].got)
  <2>1. "hotels" \in search[q].todo /\ Proceed(q, t)
    BY <1>6, Zenon DEF TakeRates, Taken
  <2>2. Going(q, t) /\ t.rates = search[q].rates \cup call[q].got
    BY <1>1, <2>1, TakeEdit
  <2> HIDE DEF t
  <2> QED BY <1>4, <1>6, <2>1, <2>2
<1>7. CASE Record(q) /\ ~Start(q)
  <2> DEFINE t == [search[q] EXCEPT !.todo = {}]
  <2>1. "record" \in search[q].todo /\ Proceed(q, t)
    BY <1>7, Zenon DEF Record
  <2>2. Going(q, t) /\ t.rates = search[q].rates
    BY <1>1, <2>1, RecordEdit DEF SameButStage
  <2> HIDE DEF t
  <2> QED BY <1>4, <1>7, <2>1, <2>2
<1>8. CASE SearchFails(q) /\ ~Start(q)
  <2>1. search' = [search EXCEPT ![q] = Reset(search[q].req, "ERROR")]
    BY <1>8, Zenon DEF SearchFails, Refuse, Reset
  <2> QED BY <1>1, <1>2, <1>8, <2>1
<1>9. CASE search'[q] = search[q] /\ ~Start(q)
  BY <1>9
<1>10. CASE ~SearchStep(q)
  <2>1. ASSUME NEW p \in Searches, p # q, SearchStep(p)
        PROVE  search'[q] = search[q]
    <3>1. UNCHANGED search \/ \E s : search' = [search EXCEPT ![p] = s]
      <4>1. CASE Start(p)
        BY <4>1, StartMove
      <4>2. CASE ~Start(p)
        BY <2>1, <4>2, Zenon DEF SearchStep, Read, Refuse, Proceed, AskAdapter, TakeRates, Record,
          SearchFails, TriggerSearch, ProjectRates, searchVars
      <4> QED BY <4>1, <4>2
    <3> QED BY <1>1, <2>1, <3>1
  <2>2. ~Sell => search' = search
    BY OutsideSearch DEF searchVars
  <2>3. search'[q] = search[q]
    BY <1>10, <2>1, <2>2 DEF Sell, searchVars
  <2>4. ~Start(q)
    BY <1>10 DEF SearchStep
  <2> QED BY <1>9, <2>3, <2>4
<1>11. CASE AskAdapter(q) \/ TriggerSearch(q) \/ ProjectRates(q)
  <2>1. search' = search
    BY <1>11 DEF AskAdapter, TriggerSearch, ProjectRates, searchVars
  <2> QED BY <1>3, <1>9, <2>1
<1> QED BY <1>3, <1>5, <1>6, <1>7, <1>8, <1>10, <1>11 DEF SearchStep

(* The search holds, and the adapter answers, only rates that are on       *)
(* record: the invariant that RatesOnRecord rests on (HotelbedsAdapter,    *)
(* runSourcedSearchAndPersist).                                            *)
THEOREM RatesInvariant == Spec => []RatesInductive
<1>1. Init => RatesInductive
  <2>1. Init => CatalogueInductive /\ SearchesFormed
    BY CatalogueStarts, SearchStarts
  <2> SUFFICES ASSUME Init PROVE CallsFormed /\ RatesTaken
    BY <2>1 DEF RatesInductive
  <2>2. call = [q \in Searches |-> NoCall] /\ search = [q \in Searches |-> NoSearch]
    BY DEF Init, SourcingInit, SearchInit
  <2>3. CallsFormed
    BY <2>2, CallReset DEF CallsFormed
  <2>4. NoSearch.rates = {}
    BY DEF NoSearch
  <2> QED BY <2>2, <2>3, <2>4 DEF RatesTaken
<1>2. RatesInductive /\ [Next]_vars => RatesInductive'
  <2> SUFFICES ASSUME RatesInductive, [Next]_vars PROVE RatesInductive'
    OBVIOUS
  <2>1. CatalogueInductive' /\ SearchesFormed'
    BY CatalogueStep, FormedStep DEF RatesInductive
  <2>2. CallsFormed'
    <3>1. DOMAIN call' = Searches
      <4>1. DOMAIN call = Searches
        BY DEF RatesInductive, CallsFormed
      <4> QED BY <4>1 DEF Next, Sell, SearchStep, AdapterStep, Start, Read, AskAdapter, FetchRates,
                   TakeRates, Record, SearchFails, TriggerSearch, ProjectRates, Retry,
                   CheckAvailability, PutRaw, RecordSnapshot, Observe, ProjectRate, CallFails,
                   Stock, SyncContent, ContentSync, TriggerContentSync, ListHotels, StorePage,
                   UpsertSupplierHotels, SyncFails, SyncStays, Administer, Audit, Exchange, vars,
                   sourcingVars
    <3> QED BY <3>1, CallStep DEF CallsFormed
  <2>3. ASSUME NEW q \in Searches, NEW rate \in search'[q].rates
        PROVE  OnRecord(q, Records(q)', rate)
    <3>1. ~Start(q) /\ rate \in search[q].rates \cup call[q].got
      BY <2>3, RatesMove DEF RatesInductive
    <3>2. OnRecord(q, Records(q), rate)
      BY <3>1 DEF RatesInductive, RatesTaken, CallsFormed, CallFormed
    <3>3. Richer(Records(q), Records(q)')
      BY <3>1, RecordsLater DEF RatesInductive, SearchesFormed
    <3> QED BY <3>2, <3>3, RecordKept
  <2> QED BY <2>1, <2>2, <2>3 DEF RatesInductive, RatesTaken
<1> QED BY <1>1, <1>2, PTL DEF Spec

(* A rate of the supplier among the offers, and the rate it is of.         *)
LEMMA SourcedShown ==
  ASSUME NEW s, NEW o \in Offers(s), o.kind = "sourced"
  PROVE  \E r \in s.rates :
           /\ o.code = r.hotel /\ o.key = r.key /\ o.room = r.room /\ o.plan = r.plan
           /\ o.bookable = AssertRateBookable(r.provenance)
           /\ o.quote.net = ToMinorUnits(r.net, r.currency) /\ o.quote.currency = r.currency
<1>1. PICK p \in Priced(s) : SameOffer(o, p)
  BY OffersPriced
<1>2. /\ o.kind = p.kind /\ o.key = p.key /\ o.code = p.code /\ o.room = p.room /\ o.plan = p.plan
      /\ o.bookable = p.bookable /\ o.quote = p.quote
  BY <1>1 DEF SameOffer
<1>3. PICK r \in s.rates : p = PriceSourced(s, r)
  BY <1>2, OfferKinds
<1>4. /\ p.code = r.hotel /\ p.key = r.key /\ p.room = r.room /\ p.plan = r.plan
      /\ p.bookable = AssertRateBookable(r.provenance)
      /\ p.quote.net = ToMinorUnits(r.net, r.currency) /\ p.quote.currency = r.currency
  BY <1>3, SourcedFields
<1> QED BY <1>2, <1>4

(* Every rate of the supplier that is shown can be audited: its snapshot   *)
(* is stored with the total it is priced from, the payload it came in is   *)
(* in object storage, the codes of a hotel that has a row are there for    *)
(* the mapping pipeline, and it cannot be booked; one the adapter answers  *)
(* the internal endpoint with is stored too                                *)
(* (runSourcedSearchAndPersist, assertRateBookable).                       *)
THEOREM RatesAuditable == Spec => []RatesOnRecord
<1>1. ASSUME RatesInductive, NEW q \in Searches
      PROVE  /\ \A o \in {x \in OffersOf(q) : x.kind = "sourced"} :
                  /\ ~o.bookable
                  /\ \E s \in sourced :
                       /\ s.search = q /\ s.hotel = o.code /\ s.key = o.key
                       /\ s.total = o.quote.net /\ s.currency = o.quote.currency
                       /\ s.raw \in raws
                  /\ \A h \in always[q].hotels : h.supplier = Hotelbeds /\ h.code = o.code =>
                       /\ [kind |-> "room", hotel |-> h.id, code |-> o.room] \in observed
                       /\ [kind |-> "plan", hotel |-> h.id, code |-> o.plan] \in observed
             /\ \A rate \in call[q].got : \E s \in sourced :
                  s.search = q /\ s.hotel = rate.hotel /\ s.key = rate.key /\ s.raw \in raws
  <2>1. ASSUME NEW rate, OnRecord(q, Records(q), rate)
        PROVE  /\ ~AssertRateBookable(rate.provenance)
               /\ \E s \in sourced :
                    /\ s.search = q /\ s.hotel = rate.hotel /\ s.key = rate.key
                    /\ s.total = ToMinorUnits(rate.net, rate.currency)
                    /\ s.currency = rate.currency /\ s.raw \in raws
               /\ \A h \in always[q].hotels : h.supplier = Hotelbeds /\ h.code = rate.hotel =>
                    /\ [kind |-> "room", hotel |-> h.id, code |-> rate.room] \in observed
                    /\ [kind |-> "plan", hotel |-> h.id, code |-> rate.plan] \in observed
    BY <2>1 DEF OnRecord, Stored, Noted, Records, AssertRateBookable
  <2>2. ASSUME NEW o \in OffersOf(q), o.kind = "sourced"
        PROVE  \E r \in search[q].rates :
                 /\ o.code = r.hotel /\ o.key = r.key /\ o.room = r.room /\ o.plan = r.plan
                 /\ o.bookable = AssertRateBookable(r.provenance)
                 /\ o.quote.net = ToMinorUnits(r.net, r.currency)
                 /\ o.quote.currency = r.currency
    <3>1. SearchesFormed
      BY <1>1 DEF RatesInductive
    <3>2. o \in Offers(search[q])
      BY <2>2, <3>1, OffersShown
    <3> QED BY <2>2, <3>2, SourcedShown
  <2>3. \A r \in search[q].rates \cup call[q].got : OnRecord(q, Records(q), r)
    BY <1>1 DEF RatesInductive, RatesTaken, CallsFormed, CallFormed
  <2> QED BY <2>1, <2>2, <2>3
<1>2. RatesInductive => RatesOnRecord
  BY <1>1, Zenon DEF RatesOnRecord
<1> QED BY <1>2, RatesInvariant, PTL
=============================================================================
