---------------------------- MODULE Selling_proofs ----------------------------
(***************************************************************************)
(* The parts of Selling that searches read, or that run beside them: the   *)
(* tables and who changes them, the patches of two admins, the content     *)
(* sync, the audit reader, and the locks of bookings, for every value of   *)
(* the constants.                                                          *)
(***************************************************************************)
EXTENDS SellingInvariant, FiniteSetTheorems, WellFoundedInduction, TLAPS

(* A finite set has a least member under a strict order, given as a set of *)
(* pairs.                                                                  *)
LEMMA FiniteLeast ==
  ASSUME NEW T, IsFiniteSet(T), T # {}, NEW R,
         \A x \in T : <<x, x>> \notin R,
         \A x, y, z \in T : <<x, y>> \in R /\ <<y, z>> \in R => <<x, z>> \in R
  PROVE  \E x \in T : \A y \in T : <<y, x>> \notin R
<1> DEFINE Below(x) == {y \in T : <<y, x>> \in R}
           Ranks == {Cardinality(Below(x)) : x \in T}
<1>1. \A x \in T : IsFiniteSet(Below(x)) /\ Cardinality(Below(x)) \in Nat
  <2> TAKE x \in T
  <2>1. Below(x) \in SUBSET T
    OBVIOUS
  <2> HIDE DEF Below
  <2> QED BY <2>1, FS_Subset, FS_CardinalityType
<1>2. \A x, y \in T : <<y, x>> \in R => Cardinality(Below(y)) < Cardinality(Below(x))
  <2> SUFFICES ASSUME NEW x \in T, NEW y \in T, <<y, x>> \in R
               PROVE  Cardinality(Below(y)) < Cardinality(Below(x))
    OBVIOUS
  <2>1. Below(y) \in SUBSET Below(x) /\ y \in Below(x) /\ y \notin Below(y)
    OBVIOUS
  <2> HIDE DEF Below
  <2>2. Cardinality(Below(y)) <= Cardinality(Below(x)) /\ Cardinality(Below(y)) # Cardinality(Below(x))
    BY <2>1, <1>1, FS_Subset
  <2> QED BY <2>2, <1>1
<1> HIDE DEF Below
<1>3. \E n \in Ranks : \A m \in Ranks : ~(<<m, n>> \in OpToRel(<, Nat))
  <2>1. Ranks \subseteq Nat /\ Ranks # {}
    BY <1>1
  <2> HIDE DEF Ranks
  <2> QED BY <2>1, WFMin, NatLessThanWellFounded, Zenon
<1>4. PICK x \in T : \A m \in Ranks : ~(<<m, Cardinality(Below(x))>> \in OpToRel(<, Nat))
  BY <1>3
<1>5. \A y \in T : ~(Cardinality(Below(y)) < Cardinality(Below(x)))
  BY <1>4, <1>1, Zenon DEF OpToRel
<1> QED BY <1>5, <1>2
-----------------------------------------------------------------------------
Named(set) == set \subseteq Event /\ \A e, f \in set : e.id = f.id => e = f

(* Events are ordered by time, then id.                                    *)
LEMMA OlderOrders ==
  ASSUME NEW e \in Event, NEW f \in Event, NEW g \in Event
  PROVE  /\ ~Older(e, e)
         /\ Older(e, f) /\ Older(f, g) => Older(e, g)
         /\ e.id # f.id => Older(e, f) \/ Older(f, e)
<1>1. /\ e.at \in Nat /\ f.at \in Nat /\ g.at \in Nat
      /\ e.id \in EventIds /\ f.id \in EventIds /\ g.id \in EventIds
  BY Zenon DEF Event
<1>2. e.id \in Int /\ f.id \in Int /\ g.id \in Int
  BY <1>1, AuditAssumption
<1>3. ~Older(e, e)
  BY <1>1, <1>2 DEF Older
<1>4. Older(e, f) /\ Older(f, g) => Older(e, g)
  BY <1>1, <1>2 DEF Older
<1>5. e.id # f.id => Older(e, f) \/ Older(f, e)
  BY <1>1, <1>2 DEF Older
<1> QED BY <1>3, <1>4, <1>5

LEMMA OldestExists ==
  ASSUME NEW T, IsFiniteSet(T), T # {}, Named(T)
  PROVE  \E e \in T : \A f \in T \ {e} : Older(e, f)
<1> DEFINE R == {p \in T \X T : Older(p[1], p[2])}
<1>1. \A e, f \in T : <<e, f>> \in R <=> Older(e, f)
  OBVIOUS
<1>2. /\ \A e \in T : ~Older(e, e)
      /\ \A e, f, g \in T : Older(e, f) /\ Older(f, g) => Older(e, g)
      /\ \A e, f \in T : e # f => Older(e, f) \/ Older(f, e)
  BY OlderOrders, Zenon DEF Named
<1> HIDE DEF R
<1>3. \E e \in T : \A f \in T : <<f, e>> \notin R
  BY <1>1, <1>2, FiniteLeast, Zenon
<1> QED BY <1>1, <1>2, <1>3

(* Those newer than a newer event are fewer.                               *)
LEMMA RankFalls ==
  ASSUME NEW T, IsFiniteSet(T), Named(T), NEW e \in T, NEW f \in T, Older(e, f)
  PROVE  /\ Cardinality({g \in T : Older(f, g)}) \in Nat
         /\ Cardinality({g \in T : Older(e, g)}) \in Nat
         /\ Cardinality({g \in T : Older(f, g)}) < Cardinality({g \in T : Older(e, g)})
<1> DEFINE A == {g \in T : Older(f, g)}
           B == {g \in T : Older(e, g)}
<1>1. T \subseteq Event
  BY DEF Named
<1>2. A \in SUBSET B /\ f \in B /\ f \notin A /\ B \in SUBSET T
  BY <1>1, OlderOrders, Zenon
<1> HIDE DEF A, B
<1>3. IsFiniteSet(B) /\ IsFiniteSet(A)
  BY <1>2, FS_Subset
<1>4. Cardinality(A) \in Nat /\ Cardinality(B) \in Nat /\ Cardinality(A) <= Cardinality(B)
      /\ Cardinality(A) # Cardinality(B)
  BY <1>2, <1>3, FS_Subset, FS_CardinalityType
<1> QED BY <1>4 DEF A, B

(* Of the newest n + 1 events the newest n are all there is, or leave      *)
(* some out; whatever is left out is older than what is not.               *)
LEMMA PageCut ==
  ASSUME NEW S, IsFiniteSet(S), Named(S), NEW n \in Nat, n >= 1
  PROVE  LET fetchedRows == Newest(S, n + 1)
             page == Newest(fetchedRows, n) IN
         /\ page \subseteq S
         /\ \A e \in S \ page, p \in page : Older(e, p)
         /\ fetchedRows = page => page = S
         /\ fetchedRows # page => page # {}
<1> DEFINE Rank(T, e) == Cardinality({g \in T : Older(e, g)})
           F == Newest(S, n + 1)
           P == Newest(F, n)
<1>1. /\ F = {e \in S : Rank(S, e) < n + 1}
      /\ P = {e \in F : Rank(F, e) < n}
  BY DEF Newest
<1>2. F \in SUBSET S /\ P \in SUBSET F /\ P \in SUBSET S
  BY <1>1
<1>3. /\ \A e, f \in S : e # f => Older(e, f) \/ Older(f, e)
      /\ \A e \in S : ~Older(e, e)
      /\ \A e, f, g \in S : Older(e, f) /\ Older(f, g) => Older(e, g)
  BY OlderOrders, Zenon DEF Named
<1>4. \A e, f \in S : Older(e, f) =>
        Rank(S, f) \in Nat /\ Rank(S, e) \in Nat /\ Rank(S, f) < Rank(S, e)
  BY RankFalls, Zenon
<1>5. IsFiniteSet(F) /\ Named(F)
  BY <1>2, FS_Subset DEF Named
<1>6. \A e, f \in F : Older(e, f) =>
        Rank(F, f) \in Nat /\ Rank(F, e) \in Nat /\ Rank(F, f) < Rank(F, e)
  <2> HIDE DEF F
  <2> QED BY <1>5, RankFalls, Zenon
<1>7. \A e \in S : Rank(S, e) \in Nat
  <2> TAKE e \in S
  <2> DEFINE N == {g \in S : Older(e, g)}
  <2>1. N \in SUBSET S
    OBVIOUS
  <2>2. Cardinality(N) \in Nat
    <3> HIDE DEF N
    <3> QED BY <2>1, FS_Subset, FS_CardinalityType
  <2> QED BY <2>2
(* Above an event of F there are only events of F.                         *)
<1>8. \A e \in F : \A f \in S : Older(e, f) => f \in F
  <2> SUFFICES ASSUME NEW e \in F, NEW f \in S, Older(e, f) PROVE f \in F
    OBVIOUS
  <2>1. Rank(S, f) < Rank(S, e) /\ Rank(S, e) < n + 1 /\ Rank(S, f) \in Nat /\ Rank(S, e) \in Nat
    BY <1>1, <1>2, <1>4
  <2> HIDE DEF Rank, F, P
  <2> QED BY <2>1, <1>1
<1>9. \A e \in F : Rank(F, e) = Rank(S, e)
  <2> TAKE e \in F
  <2>1. {g \in F : Older(e, g)} = {g \in S : Older(e, g)}
    BY <1>2, <1>8
  <2> QED BY <2>1
<1>10. \A e \in F : e \in P <=> Rank(S, e) < n
  <2> HIDE DEF F, Rank
  <2> QED BY <1>1, <1>9
<1>11. \A e \in S : e \in P <=> Rank(S, e) < n
  <2> HIDE DEF Rank, F, P
  <2> QED BY <1>1, <1>2, <1>7, <1>10
<1>12. ASSUME NEW e \in S \ P, NEW p \in P PROVE Older(e, p)
  <2>1. Rank(S, e) >= n /\ Rank(S, p) < n /\ Rank(S, e) \in Nat /\ Rank(S, p) \in Nat /\ p \in S
    BY <1>2, <1>7, <1>11
  <2>2. ~Older(p, e)
    <3> HIDE DEF Rank, F, P
    <3> QED BY <2>1, <1>4
  <2> QED BY <2>1, <2>2, <1>3
<1>13. ASSUME F = P, P # S PROVE FALSE
  <2> DEFINE Rest == S \ P
             R == {x \in Rest \X Rest : Older(x[2], x[1])}
  <2>1. IsFiniteSet(Rest) /\ Rest # {}
    <3>1. Rest \in SUBSET S /\ Rest # {}
      BY <1>2, <1>13
    <3> HIDE DEF Rest
    <3> QED BY <3>1, FS_Subset
  <2>2. \A x, y \in Rest : <<x, y>> \in R <=> Older(y, x)
    OBVIOUS
  <2>3. /\ \A x \in Rest : ~Older(x, x)
        /\ \A x, y, z \in Rest : Older(x, y) /\ Older(y, z) => Older(x, z)
    BY <1>3
  <2> HIDE DEF R, Rest
  <2>4. PICK m \in Rest : \A y \in Rest : <<y, m>> \notin R
    BY <2>1, <2>2, <2>3, FiniteLeast, Zenon
  <2>5. m \in S /\ m \notin P /\ \A f \in S : Older(m, f) => f \in P
    BY <2>2, <2>4 DEF Rest
  <2>6. {g \in S : Older(m, g)} = P
    BY <2>5, <1>2, <1>12
  <2>7. Rank(S, m) = Cardinality(P) /\ Rank(S, m) > n
    <3>1. Rank(S, m) = Cardinality(P)
      BY <2>6
    <3>2. ~(Rank(S, m) < n + 1) /\ Rank(S, m) \in Nat
      BY <2>5, <1>13, <1>1, <1>7
    <3> HIDE DEF Rank
    <3> QED BY <3>1, <3>2
  <2> DEFINE f == [x \in P |-> Rank(S, x)]
             T == 0..(n - 1)
  <2>8. f \in [P -> T]
    <3>1. \A x \in P : Rank(S, x) \in Nat /\ Rank(S, x) < n
      BY <1>2, <1>7, <1>11
    <3> HIDE DEF Rank
    <3>2. \A x \in P : Rank(S, x) \in T
      BY <3>1
    <3> QED BY <3>2
  <2>9. IsFiniteSet(T) /\ Cardinality(T) = n
    BY FS_Interval
  <2>10. IsFiniteSet(P) /\ Cardinality(P) \in Nat
    <3> HIDE DEF P
    <3> QED BY <1>2, FS_Subset, FS_CardinalityType
  <2>11. Cardinality(T) < Cardinality(P)
    <3> HIDE DEF Rank, P, T
    <3> QED BY <2>7, <2>9, <2>10
  <2>12. \E x, y \in P : x # y /\ f[x] = f[y]
    <3> HIDE DEF f, T, P
    <3> QED BY <2>8, <2>9, <2>10, <2>11, FS_PigeonHole
  <2>13. \E x, y \in P : x # y /\ Rank(S, x) = Rank(S, y)
    BY <2>12
  <2> HIDE DEF Rank, P, F
  <2> QED BY <2>13, <1>2, <1>3, <1>4
<1>14. ASSUME F # P PROVE P # {}
  <2> DEFINE R == {x \in F \X F : Older(x[2], x[1])}
  <2>1. \A x, y \in F : <<x, y>> \in R <=> Older(y, x)
    OBVIOUS
  <2>2. /\ \A x \in F : ~Older(x, x)
        /\ \A x, y, z \in F : Older(x, y) /\ Older(y, z) => Older(x, z)
    BY <1>2, <1>3, Zenon
  <2>3. F # {}
    BY <1>2, <1>14
  <2> HIDE DEF R, F
  <2>4. PICK m \in F : \A y \in F : <<y, m>> \notin R
    BY <1>5, <2>1, <2>2, <2>3, FiniteLeast, Zenon
  <2>5. {g \in F : Older(m, g)} = {}
    BY <2>1, <2>4
  <2>6. Rank(F, m) = 0
    BY <2>5, FS_EmptySet
  <2> HIDE DEF Rank
  <2> QED BY <1>1, <2>6
<1> HIDE DEF F, P
<1> QED BY <1>2, <1>12, <1>13, <1>14 DEF F, P
-----------------------------------------------------------------------------
LEMMA TableNames ==
  Tables = {"accounts", "hotels", "mappings", "contracts", "seasons", "bands", "rates",
            "supplements", "meals", "restrictions", "policies", "rules", "promotions", "snapshots"}
BY Zenon DEF Tables, Columns

(* The contract pages and the mapping pipeline put rows into these.        *)
Edited == Tables \ {"hotels", "rules", "promotions", "snapshots"}

PutSome == \E table \in Edited : \E gone, come : Put(table, gone, come)

LEMMA EditsPut == EditTables => PutSome
<1>1. \A table \in Edited : \A gone, come : Put(table, gone, come) => PutSome
  BY Zenon DEF PutSome
<1>2. /\ "accounts" \in Edited /\ "mappings" \in Edited /\ "contracts" \in Edited
      /\ "seasons" \in Edited /\ "bands" \in Edited /\ "rates" \in Edited
      /\ "supplements" \in Edited /\ "meals" \in Edited
      /\ "restrictions" \in Edited /\ "policies" \in Edited
  BY TableNames DEF Edited
<1>3. SuspendAccount \/ ReviewMapping \/ PatchContract => PutSome
  BY <1>1, <1>2, Zenon DEF SuspendAccount, ReviewMapping, PatchContract
<1>4. CreateSeason \/ PatchSeason \/ DeleteSeason => PutSome
  BY <1>1, <1>2, Zenon DEF CreateSeason, PatchSeason, DeleteSeason
<1>5. CreateChildAgeBand \/ PatchChildAgeBand \/ DeleteChildAgeBand => PutSome
  BY <1>1, <1>2, Zenon DEF CreateChildAgeBand, PatchChildAgeBand, DeleteChildAgeBand
<1>6. CreateBaseRate \/ PatchBaseRate \/ DeleteBaseRate => PutSome
  BY <1>1, <1>2, Zenon DEF CreateBaseRate, PatchBaseRate, DeleteBaseRate
<1>7. CreateSupplement \/ PatchSupplement \/ DeleteSupplement => PutSome
  BY <1>1, <1>2, Zenon DEF CreateSupplement, PatchSupplement, DeleteSupplement
<1>8. CreateMeal \/ PatchMeal \/ DeleteMeal => PutSome
  BY <1>1, <1>2, Zenon DEF CreateMeal, PatchMeal, DeleteMeal
<1>9. CreateRestriction \/ SupersedeRestriction \/ CreatePolicy \/ SupersedePolicy => PutSome
  BY <1>1, <1>2, Zenon DEF CreateRestriction, SupersedeRestriction, CreatePolicy, SupersedePolicy
<1> QED BY <1>3, <1>4, <1>5, <1>6, <1>7, <1>8, <1>9, Zenon DEF EditTables

(* The clock is moved by Tick alone.                                       *)
LEMMA SellClock == Sell => clock' = clock
BY DEF Sell, SearchStep, AdapterStep, Start, Watch, Read, AskAdapter, TakeRates, Record,
  SearchFails, TriggerSearch, ProjectRates, Retry, CheckAvailability, PutRaw, RecordSnapshot,
  Observe, ProjectRate, CallFails, CallStays, catalogueVars

LEMMA ClockKept ==
  ASSUME Next, ~(Tick /\ Stock)
  PROVE  clock' = clock
<1>1. CASE Sell
  BY <1>1, SellClock
<1>2. CASE Stock
  BY <1>2, EditsPut DEF Stock, PutSome, Put
<1>3. CASE SyncContent
  BY <1>3 DEF SyncContent, ContentSync, TriggerContentSync, ListHotels, StorePage,
    UpsertSupplierHotels, SyncFails, catalogueVars
<1>4. CASE Administer
  BY <1>4 DEF Administer, MarketStep, Receive, Insert, Find, Update, WriteAudit, JobFails, MarketStays
<1>5. CASE Audit
  BY <1>5 DEF Audit, AuditStep, Emit, EndEmission, StartQuery, ListEvents, AuditStays, catalogueVars
<1>6. CASE Exchange
  BY <1>6 DEF Exchange, FxStep, FetchLatest, FetchEcb, UpsertBatch, Resolve, FetchQuote,
    LoadOxrOnly, InsertLock, ApplyRefund, FxStays
<1> QED BY <1>1, <1>2, <1>3, <1>4, <1>5, <1>6 DEF Next
-----------------------------------------------------------------------------
LEMMA CommitSeen ==
  ASSUME TablesSeen, NEW table \in Tables, NEW gone, NEW come, Commit(table, gone, come)
  PROVE  /\ TablesSeen'
         /\ db'[table] = (db[table] \ gone) \cup come
         /\ \A t \in Tables \ {table} : db'[t] = db[t]
<1>1. /\ DOMAIN db' = Tables
      /\ db'[table] = (db[table] \ gone) \cup come
      /\ \A t \in Tables \ {table} : db'[t] = db[t]
  BY DEF Commit, TablesSeen
<1>2. /\ DOMAIN ever' = Searches /\ DOMAIN always' = Searches
      /\ \A q \in Searches :
           /\ ever'[q] = [ever[q] EXCEPT ![table] = @ \cup come]
           /\ always'[q] = [always[q] EXCEPT ![table] = @ \ gone]
  BY DEF Commit
<1>3. ASSUME NEW q \in Searches
      PROVE  /\ DOMAIN ever'[q] = Tables /\ DOMAIN always'[q] = Tables
             /\ \A t \in Tables : always'[q][t] \subseteq db'[t] /\ db'[t] \subseteq ever'[q][t]
  <2>1. /\ DOMAIN ever'[q] = Tables /\ DOMAIN always'[q] = Tables
        /\ ever'[q][table] = ever[q][table] \cup come
        /\ always'[q][table] = always[q][table] \ gone
        /\ \A t \in Tables \ {table} : ever'[q][t] = ever[q][t] /\ always'[q][t] = always[q][t]
    BY <1>2 DEF TablesSeen
  <2>2. \A t \in Tables : always[q][t] \subseteq db[t] /\ db[t] \subseteq ever[q][t]
    BY DEF TablesSeen
  <2> QED BY <1>1, <2>1, <2>2
<1> QED BY <1>1, <1>2, <1>3 DEF TablesSeen

(* Which tables a step may write.                                          *)
Writes(tables) ==
  \/ UNCHANGED <<db, ever, always>>
  \/ \E table \in tables : \E gone, come : Commit(table, gone, come)

LEMMA SellWrites == Sell => Writes({}) \/ \E q \in Searches : Start(q)
BY DEF Sell, Writes, SearchStep, AdapterStep, Read, AskAdapter, TakeRates, Record,
  SearchFails, TriggerSearch, ProjectRates, Retry, CheckAvailability, PutRaw, RecordSnapshot,
  Observe, ProjectRate, CallFails, CallStays, catalogueVars

LEMMA StockWrites == Stock => Writes(Edited)
<1>1. Tick => UNCHANGED <<db, ever, always>>
  BY DEF Tick
<1>2. PutSome => \E table \in Edited : \E gone, come : Commit(table, gone, come)
  BY Zenon DEF PutSome, Put
<1> QED BY <1>1, <1>2, EditsPut DEF Stock, Writes

LEMMA SyncWrites == SyncContent => Writes({"hotels"})
<1>1. \A y \in Syncs : UpsertSupplierHotels(y) => \E gone, come : Commit("hotels", gone, come)
  BY Zenon DEF UpsertSupplierHotels
<1> QED BY <1>1 DEF Writes, SyncContent, ContentSync, TriggerContentSync, ListHotels, StorePage,
      SyncFails, catalogueVars

LEMMA AdministerWrites ==
  ASSUME Administer, \A w \in Admins : job[w].step \in {"insert", "update"} =>
                                         job[w].change.table \in {"rules", "promotions"}
  PROVE  Writes({"rules", "promotions"})
<1>1. ASSUME NEW w \in Admins, Insert(w)
      PROVE  Writes({"rules", "promotions"})
  <2>1. job[w].change.table \in {"rules", "promotions"}
    BY <1>1 DEF Insert
  <2> QED BY <1>1, <2>1, Zenon DEF Insert, Writes
<1>2. ASSUME NEW w \in Admins, Update(w)
      PROVE  Writes({"rules", "promotions"})
  <2>1. job[w].change.table \in {"rules", "promotions"}
    BY <1>2 DEF Update
  <2> QED BY <1>2, <2>1, Zenon DEF Update, Writes
<1> QED BY <1>1, <1>2 DEF Administer, MarketStep, Receive, Find, WriteAudit, JobFails, Writes

LEMMA AuditWrites == Audit => Writes({})
BY DEF Audit, AuditStep, Emit, EndEmission, StartQuery, ListEvents, AuditStays, catalogueVars, Writes

LEMMA ExchangeWrites == Exchange => Writes({"snapshots"})
<1>1. UpsertBatch => Writes({"snapshots"})
  BY Zenon DEF UpsertBatch, TablesStay, Writes
<1> QED BY <1>1 DEF Exchange, FxStep, FetchLatest, FetchEcb, Resolve, FetchQuote,
      LoadOxrOnly, InsertLock, ApplyRefund, TablesStay, Writes
-----------------------------------------------------------------------------
(* What the checks of a table ask of one row.                              *)
RowOk(table, r) ==
  /\ DOMAIN r = Columns[table]
  /\ table = "accounts" => AccountOk(r)
  /\ table = "contracts" => ContractOk(r)
  /\ table = "rates" => RateOk(db, r)
  /\ table = "supplements" => SupplementOk(db, r)
  /\ table = "meals" => MealOk(db, r)
  /\ table = "restrictions" => RestrictionOk(db, r)
  /\ table = "policies" => PolicyOk(r)
  /\ table = "rules" => RuleOk(r)
  /\ table = "promotions" => PromotionOk(r)
  /\ table = "snapshots" => SnapshotOk(r)

(* What they ask of its rows together.                                     *)
TogetherOk(table, rows) ==
  /\ table = "hotels" => HotelsOk(rows)
  /\ table = "mappings" => MappingsOk(rows)
  /\ table = "rates" => RatesDistinct(rows)
  /\ table = "supplements" => SupplementsDistinct(rows)
  /\ table \in {"rules", "promotions"} => IdsDistinct(rows)

LEMMA CommitOk ==
  ASSUME TablesOk(db), TablesSeen, NEW table \in Tables \ {"seasons", "bands"}, NEW gone, NEW come,
         Commit(table, gone, come), \A r \in come : RowOk(table, r),
         TogetherOk(table, (db[table] \ gone) \cup come)
  PROVE  TablesOk(db')
<1>1. /\ DOMAIN db' = Tables
      /\ db'[table] = (db[table] \ gone) \cup come
      /\ \A t \in Tables \ {table} : db'[t] = db[t]
  BY CommitSeen DEF TablesSeen
<1>2. db'.seasons = db.seasons /\ db'.bands = db.bands
  BY <1>1, TableNames
<1>3. /\ \A r : RateOk(db, r) => RateOk(db', r)
      /\ \A r : SupplementOk(db, r) => SupplementOk(db', r)
      /\ \A r : MealOk(db, r) => MealOk(db', r)
      /\ \A r : RestrictionOk(db, r) => RestrictionOk(db', r)
  BY <1>2, Zenon DEF RateOk, SupplementOk, MealOk, RestrictionOk, HasSeason, HasBand
<1>4. \A t \in Tables : \A r \in db'[t] : DOMAIN r = Columns[t]
  BY <1>1 DEF TablesOk, RowOk
<1>5. /\ HotelsOk(db'.hotels) /\ MappingsOk(db'.mappings)
      /\ RatesDistinct(db'.rates) /\ SupplementsDistinct(db'.supplements)
      /\ IdsDistinct(db'.rules) /\ IdsDistinct(db'.promotions)
  BY <1>1, TableNames DEF TablesOk, TogetherOk
<1>6. /\ \A r \in db'.accounts : AccountOk(r)
      /\ \A r \in db'.contracts : ContractOk(r)
      /\ \A r \in db'.rates : RateOk(db, r)
      /\ \A r \in db'.supplements : SupplementOk(db, r)
      /\ \A r \in db'.meals : MealOk(db, r)
  BY <1>1, TableNames DEF TablesOk, RowOk
<1>7. /\ \A r \in db'.restrictions : RestrictionOk(db, r)
      /\ \A r \in db'.policies : PolicyOk(r)
      /\ \A r \in db'.rules : RuleOk(r)
      /\ \A r \in db'.promotions : PromotionOk(r)
      /\ \A r \in db'.snapshots : SnapshotOk(r)
  BY <1>1, TableNames DEF TablesOk, RowOk
<1>8. /\ \A r \in db'.seasons : SeasonOk(r)
      /\ \A r \in db'.bands : BandOk(r)
      /\ IdsDistinct(db'.seasons)
  BY <1>2 DEF TablesOk
<1> QED BY <1>1, <1>3, <1>4, <1>5, <1>6, <1>7, <1>8, Zenon DEF TablesOk

(* The rows that refer to a season or a band still do.                     *)
LEMMA ReferencesOk ==
  ASSUME TablesOk(db), TablesSeen, NEW table \in {"seasons", "bands"}, NEW gone, NEW come,
         Commit(table, gone, come),
         \A r \in come : DOMAIN r = Columns[table],
         table = "seasons" => \A r \in come : SeasonOk(r),
         table = "seasons" => IdsDistinct((db[table] \ gone) \cup come),
         table = "bands" => \A r \in come : BandOk(r),
         \A rows \in {db.rates, db.supplements, db.meals, db.restrictions} : \A r \in rows :
           HasSeason(db, r) => HasSeason(db', r),
         \A r \in db.supplements \cup db.meals : HasBand(db, r) => HasBand(db', r)
  PROVE  TablesOk(db')
<1>1. /\ DOMAIN db' = Tables
      /\ db'[table] = (db[table] \ gone) \cup come
      /\ \A t \in Tables \ {table} : db'[t] = db[t]
  BY CommitSeen, TableNames DEF TablesSeen
<1>2. /\ db'.accounts = db.accounts /\ db'.hotels = db.hotels /\ db'.mappings = db.mappings
      /\ db'.contracts = db.contracts /\ db'.rates = db.rates
      /\ db'.supplements = db.supplements /\ db'.meals = db.meals
      /\ db'.restrictions = db.restrictions /\ db'.policies = db.policies
      /\ db'.rules = db.rules /\ db'.promotions = db.promotions /\ db'.snapshots = db.snapshots
  BY <1>1, TableNames
<1>3. /\ \A r \in db.rates : RateOk(db', r)
      /\ \A r \in db.restrictions : RestrictionOk(db', r)
  BY DEF TablesOk, RateOk, RestrictionOk
<1>4. /\ \A r \in db.supplements : SupplementOk(db', r)
      /\ \A r \in db.meals : MealOk(db', r)
  BY DEF TablesOk, SupplementOk, MealOk
<1>5. \A t \in Tables : \A r \in db'[t] : DOMAIN r = Columns[t]
  BY <1>1 DEF TablesOk
<1>6. /\ \A r \in db'.seasons : SeasonOk(r)
      /\ \A r \in db'.bands : BandOk(r)
      /\ IdsDistinct(db'.seasons)
  BY <1>1, TableNames DEF TablesOk
<1> QED BY <1>1, <1>2, <1>3, <1>4, <1>5, <1>6 DEF TablesOk

LEMMA DraftRows ==
  \A t \in {"seasons", "bands", "rates", "supplements", "meals", "restrictions", "policies"} :
    \A new \in NewRows(t) : new \in Drafts[t] /\ DOMAIN new = Columns[t]
BY TablesAssumption DEF NewRows

(* A policy gets a version.                                                *)
LEMMA PolicyNumbered ==
  ASSUME TablesOk(db), TablesSeen, IsFiniteSet(db.policies), NEW new \in Drafts.policies,
         EffectiveOk(new)
  PROVE  RowOk("policies", Numbered(new))
<1> DEFINE Scope(p) == <<p.tenant, p.supplier, p.hotel, p.plan, p.contract>>
           same == {p \in db.policies : Scope(p) = Scope(new)}
           versions == {p.version : p \in same} \cup {0}
           top == Max(versions)
<1>1. DOMAIN new = Columns.policies
  BY TablesAssumption
<1>2. versions \subseteq Nat
  BY DEF TablesOk, PolicyOk
<1>3. IsFiniteSet(versions)
  <2> DEFINE old == {p.version : p \in same}
             f == [p \in same |-> p.version]
  <2>1. IsFiniteSet(same)
    BY FS_Subset
  <2>2. f \in Surjection(same, old)
    BY DEF Surjection
  <2> HIDE DEF f, same
  <2>3. IsFiniteSet(old)
    BY <2>1, <2>2, FS_Surjection
  <2> QED BY <2>3, FS_AddElement
<1>4. \E n \in versions : \A m \in versions : n >= m
  <2> DEFINE R == {p \in versions \X versions : p[1] > p[2]}
  <2>1. \A m, n \in versions : <<m, n>> \in R <=> m > n
    OBVIOUS
  <2> HIDE DEF R, versions
  <2>2. /\ \A n \in versions : <<n, n>> \notin R
        /\ \A l, m, n \in versions : <<l, m>> \in R /\ <<m, n>> \in R => <<l, n>> \in R
    BY <1>2, <2>1
  <2>3. versions # {}
    BY DEF versions
  <2>4. \E n \in versions : \A m \in versions : <<m, n>> \notin R
    BY <1>3, <2>2, <2>3, FiniteLeast
  <2>5. PICK n \in versions : \A m \in versions : ~(m > n)
    BY <2>1, <2>4, Zenon
  <2>6. \A m \in versions : n >= m
    BY <1>2, <2>5
  <2> QED BY <2>6
<1>5. top \in Nat
  <2> HIDE DEF versions
  <2> QED BY <1>2, <1>4 DEF Max
<1>6. Numbered(new) = [new EXCEPT !.version = top + 1]
  BY Zenon DEF Numbered
<1> HIDE DEF top, versions
<1>7. /\ DOMAIN Numbered(new) = Columns.policies
      /\ Numbered(new).version = top + 1
      /\ Numbered(new).from = new.from /\ Numbered(new).to = new.to
  <2>1. "version" \in Columns.policies /\ "from" \in Columns.policies /\ "to" \in Columns.policies
    BY DEF Columns
  <2> QED BY <1>1, <1>6, <2>1
<1>8. PolicyOk(Numbered(new))
  BY <1>5, <1>7 DEF PolicyOk, EffectiveOk
<1> QED BY <1>7, <1>8 DEF RowOk

LEMMA ColumnNames ==
  /\ Columns.accounts = {"id", "tenant", "type", "status"}
  /\ Columns.hotels = {"id", "supplier", "code"}
  /\ Columns.mappings = {"supplierHotel", "hotel", "status"}
  /\ Columns.contracts = {"id", "tenant", "supplier", "hotel", "status", "from", "to"}
  /\ Columns.seasons = {"id", "contract", "from", "to"}
  /\ Columns.bands = {"id", "contract", "min", "max"}
  /\ Columns.rates = {"id", "contract", "season", "room", "plan", "amount", "currency", "base",
                      "maxAdults", "maxChildren", "maxTotal"}
  /\ Columns.supplements = {"id", "contract", "season", "room", "plan", "kind", "band", "slot", "amount"}
  /\ Columns.meals = {"id", "contract", "season", "room", "plan", "meal", "kind", "band", "amount"}
  /\ Columns.restrictions = {"id", "tenant", "supplier", "hotel", "contract", "season", "plan", "room",
                             "day", "kind", "param", "from", "to", "by"}
  /\ Columns.policies = {"id", "tenant", "supplier", "hotel", "contract", "plan", "windows", "version",
                         "from", "to", "by"}
  /\ Columns.rules =
       {"id", "tenant", "scope", "target", "percent", "priority", "status", "from", "to"}
  /\ Columns.promotions =
       {"id", "tenant", "hotel", "tag", "type", "priority", "status", "from", "to"}
BY DEF Columns

(* The commit of a row that is new, or that takes the place of another.    *)
LEMMA PutOk ==
  ASSUME TablesOk(db), TablesSeen, NEW table \in Tables \ {"seasons", "bands"}, NEW gone, NEW come,
         Put(table, gone, come), \A r \in come : RowOk(table, r),
         TogetherOk(table, (db[table] \ gone) \cup come)
  PROVE  TablesOk(db')
BY CommitOk DEF Put

LEMMA PeopleEditsOk ==
  ASSUME TablesOk(db), TablesSeen, SuspendAccount \/ ReviewMapping \/ PatchContract
  PROVE  TablesOk(db')
<1>1. CASE SuspendAccount
  <2>1. PICK a \in db.accounts : Put("accounts", {a}, {[a EXCEPT !.status = "SUSPENDED"]})
    BY <1>1 DEF SuspendAccount
  <2>2. RowOk("accounts", [a EXCEPT !.status = "SUSPENDED"])
    BY ColumnNames, TableNames DEF TablesOk, RowOk, AccountOk, AccountStatuses
  <2>3. TogetherOk("accounts", (db.accounts \ {a}) \cup {[a EXCEPT !.status = "SUSPENDED"]})
    BY DEF TogetherOk
  <2> QED BY <2>1, <2>2, <2>3, PutOk, TableNames
<1>2. CASE ReviewMapping
  <2>1. PICK m \in db.mappings, s \in {"REJECTED", "CONFIRMED"} :
          m.status = "PENDING" /\ Put("mappings", {m}, {[m EXCEPT !.status = s]})
    BY <1>2 DEF ReviewMapping
  <2> DEFINE new == [m EXCEPT !.status = s]
  <2>2. /\ DOMAIN new = Columns.mappings /\ new.status = s
        /\ new.supplierHotel = m.supplierHotel
    <3>1. DOMAIN m = Columns.mappings
      BY TableNames DEF TablesOk
    <3> QED BY <3>1, ColumnNames
  <2> HIDE DEF new
  <2>3. RowOk("mappings", new)
    BY <2>2 DEF RowOk
  <2>4. MappingsOk((db.mappings \ {m}) \cup {new})
    BY <2>1, <2>2 DEF TablesOk, MappingsOk, InForce, MappingStatuses
  <2>5. TogetherOk("mappings", (db.mappings \ {m}) \cup {new})
    BY <2>4 DEF TogetherOk
  <2>6. Put("mappings", {m}, {new})
    BY <2>1 DEF new
  <2> QED BY <2>3, <2>5, <2>6, PutOk, TableNames
<1>3. CASE PatchContract
  <2>1. PICK c \in db.contracts, s \in {"ACTIVE", "INACTIVE"} :
          Put("contracts", {c}, {[c EXCEPT !.status = s]})
    BY <1>3 DEF PatchContract
  <2>2. ContractOk(c) /\ DOMAIN c = Columns.contracts
    BY TableNames DEF TablesOk
  <2>3. RowOk("contracts", [c EXCEPT !.status = s])
    BY <2>2, ColumnNames DEF RowOk, ContractOk
  <2>4. TogetherOk("contracts", (db.contracts \ {c}) \cup {[c EXCEPT !.status = s]})
    BY DEF TogetherOk
  <2> QED BY <2>1, <2>3, <2>4, PutOk, TableNames
<1> QED BY <1>1, <1>2, <1>3

LEMMA SeasonEditsOk ==
  ASSUME TablesOk(db), TablesSeen, CreateSeason \/ PatchSeason \/ DeleteSeason
  PROVE  TablesOk(db')
<1> DEFINE Fits(gone, come) ==
        /\ Commit("seasons", gone, come)
        /\ \A r \in come : DOMAIN r = Columns.seasons /\ SeasonOk(r)
        /\ IdsDistinct((db.seasons \ gone) \cup come)
        /\ \A rows \in {db.rates, db.supplements, db.meals, db.restrictions} : \A r \in rows :
             \A s \in db.seasons :
               s.id = r.season /\ s.contract = r.contract =>
                 s \notin gone \/ \E u \in come : u.id = s.id /\ u.contract = s.contract
<1>1. PICK gone, come : Fits(gone, come)
  <2>1. CASE CreateSeason
    <3>1. PICK s \in NewRows("seasons") : ParseSeason(s) /\ Put("seasons", {}, {s})
      BY <2>1 DEF CreateSeason
    <3>2. DOMAIN s = Columns.seasons
      BY DraftRows
    <3>3. IdsDistinct((db.seasons \ {}) \cup {s})
      BY <3>1 DEF NewRows, TablesOk, IdsDistinct
    <3>4. Fits({}, {s})
      BY <3>1, <3>2, <3>3 DEF Put, ParseSeason
    <3> HIDE DEF Fits
    <3> QED BY <3>4
  <2>2. CASE PatchSeason
    <3>1. PICK s \in db.seasons, d \in Drafts.seasons :
            ParseSeason(d) /\ Put("seasons", {s}, {[s EXCEPT !.from = d.from, !.to = d.to]})
      BY <2>2 DEF PatchSeason
    <3> DEFINE new == [s EXCEPT !.from = d.from, !.to = d.to]
    <3>2. DOMAIN s = Columns.seasons
      BY TableNames DEF TablesOk
    <3>3. /\ DOMAIN new = Columns.seasons /\ new.from = d.from /\ new.to = d.to
          /\ new.id = s.id /\ new.contract = s.contract
      BY <3>2, ColumnNames
    <3>4. Commit("seasons", {s}, {new})
      BY <3>1 DEF Put
    <3> HIDE DEF new
    <3>5. IdsDistinct((db.seasons \ {s}) \cup {new})
      BY <3>1, <3>3 DEF TablesOk, IdsDistinct
    <3>6. DOMAIN new = Columns.seasons /\ SeasonOk(new)
      BY <3>1, <3>3 DEF ParseSeason, SeasonOk
    <3>7. Fits({s}, {new})
      BY <3>3, <3>4, <3>5, <3>6
    <3> HIDE DEF Fits
    <3> QED BY <3>7
  <2>3. CASE DeleteSeason
    <3>1. PICK s \in db.seasons :
            /\ \A rows \in {db.rates, db.supplements, db.meals, db.restrictions} : ~Refers(rows, s)
            /\ Put("seasons", {s}, {})
      BY <2>3 DEF DeleteSeason
    <3>2. Commit("seasons", {s}, {})
      BY <3>1 DEF Put
    <3>3. \A rows \in {db.rates, db.supplements, db.meals, db.restrictions} : \A r \in rows :
            ~(s.id = r.season /\ s.contract = r.contract)
      BY <3>1 DEF Refers
    <3>4. IdsDistinct((db.seasons \ {s}) \cup {})
      BY DEF TablesOk, IdsDistinct
    <3>5. Fits({s}, {})
      BY <3>2, <3>3, <3>4
    <3> HIDE DEF Fits
    <3> QED BY <3>5
  <2> QED BY <2>1, <2>2, <2>3
<1>2. db'.seasons = (db.seasons \ gone) \cup come /\ db'.bands = db.bands
  BY <1>1, CommitSeen, TableNames
<1>3. \A rows \in {db.rates, db.supplements, db.meals, db.restrictions} : \A r \in rows :
        HasSeason(db, r) => HasSeason(db', r)
  BY <1>1, <1>2 DEF HasSeason
<1>4. \A r \in db.supplements \cup db.meals : HasBand(db, r) => HasBand(db', r)
  BY <1>2 DEF HasBand
<1> QED BY <1>1, <1>3, <1>4, ReferencesOk

LEMMA BandEditsOk ==
  ASSUME TablesOk(db), TablesSeen, CreateChildAgeBand \/ PatchChildAgeBand \/ DeleteChildAgeBand
  PROVE  TablesOk(db')
<1>1. PICK gone, come :
        /\ Commit("bands", gone, come)
        /\ \A r \in come : DOMAIN r = Columns.bands /\ BandOk(r)
        /\ \A r \in db.supplements \cup db.meals : \A b \in db.bands :
             b.id = r.band /\ b.contract = r.contract =>
               b \notin gone \/ \E u \in come : u.id = b.id /\ u.contract = b.contract
  <2>1. CASE CreateChildAgeBand
    <3>1. PICK b \in NewRows("bands") : ParseBand(b) /\ Put("bands", {}, {b})
      BY <2>1 DEF CreateChildAgeBand
    <3>2. DOMAIN b = Columns.bands
      BY DraftRows
    <3> QED BY <3>1, <3>2 DEF Put, ParseBand, BandOk
  <2>2. CASE PatchChildAgeBand
    <3>1. PICK b \in db.bands, d \in Drafts.bands :
            /\ BandOk([b EXCEPT !.min = d.min, !.max = d.max])
            /\ Put("bands", {b}, {[b EXCEPT !.min = d.min, !.max = d.max]})
      BY <2>2 DEF PatchChildAgeBand
    <3> DEFINE new == [b EXCEPT !.min = d.min, !.max = d.max]
    <3>2. DOMAIN b = Columns.bands
      BY TableNames DEF TablesOk
    <3>3. DOMAIN new = Columns.bands /\ new.id = b.id /\ new.contract = b.contract
      BY <3>2, ColumnNames
    <3>4. Commit("bands", {b}, {new}) /\ BandOk(new)
      BY <3>1 DEF Put
    <3> HIDE DEF new
    <3> QED BY <3>3, <3>4
  <2>3. CASE DeleteChildAgeBand
    <3>1. PICK b \in db.bands :
            /\ \A r \in db.supplements \cup db.meals : r.band = b.id => r.contract # b.contract
            /\ Put("bands", {b}, {})
      BY <2>3 DEF DeleteChildAgeBand
    <3> QED BY <3>1 DEF Put
  <2> QED BY <2>1, <2>2, <2>3
<1>2. db'.bands = (db.bands \ gone) \cup come /\ db'.seasons = db.seasons
  BY <1>1, CommitSeen, TableNames
<1>3. \A rows \in {db.rates, db.supplements, db.meals, db.restrictions} : \A r \in rows :
        HasSeason(db, r) => HasSeason(db', r)
  BY <1>2 DEF HasSeason
<1>4. \A r \in db.supplements \cup db.meals : HasBand(db, r) => HasBand(db', r)
  BY <1>1, <1>2 DEF HasBand
<1> QED BY <1>1, <1>3, <1>4, ReferencesOk

LEMMA RateEditsOk ==
  ASSUME TablesOk(db), TablesSeen, CreateBaseRate \/ PatchBaseRate \/ DeleteBaseRate
  PROVE  TablesOk(db')
<1>1. CASE CreateBaseRate
  <2>1. PICK r \in NewRows("rates") :
          RateOk(db, r) /\ RatesDistinct(db.rates \cup {r}) /\ Put("rates", {}, {r})
    BY <1>1 DEF CreateBaseRate
  <2>2. RowOk("rates", r)
    <3>1. DOMAIN r = Columns.rates
      BY DraftRows
    <3> QED BY <2>1, <3>1 DEF RowOk
  <2>3. TogetherOk("rates", (db.rates \ {}) \cup {r})
    BY <2>1 DEF TogetherOk
  <2> QED BY <2>1, <2>2, <2>3, PutOk, TableNames
<1>2. CASE PatchBaseRate
  <2>1. PICK r \in db.rates, a \in {d.amount : d \in Drafts.rates} :
          a >= 0 /\ Put("rates", {r}, {[r EXCEPT !.amount = a]})
    BY <1>2 DEF PatchBaseRate
  <2> DEFINE new == [r EXCEPT !.amount = a]
  <2>2. DOMAIN r = Columns.rates /\ RateOk(db, r)
    BY TableNames DEF TablesOk
  <2>3. /\ DOMAIN new = Columns.rates /\ new.amount = a
        /\ \A c \in Columns.rates \ {"amount"} : new[c] = r[c]
    BY <2>2, ColumnNames
  <2> HIDE DEF new
  <2>4. RateKey(new) = RateKey(r) /\ new.season = r.season /\ new.contract = r.contract
    BY <2>3, ColumnNames DEF RateKey
  <2>5. RowOk("rates", new)
    BY <2>1, <2>2, <2>3, <2>4 DEF RowOk, RateOk, HasSeason
  <2>6. RatesDistinct((db.rates \ {r}) \cup {new})
    <3>1. RatesDistinct(db.rates)
      BY DEF TablesOk
    <3> QED BY <2>4, <3>1 DEF RatesDistinct
  <2>7. TogetherOk("rates", (db.rates \ {r}) \cup {new})
    BY <2>6 DEF TogetherOk
  <2>8. Put("rates", {r}, {new})
    BY <2>1 DEF new
  <2> QED BY <2>5, <2>7, <2>8, PutOk, TableNames
<1>3. CASE DeleteBaseRate
  <2>1. PICK r \in db.rates : Put("rates", {r}, {})
    BY <1>3 DEF DeleteBaseRate
  <2>2. TogetherOk("rates", (db.rates \ {r}) \cup {})
    BY DEF TogetherOk, TablesOk, RatesDistinct
  <2> QED BY <2>1, <2>2, PutOk, TableNames
<1> QED BY <1>1, <1>2, <1>3

LEMMA SupplementEditsOk ==
  ASSUME TablesOk(db), TablesSeen, CreateSupplement \/ PatchSupplement \/ DeleteSupplement
  PROVE  TablesOk(db')
<1>1. CASE CreateSupplement
  <2>1. PICK s \in NewRows("supplements") :
          /\ SupplementOk(db, s) /\ SupplementsDistinct(db.supplements \cup {s})
          /\ Put("supplements", {}, {s})
    BY <1>1 DEF CreateSupplement
  <2>2. RowOk("supplements", s)
    <3>1. DOMAIN s = Columns.supplements
      BY DraftRows
    <3> QED BY <2>1, <3>1 DEF RowOk
  <2>3. TogetherOk("supplements", (db.supplements \ {}) \cup {s})
    BY <2>1 DEF TogetherOk
  <2> QED BY <2>1, <2>2, <2>3, PutOk, TableNames
<1>2. CASE PatchSupplement
  <2>1. PICK s \in db.supplements, a \in {d.amount : d \in Drafts.supplements} :
          a >= 0 /\ Put("supplements", {s}, {[s EXCEPT !.amount = a]})
    BY <1>2 DEF PatchSupplement
  <2> DEFINE new == [s EXCEPT !.amount = a]
  <2>2. DOMAIN s = Columns.supplements /\ SupplementOk(db, s)
    BY TableNames DEF TablesOk
  <2>3. /\ DOMAIN new = Columns.supplements /\ new.amount = a
        /\ \A c \in Columns.supplements \ {"amount"} : new[c] = s[c]
    BY <2>2, ColumnNames
  <2> HIDE DEF new
  <2>4. /\ SupplementKey(new) = SupplementKey(s) /\ new.season = s.season
        /\ new.contract = s.contract /\ new.band = s.band /\ new.kind = s.kind /\ new.slot = s.slot
    BY <2>3, ColumnNames DEF SupplementKey
  <2>5. RowOk("supplements", new)
    BY <2>1, <2>2, <2>3, <2>4 DEF RowOk, SupplementOk, HasSeason, HasBand
  <2>6. SupplementsDistinct((db.supplements \ {s}) \cup {new})
    <3>1. SupplementsDistinct(db.supplements)
      BY DEF TablesOk
    <3> QED BY <2>4, <3>1 DEF SupplementsDistinct
  <2>7. TogetherOk("supplements", (db.supplements \ {s}) \cup {new})
    BY <2>6 DEF TogetherOk
  <2>8. Put("supplements", {s}, {new})
    BY <2>1 DEF new
  <2> QED BY <2>5, <2>7, <2>8, PutOk, TableNames
<1>3. CASE DeleteSupplement
  <2>1. PICK s \in db.supplements : Put("supplements", {s}, {})
    BY <1>3 DEF DeleteSupplement
  <2>2. TogetherOk("supplements", (db.supplements \ {s}) \cup {})
    BY DEF TogetherOk, TablesOk, SupplementsDistinct
  <2> QED BY <2>1, <2>2, PutOk, TableNames
<1> QED BY <1>1, <1>2, <1>3

LEMMA PutAlone ==
  ASSUME TablesOk(db), TablesSeen, NEW table \in {"meals", "restrictions", "policies"},
         NEW gone, NEW come, Put(table, gone, come), \A r \in come : RowOk(table, r)
  PROVE  TablesOk(db')
<1>1. TogetherOk(table, (db[table] \ gone) \cup come)
  BY DEF TogetherOk
<1> QED BY <1>1, PutOk, TableNames

LEMMA MealEditsOk ==
  ASSUME TablesOk(db), TablesSeen, CreateMeal \/ PatchMeal \/ DeleteMeal
  PROVE  TablesOk(db')
<1>2. CASE CreateMeal
  <2>1. PICK m \in NewRows("meals") : MealOk(db, m) /\ Put("meals", {}, {m})
    BY <1>2 DEF CreateMeal
  <2>2. RowOk("meals", m)
    <3>1. DOMAIN m = Columns.meals
      BY DraftRows
    <3> QED BY <2>1, <3>1 DEF RowOk
  <2> QED BY <2>1, <2>2, PutAlone
<1>3. CASE PatchMeal
  <2>1. PICK m \in db.meals, a \in {d.amount : d \in Drafts.meals} :
          a >= 0 /\ Put("meals", {m}, {[m EXCEPT !.amount = a]})
    BY <1>3 DEF PatchMeal
  <2> DEFINE new == [m EXCEPT !.amount = a]
  <2>2. DOMAIN m = Columns.meals /\ MealOk(db, m)
    BY TableNames DEF TablesOk
  <2>3. /\ DOMAIN new = Columns.meals /\ new.amount = a
        /\ \A c \in Columns.meals \ {"amount"} : new[c] = m[c]
    BY <2>2, ColumnNames
  <2> HIDE DEF new
  <2>4. /\ new.season = m.season /\ new.contract = m.contract
        /\ new.band = m.band /\ new.kind = m.kind
    BY <2>3, ColumnNames
  <2>5. RowOk("meals", new)
    BY <2>1, <2>2, <2>3, <2>4 DEF RowOk, MealOk, HasSeason, HasBand
  <2>6. Put("meals", {m}, {new})
    BY <2>1 DEF new
  <2> QED BY <2>5, <2>6, PutAlone
<1>4. CASE DeleteMeal
  <2>1. PICK m \in db.meals : Put("meals", {m}, {})
    BY <1>4 DEF DeleteMeal
  <2> QED BY <2>1, PutAlone
<1> QED BY <1>2, <1>3, <1>4

LEMMA RestrictionEditsOk ==
  ASSUME TablesOk(db), TablesSeen, CreateRestriction \/ SupersedeRestriction
  PROVE  TablesOk(db')
<1>2. \A r \in NewRows("restrictions") : RestrictionAllowed(r) => RowOk("restrictions", r)
  <2> SUFFICES ASSUME NEW r \in NewRows("restrictions"), RestrictionAllowed(r)
               PROVE  RowOk("restrictions", r)
    OBVIOUS
  <2>1. DOMAIN r = Columns.restrictions
    BY DraftRows
  <2>2. RestrictionOk(db, r)
    BY DEF RestrictionAllowed
  <2> QED BY <2>1, <2>2 DEF RowOk
<1>3. CASE CreateRestriction
  <2>1. PICK r \in NewRows("restrictions") : RestrictionAllowed(r) /\ Put("restrictions", {}, {r})
    BY <1>3 DEF CreateRestriction
  <2> QED BY <1>2, <2>1, PutAlone
<1>4. CASE SupersedeRestriction
  <2>1. PICK old \in db.restrictions, new \in NewRows("restrictions") :
          /\ RestrictionAllowed(new)
          /\ Put("restrictions", {old}, {[old EXCEPT !.by = new.id], new})
    BY <1>4 DEF SupersedeRestriction
  <2> DEFINE marked == [old EXCEPT !.by = new.id]
  <2>2. DOMAIN old = Columns.restrictions /\ RestrictionOk(db, old)
    BY TableNames DEF TablesOk
  <2>3. /\ DOMAIN marked = Columns.restrictions
        /\ \A c \in Columns.restrictions \ {"by"} : marked[c] = old[c]
    BY <2>2, ColumnNames
  <2>4. Put("restrictions", {old}, {marked, new})
    BY <2>1
  <2> HIDE DEF marked
  <2>5. /\ marked.kind = old.kind /\ marked.season = old.season /\ marked.contract = old.contract
        /\ marked.from = old.from /\ marked.to = old.to
    BY <2>3, ColumnNames
  <2>6. RowOk("restrictions", marked)
    BY <2>2, <2>3, <2>5 DEF RowOk, RestrictionOk, EffectiveOk, HasSeason
  <2>7. \A r \in {marked, new} : RowOk("restrictions", r)
    BY <1>2, <2>1, <2>6
  <2> QED BY <2>4, <2>7, PutAlone
<1> QED BY <1>3, <1>4

LEMMA PolicyEditsOk ==
  ASSUME TablesOk(db), TablesSeen, IsFiniteSet(db.policies), CreatePolicy \/ SupersedePolicy
  PROVE  TablesOk(db') /\ IsFiniteSet(db'.policies)
<1>2. \A new \in NewRows("policies") : PolicyAllowed(new) => RowOk("policies", Numbered(new))
  BY DraftRows, PolicyNumbered, Zenon DEF PolicyAllowed
<1>3. CASE CreatePolicy
  <2>1. PICK new \in NewRows("policies") : PolicyAllowed(new) /\ Put("policies", {}, {Numbered(new)})
    BY <1>3 DEF CreatePolicy
  <2>2. db'.policies = (db.policies \ {}) \cup {Numbered(new)}
    BY <2>1, CommitSeen, TableNames DEF Put
  <2>3. IsFiniteSet(db'.policies)
    BY <2>2, FS_AddElement
  <2>4. RowOk("policies", Numbered(new))
    BY <1>2, <2>1
  <2> QED BY <2>1, <2>3, <2>4, PutAlone
<1>4. CASE SupersedePolicy
  <2>1. PICK old \in db.policies, new \in NewRows("policies") :
          /\ PolicyAllowed(new)
          /\ Put("policies", {old}, {[old EXCEPT !.by = new.id], Numbered(new)})
    BY <1>4 DEF SupersedePolicy
  <2> DEFINE marked == [old EXCEPT !.by = new.id]
  <2>2. DOMAIN old = Columns.policies /\ PolicyOk(old)
    BY TableNames DEF TablesOk
  <2>3. /\ DOMAIN marked = Columns.policies
        /\ \A c \in Columns.policies \ {"by"} : marked[c] = old[c]
    BY <2>2, ColumnNames
  <2>4. Put("policies", {old}, {marked, Numbered(new)})
    BY <2>1
  <2> HIDE DEF marked
  <2>5. marked.version = old.version /\ marked.from = old.from /\ marked.to = old.to
    BY <2>3, ColumnNames
  <2>6. RowOk("policies", marked)
    BY <2>2, <2>3, <2>5 DEF RowOk, PolicyOk, EffectiveOk
  <2>7. \A r \in {marked, Numbered(new)} : RowOk("policies", r)
    BY <1>2, <2>1, <2>6
  <2>8. db'.policies = ((db.policies \ {old}) \cup {marked}) \cup {Numbered(new)}
    <3>1. db'.policies = (db.policies \ {old}) \cup {marked, Numbered(new)}
      BY <2>4, CommitSeen, TableNames DEF Put
    <3> QED BY <3>1
  <2>9. IsFiniteSet(db'.policies)
    <3>1. IsFiniteSet(db.policies \ {old})
      BY FS_RemoveElement
    <3>2. IsFiniteSet((db.policies \ {old}) \cup {marked})
      BY <3>1, FS_AddElement
    <3> QED BY <2>8, <3>2, FS_AddElement
  <2> QED BY <2>4, <2>7, <2>9, PutAlone
<1> QED BY <1>3, <1>4

(* The handlers that commit no policy leave that table alone.              *)
LEMMA PoliciesKept ==
  ASSUME EditTables, ~(CreatePolicy \/ SupersedePolicy), TablesSeen
  PROVE  db'.policies = db.policies
<1>1. \E table \in Tables \ {"policies"} : \E gone, come : Commit(table, gone, come)
  <2>1. \A table \in Tables \ {"policies"} : \A gone, come :
          Put(table, gone, come) => \E t \in Tables \ {"policies"} : \E g, c : Commit(t, g, c)
    BY Zenon DEF Put
  <2>2. /\ "accounts" \in Tables \ {"policies"} /\ "mappings" \in Tables \ {"policies"}
        /\ "contracts" \in Tables \ {"policies"} /\ "seasons" \in Tables \ {"policies"}
        /\ "bands" \in Tables \ {"policies"} /\ "rates" \in Tables \ {"policies"}
        /\ "supplements" \in Tables \ {"policies"} /\ "meals" \in Tables \ {"policies"}
        /\ "restrictions" \in Tables \ {"policies"}
    BY TableNames
  <2>3. CASE SuspendAccount \/ ReviewMapping \/ PatchContract
    BY <2>1, <2>2, <2>3, Zenon DEF SuspendAccount, ReviewMapping, PatchContract
  <2>4. CASE CreateSeason \/ PatchSeason \/ DeleteSeason
    BY <2>1, <2>2, <2>4, Zenon DEF CreateSeason, PatchSeason, DeleteSeason
  <2>5. CASE CreateChildAgeBand \/ PatchChildAgeBand \/ DeleteChildAgeBand
    BY <2>1, <2>2, <2>5, Zenon DEF CreateChildAgeBand, PatchChildAgeBand, DeleteChildAgeBand
  <2>6. CASE CreateBaseRate \/ PatchBaseRate \/ DeleteBaseRate
    BY <2>1, <2>2, <2>6, Zenon DEF CreateBaseRate, PatchBaseRate, DeleteBaseRate
  <2>7. CASE CreateSupplement \/ PatchSupplement \/ DeleteSupplement
    BY <2>1, <2>2, <2>7, Zenon DEF CreateSupplement, PatchSupplement, DeleteSupplement
  <2>8. CASE CreateMeal \/ PatchMeal \/ DeleteMeal
    BY <2>1, <2>2, <2>8, Zenon DEF CreateMeal, PatchMeal, DeleteMeal
  <2>9. CASE CreateRestriction \/ SupersedeRestriction
    BY <2>1, <2>2, <2>9, Zenon DEF CreateRestriction, SupersedeRestriction
  <2> QED BY <2>3, <2>4, <2>5, <2>6, <2>7, <2>8, <2>9, Zenon DEF EditTables
<1> QED BY <1>1, CommitSeen, TableNames
-----------------------------------------------------------------------------
(* A request moves on by itself, and keeps what it asked for.              *)
JobSet(w, new) ==
  /\ job' = [job EXCEPT ![w] = new]
  /\ new \in Job /\ JobKnown(new)
  /\ job[w].wrote => new.change = job[w].change /\ new.wrote

LEMMA JobSets ==
  ASSUME JobsKnown, NEW w \in Admins, NEW new, JobSet(w, new)
  PROVE  /\ JobsKnown'
         /\ \A v \in Admins \ {w} : job'[v] = job[v]
         /\ job[w].wrote => job'[w].change = job[w].change /\ job'[w].wrote
<1>1. job \in [Admins -> Job] /\ \A v \in Admins : JobKnown(job[v])
  BY DEF JobsKnown
<1>2. /\ job' = [job EXCEPT ![w] = new] /\ new \in Job /\ JobKnown(new)
      /\ job[w].wrote => new.change = job[w].change /\ new.wrote
  BY DEF JobSet
<1>3. job' \in [Admins -> Job] /\ job'[w] = new /\ \A v \in Admins \ {w} : job'[v] = job[v]
  BY <1>1, <1>2
<1>4. \A v \in Admins : JobKnown(job'[v])
  BY <1>1, <1>2, <1>3
<1> QED BY <1>2, <1>3, <1>4 DEF JobsKnown

LEMMA JobRecord ==
  ASSUME NEW j \in Job,
         NEW step \in {"idle", "insert", "find", "update", "audit", "done"},
         NEW change \in MarketChanges \cup {None}, NEW wrote \in BOOLEAN,
         NEW outcome \in {"NONE", "OK", "BAD_REQUEST", "CONFLICT", "NOT_FOUND", "ERROR"}
  PROVE  /\ [j EXCEPT !.step = step] \in Job
         /\ [j EXCEPT !.step = step, !.outcome = outcome] \in Job
         /\ [j EXCEPT !.step = step, !.wrote = wrote] \in Job
         /\ [j EXCEPT !.change = change, !.step = step] \in Job
         /\ [j EXCEPT !.change = change, !.step = step, !.outcome = outcome] \in Job
BY DEF Job

LEMMA JobFields ==
  ASSUME NEW j \in Job, NEW step, NEW change, NEW wrote, NEW outcome
  PROVE  /\ \A new \in {[j EXCEPT !.step = step], [j EXCEPT !.step = step, !.outcome = outcome]} :
              new.step = step /\ new.change = j.change /\ new.wrote = j.wrote
         /\ \A new \in {[j EXCEPT !.step = step, !.wrote = wrote]} :
              new.step = step /\ new.change = j.change /\ new.wrote = wrote
         /\ \A new \in {[j EXCEPT !.change = change, !.step = step],
                       [j EXCEPT !.change = change, !.step = step, !.outcome = outcome]} :
              new.step = step /\ new.change = change /\ new.wrote = j.wrote
<1>1. DOMAIN j = {"step", "change", "wrote", "outcome"}
  BY DEF Job
<1> QED BY <1>1

LEMMA JobEdited ==
  ASSUME JobsKnown, NEW w \in Admins, NEW x, NEW y
  PROVE  /\ [job EXCEPT ![w].step = x] = [job EXCEPT ![w] = [job[w] EXCEPT !.step = x]]
         /\ [job EXCEPT ![w].step = x, ![w].outcome = y] =
              [job EXCEPT ![w] = [job[w] EXCEPT !.step = x, !.outcome = y]]
         /\ [job EXCEPT ![w].step = x, ![w].wrote = y] =
              [job EXCEPT ![w] = [job[w] EXCEPT !.step = x, !.wrote = y]]
BY DEF JobsKnown

LEMMA JobMoves ==
  ASSUME JobsKnown, NEW w \in Admins, MarketStep(w)
  PROVE  \E new : JobSet(w, new)
<1> DEFINE j == job[w]
<1>1. /\ job \in [Admins -> Job] /\ j \in Job /\ JobKnown(j)
  BY DEF JobsKnown
<1>2. j.change \in MarketChanges \cup {None} /\ j.wrote \in BOOLEAN
  BY <1>1 DEF Job
<1>3. ASSUME NEW new, new \in Job, new.change = j.change, j.wrote => new.wrote,
             JobKnown(new), job' = [job EXCEPT ![w] = new]
      PROVE  \E x : JobSet(w, x)
  BY <1>3, Zenon DEF JobSet
<1>4. ASSUME NEW outcome \in {"OK", "BAD_REQUEST", "CONFLICT", "NOT_FOUND", "ERROR"},
             Respond(w, outcome)
      PROVE  \E new : JobSet(w, new)
  <2> DEFINE new == [j EXCEPT !.step = "done", !.outcome = outcome]
  <2>1. job' = [job EXCEPT ![w] = new]
    BY <1>4, JobEdited DEF Respond
  <2>2. new \in Job
    BY <1>1, <1>2, JobRecord
  <2>3. new.step = "done" /\ new.change = j.change /\ new.wrote = j.wrote
    BY <1>1, JobFields
  <2> HIDE DEF new
  <2>4. JobKnown(new)
    BY <1>1, <2>3 DEF JobKnown
  <2> QED BY <1>3, <2>1, <2>2, <2>3, <2>4
<1>5. CASE Receive(w)
  <2>1. PICK c \in MarketChanges :
          /\ j = NoJob
          /\ job' = [job EXCEPT ![w] =
               IF \/ ~RejectExtraKeys(c) \/ ~NotNegative(c)
                  \/ c.op = "CREATE" /\ ~(RequireSingleScopeKey(c) /\ RequireValidWindow(c.fields))
               THEN [NoJob EXCEPT !.change = c, !.step = "done", !.outcome = "BAD_REQUEST"]
               ELSE [NoJob EXCEPT !.change = c, !.step =
                       IF c.op = "CREATE" THEN "insert" ELSE IF NamesWindow(c) THEN "find" ELSE "update"]]
    BY <1>5 DEF Receive
  <2>2. NoJob \in Job /\ ~NoJob.wrote
    BY <1>1, <2>1 DEF NoJob
  <2> HIDE DEF j
  <2>3. \/ job' = [job EXCEPT ![w] =
             [NoJob EXCEPT !.change = c, !.step = "done", !.outcome = "BAD_REQUEST"]]
        \/ \E step \in {"insert", "find", "update"} :
             /\ RejectExtraKeys(c) /\ (c.op = "CREATE" <=> step = "insert")
             /\ job' = [job EXCEPT ![w] = [NoJob EXCEPT !.change = c, !.step = step]]
    BY <2>1
  <2>4. CASE job' = [job EXCEPT ![w] =
               [NoJob EXCEPT !.change = c, !.step = "done", !.outcome = "BAD_REQUEST"]]
    <3> DEFINE new == [NoJob EXCEPT !.change = c, !.step = "done", !.outcome = "BAD_REQUEST"]
    <3>1. new \in Job
      BY <2>2, JobRecord
    <3>2. new.step = "done" /\ new.change = c /\ ~new.wrote
      BY <2>2, JobFields
    <3>3. job' = [job EXCEPT ![w] = new]
      BY <2>4
    <3> HIDE DEF new
    <3>4. JobKnown(new)
      BY <3>2 DEF JobKnown
    <3> QED BY <2>1, <2>2, <3>1, <3>3, <3>4, Zenon DEF JobSet, j
  <2>5. CASE \E step \in {"insert", "find", "update"} :
               /\ RejectExtraKeys(c) /\ (c.op = "CREATE" <=> step = "insert")
               /\ job' = [job EXCEPT ![w] = [NoJob EXCEPT !.change = c, !.step = step]]
    <3>1. PICK step \in {"insert", "find", "update"} :
               /\ RejectExtraKeys(c) /\ (c.op = "CREATE" <=> step = "insert")
               /\ job' = [job EXCEPT ![w] = [NoJob EXCEPT !.change = c, !.step = step]]
      BY <2>5
    <3> DEFINE new == [NoJob EXCEPT !.change = c, !.step = step]
    <3>2. new \in Job
      BY <2>2, JobRecord
    <3>3. new.step = step /\ new.change = c /\ ~new.wrote
      BY <2>2, JobFields
    <3>4. job' = [job EXCEPT ![w] = new]
      BY <3>1
    <3> HIDE DEF new
    <3>5. JobKnown(new)
      BY <3>1, <3>3 DEF JobKnown
    <3> QED BY <2>1, <2>2, <3>2, <3>4, <3>5, Zenon DEF JobSet, j
  <2> QED BY <2>3, <2>4, <2>5
<1>6. CASE Insert(w) \/ Find(w) \/ Update(w)
  <2>1. \/ \E outcome \in {"OK", "BAD_REQUEST", "CONFLICT", "NOT_FOUND", "ERROR"} : Respond(w, outcome)
        \/ GoTo(w, "update") /\ j.step = "find"
        \/ /\ job' = [job EXCEPT ![w].step = "audit", ![w].wrote = TRUE]
           /\ j.step \in {"insert", "update"}
    BY <1>6 DEF Insert, Find, Update
  <2>2. CASE GoTo(w, "update") /\ j.step = "find"
    <3> DEFINE new == [j EXCEPT !.step = "update"]
    <3>1. job' = [job EXCEPT ![w] = new]
      BY <2>2, JobEdited DEF GoTo
    <3>2. new \in Job
      BY <1>1, JobRecord
    <3>3. new.step = "update" /\ new.change = j.change /\ new.wrote = j.wrote
      BY <1>1, JobFields
    <3> HIDE DEF new
    <3>4. JobKnown(new)
      BY <1>1, <2>2, <3>3 DEF JobKnown
    <3> QED BY <1>3, <3>1, <3>2, <3>3, <3>4
  <2>3. CASE /\ job' = [job EXCEPT ![w].step = "audit", ![w].wrote = TRUE]
             /\ j.step \in {"insert", "update"}
    <3> DEFINE new == [j EXCEPT !.step = "audit", !.wrote = TRUE]
    <3>1. job' = [job EXCEPT ![w] = new]
      BY <2>3, JobEdited
    <3>2. new \in Job
      BY <1>1, JobRecord
    <3>3. new.step = "audit" /\ new.change = j.change /\ new.wrote
      BY <1>1, JobFields
    <3> HIDE DEF new
    <3>4. JobKnown(new)
      BY <1>1, <2>3, <3>3 DEF JobKnown
    <3> QED BY <1>3, <3>1, <3>2, <3>3, <3>4
  <2> QED BY <1>4, <2>1, <2>2, <2>3
<1>7. CASE WriteAudit(w) \/ JobFails(w)
  BY <1>4, <1>7 DEF WriteAudit, JobFails
<1> QED BY <1>5, <1>6, <1>7 DEF MarketStep
-----------------------------------------------------------------------------
(* The tables of the market, and what a request may name of them.          *)
MarketTables == {"rules", "promotions"}

LEMMA MarketColumns ==
  ASSUME NEW c \in MarketChanges, RejectExtraKeys(c)
  PROVE  /\ c.table \in MarketTables /\ c.table \in Tables
         /\ c.op = "CREATE" =>
              Columns[c.table] = {"id", "tenant", "status"} \cup DOMAIN c.fields
         /\ c.op # "CREATE" => DOMAIN c.fields \subseteq Columns[c.table]
         /\ "id" \notin DOMAIN c.fields /\ "tenant" \notin DOMAIN c.fields
<1>1. c.table = "rules" \/ c.table = "promotions"
  BY MarketAssumption
<1>2. CASE c.table = "rules"
  BY <1>2, MarketAssumption, ColumnNames, TableNames
    DEF RejectExtraKeys, RuleColumns, RulePatchColumns, MarketTables
<1>3. CASE c.table = "promotions"
  BY <1>3, MarketAssumption, ColumnNames, TableNames
    DEF RejectExtraKeys, PromotionColumns, PromotionPatchColumns, MarketTables
<1> QED BY <1>1, <1>2, <1>3

LEMMA MarketRow ==
  ASSUME NEW table \in MarketTables, NEW r, DOMAIN r = Columns[table], ChecksOk(table, r)
  PROVE  RowOk(table, r)
BY DEF RowOk, ChecksOk, MarketTables

LEMMA MarketRows ==
  ASSUME TablesOk(db), TablesSeen, NEW table \in MarketTables
  PROVE  /\ table \in Tables \ {"seasons", "bands", "policies"}
         /\ IdsDistinct(db[table]) /\ \A r \in db[table] : DOMAIN r = Columns[table]
         /\ \A rows : IdsDistinct(rows) => TogetherOk(table, rows)
BY TableNames DEF TablesOk, MarketTables, TogetherOk

(* A row is created under an id that none has.                             *)
LEMMA InsertOk ==
  ASSUME TablesOk(db), TablesSeen, JobsKnown, NEW w \in Admins, Insert(w)
  PROVE  TablesOk(db') /\ (IsFiniteSet(db.rules) => IsFiniteSet(db'.rules))
<1> DEFINE c == job[w].change
           row == Over(c.fields, [id |-> c.id, tenant |-> c.tenant, status |-> "ACTIVE"])
<1>1. /\ c \in MarketChanges /\ RejectExtraKeys(c) /\ c.op = "CREATE"
  BY DEF Insert, JobsKnown, JobKnown
<1>2. /\ c.table \in MarketTables /\ Columns[c.table] = {"id", "tenant", "status"} \cup DOMAIN c.fields
      /\ "id" \notin DOMAIN c.fields
  BY <1>1, MarketColumns
<1>3. CASE UNCHANGED db
  BY <1>3
<1>4. CASE /\ \A r \in db[c.table] : r.id # c.id
           /\ ChecksOk(c.table, row) /\ Commit(c.table, {}, {row})
  <2> DEFINE key == [id |-> c.id, tenant |-> c.tenant, status |-> "ACTIVE"]
  <2>1. DOMAIN key = {"id", "tenant", "status"} /\ key.id = c.id
    OBVIOUS
  <2> HIDE DEF key
  <2>2. DOMAIN Over(c.fields, key) = Columns[c.table] /\ Over(c.fields, key).id = c.id
    <3>1. /\ DOMAIN Over(c.fields, key) = DOMAIN key \cup DOMAIN c.fields
          /\ \A x \in (DOMAIN key) \ (DOMAIN c.fields) : Over(c.fields, key)[x] = key[x]
      BY DEF Over
    <3> QED BY <1>2, <2>1, <3>1
  <2>3. DOMAIN row = Columns[c.table] /\ row.id = c.id
    BY <2>2 DEF key
  <2>4. /\ \A r \in db[c.table] : r.id # c.id
        /\ ChecksOk(c.table, row) /\ Commit(c.table, {}, {row})
    BY <1>4
  <2> HIDE DEF row
  <2>5. RowOk(c.table, row)
    BY <1>2, <2>3, <2>4, MarketRow
  <2>6. IdsDistinct((db[c.table] \ {}) \cup {row})
    BY <1>2, <2>3, <2>4, MarketRows DEF IdsDistinct
  <2>7. TogetherOk(c.table, (db[c.table] \ {}) \cup {row})
    BY <1>2, <2>6, MarketRows
  <2>8. c.table \in Tables \ {"seasons", "bands", "policies"}
    BY <1>2, MarketRows
  <2> HIDE DEF c
  <2>9. TablesOk(db')
    BY <2>4, <2>5, <2>7, <2>8, CommitOk
  <2>10. db'[c.table] = (db[c.table] \ {}) \cup {row} /\ \A t \in Tables \ {c.table} : db'[t] = db[t]
    BY <2>4, <2>8, CommitSeen
  <2>11. IsFiniteSet(db.rules) => IsFiniteSet(db'.rules)
    BY <2>10, FS_AddElement, TableNames
  <2> QED BY <2>9, <2>11
<1> QED BY <1>3, <1>4, Zenon DEF Insert

(* A patch leaves a row its id.                                            *)
LEMMA UpdateOk ==
  ASSUME TablesOk(db), TablesSeen, JobsKnown, NEW w \in Admins, Update(w)
  PROVE  TablesOk(db') /\ (IsFiniteSet(db.rules) => IsFiniteSet(db'.rules))
<1> DEFINE c == job[w].change
           Patched(r) == Over(c.fields, r)
           new == {Patched(r) : r \in Row(c)}
<1>1. /\ c \in MarketChanges /\ RejectExtraKeys(c) /\ c.op # "CREATE"
  BY DEF Update, JobsKnown, JobKnown
<1>2. /\ c.table \in MarketTables /\ DOMAIN c.fields \subseteq Columns[c.table]
      /\ "id" \notin DOMAIN c.fields
  BY <1>1, MarketColumns
<1>3. CASE UNCHANGED db
  BY <1>3
<1>4. CASE /\ \A r \in Row(c) : ChecksOk(c.table, Patched(r))
           /\ Commit(c.table, Row(c), new)
  <2>1. Row(c) \subseteq db[c.table] /\ \A r \in Row(c) : r.id = c.id
    BY DEF Row
  <2>2. \A r \in Row(c) : DOMAIN r = Columns[c.table]
    BY <1>2, <2>1, MarketRows
  <2>3. "id" \in Columns[c.table]
    BY <1>2, ColumnNames DEF MarketTables
  <2>4. \A r \in Row(c) : DOMAIN Patched(r) = Columns[c.table] /\ Patched(r).id = c.id
    <3>1. ASSUME NEW r \in Row(c)
          PROVE  DOMAIN Patched(r) = Columns[c.table] /\ Patched(r).id = c.id
      <4>1. /\ DOMAIN Over(c.fields, r) = DOMAIN r \cup DOMAIN c.fields
            /\ \A x \in (DOMAIN r) \ (DOMAIN c.fields) : Over(c.fields, r)[x] = r[x]
        BY DEF Over
      <4> QED BY <1>2, <2>1, <2>2, <2>3, <4>1
    <3> QED BY <3>1
  <2>5. /\ \A r \in Row(c) : ChecksOk(c.table, Patched(r))
        /\ Commit(c.table, Row(c), new)
    BY <1>4
  <2>6. \A r \in new : RowOk(c.table, r) /\ r.id = c.id
    <3>1. \A r \in Row(c) : RowOk(c.table, Patched(r)) /\ Patched(r).id = c.id
      BY <1>2, <2>4, <2>5, MarketRow
    <3> QED BY <3>1
  <2>7. IdsDistinct((db[c.table] \ Row(c)) \cup new)
    <3>1. IdsDistinct(db[c.table])
      BY <1>2, MarketRows
    <3>2. \A r, s \in Row(c) : r = s
      BY <2>1, <3>1 DEF IdsDistinct
    <3>3. \A r, s \in new : r = s
      BY <3>2
    <3>4. Row(c) # {} => \A r \in db[c.table] \ Row(c) : r.id # c.id
      BY <2>1, <3>1 DEF IdsDistinct
    <3>5. new # {} => Row(c) # {}
      OBVIOUS
    <3> HIDE DEF new
    <3> QED BY <2>6, <3>1, <3>3, <3>4, <3>5 DEF IdsDistinct
  <2>8. c.table \in Tables \ {"seasons", "bands", "policies"}
    BY <1>2, MarketRows
  <2>9. TogetherOk(c.table, (db[c.table] \ Row(c)) \cup new)
    BY <1>2, <2>7, MarketRows
  <2>10. \A r, s \in new : r = s
    BY <1>2, <2>1, MarketRows DEF IdsDistinct
  <2> HIDE DEF c, new
  <2>11. TablesOk(db')
    BY <2>5, <2>6, <2>8, <2>9, CommitOk
  <2>12. /\ db'[c.table] = (db[c.table] \ Row(c)) \cup new
         /\ \A t \in Tables \ {c.table} : db'[t] = db[t]
    BY <2>5, <2>8, CommitSeen
  <2>13. IsFiniteSet(new)
    <3>1. CASE new = {}
      BY <3>1, FS_EmptySet
    <3>2. ASSUME NEW r \in new PROVE IsFiniteSet(new)
      <4>1. new = {r}
        BY <2>10
      <4>2. IsFiniteSet({r})
        BY FS_Singleton
      <4> QED BY <4>1, <4>2
    <3> QED BY <3>1, <3>2
  <2>14. ASSUME IsFiniteSet(db.rules) PROVE IsFiniteSet(db'.rules)
    <3>1. CASE c.table = "rules"
      <4>1. db'.rules = (db.rules \ Row(c)) \cup new
        BY <2>12, <3>1
      <4>2. IsFiniteSet(db.rules \ Row(c))
        BY <2>14, FS_Difference
      <4> QED BY <2>13, <4>1, <4>2, FS_Union
    <3>2. CASE c.table # "rules"
      BY <2>12, <2>14, <3>2, TableNames
    <3> QED BY <3>1, <3>2
  <2> QED BY <2>11, <2>14
<1> QED BY <1>3, <1>4, Zenon DEF Update

(* The content sync leaves the hotels it knows alone.                      *)
LEMMA UpsertHotelsOk ==
  ASSUME TablesOk(db), TablesSeen, NEW y \in Syncs, UpsertSupplierHotels(y)
  PROVE  TablesOk(db')
<1> DEFINE known == {h.code : h \in {r \in db.hotels : r.supplier = Hotelbeds}}
           new == {NormalizeHotel(c) : c \in sync[y].page \ known}
<1>1. Commit("hotels", {}, new)
  BY Zenon DEF UpsertSupplierHotels
<1>2. \A r \in new : RowOk("hotels", r)
  BY ColumnNames DEF RowOk, NormalizeHotel
<1>3. HotelsOk((db.hotels \ {}) \cup new)
  <2>1. \A r \in db.hotels : r.supplier = Hotelbeds => r.code \in known
    OBVIOUS
  <2>2. \A r \in new : r.supplier = Hotelbeds /\ r.code \notin known
    BY DEF NormalizeHotel
  <2>3. \A r, s \in new : r # s => r.code # s.code
    BY DEF NormalizeHotel
  <2>4. HotelsOk(db.hotels)
    BY DEF TablesOk
  <2> HIDE DEF known, new
  <2> QED BY <2>1, <2>2, <2>3, <2>4 DEF HotelsOk
<1> HIDE DEF new
<1>4. TogetherOk("hotels", (db["hotels"] \ {}) \cup new)
  BY <1>3 DEF TogetherOk
<1> QED BY <1>1, <1>2, <1>4, CommitOk, CommitSeen, TableNames

(* A feed is of its provider, and its rates have been found positive.      *)
LEMMA UpsertBatchOk ==
  ASSUME TablesOk(db), TablesSeen, FeedsKnown, UpsertBatch
  PROVE  TablesOk(db') /\ (IsFiniteSet(db.snapshots) => IsFiniteSet(db'.snapshots))
<1>1. PICK feed \in fetched :
        LET new == {i \in MapToInputs(feed) : \A s \in db.snapshots : SnapshotKey(s) # SnapshotKey(i)} IN
        IF \A i \in MapToInputs(feed) : i.rate > 0 THEN Commit("snapshots", {}, new) ELSE TablesStay
  BY Zenon DEF UpsertBatch
<1> DEFINE new == {i \in MapToInputs(feed) : \A s \in db.snapshots : SnapshotKey(s) # SnapshotKey(i)}
<1>2. CASE TablesStay
  BY <1>2 DEF TablesStay
<1>3. CASE (\A i \in MapToInputs(feed) : i.rate > 0) /\ Commit("snapshots", {}, new)
  <2>1. /\ feed.provider \in {"OXR", "ECB"} /\ feed.at \in Int
        /\ IsFiniteSet(DOMAIN feed.rates) /\ \A c \in DOMAIN feed.rates : feed.rates[c] \in Int
    BY DEF FeedsKnown
  <2>2. \A i \in MapToInputs(feed) :
          /\ i.provider = feed.provider /\ i.at = feed.at /\ DOMAIN i = Columns.snapshots
          /\ i.rate \in Int
    BY <2>1 DEF MapToInputs, Columns
  <2>3. \A i \in new : RowOk("snapshots", i)
    BY <1>3, <2>1, <2>2 DEF RowOk, SnapshotOk
  <2>4. Commit("snapshots", {}, new)
    BY <1>3
  <2> HIDE DEF new
  <2>5. TogetherOk("snapshots", (db["snapshots"] \ {}) \cup new)
    BY DEF TogetherOk
  <2>6. TablesOk(db') /\ db'.snapshots = (db.snapshots \ {}) \cup new
    BY <2>3, <2>4, <2>5, CommitOk, CommitSeen, TableNames
  <2>7. IsFiniteSet(new)
    <3> DEFINE f == [c \in DOMAIN feed.rates |->
                       [provider |-> feed.provider, base |-> feed.base, quote |-> c,
                        at |-> feed.at, rate |-> feed.rates[c]]]
    <3>1. f \in Surjection(DOMAIN feed.rates, MapToInputs(feed))
      BY DEF Surjection, MapToInputs
    <3> HIDE DEF f
    <3>2. IsFiniteSet(MapToInputs(feed))
      BY <2>1, <3>1, FS_Surjection
    <3>3. new \in SUBSET MapToInputs(feed)
      BY DEF new
    <3> QED BY <3>2, <3>3, FS_Subset
  <2> QED BY <2>6, <2>7, FS_Union
<1> QED BY <1>1, <1>2, <1>3

LEMMA FeedsStay ==
  ASSUME FeedsKnown, FxStep
  PROVE  FeedsKnown'
<1>1. CASE FetchLatest
  BY <1>1, FeedsAssumption DEF FetchLatest, FeedsKnown
<1>2. CASE FetchEcb
  <2>1. PICK feed \in Feeds : feed.provider = "ECB" /\ fetched' = fetched \cup {ParseEcbXml(feed)}
    BY <1>2 DEF FetchEcb
  <2>2. /\ DOMAIN feed = {"provider", "base", "at", "rates"}
        /\ feed.at \in Int /\ IsFiniteSet(DOMAIN feed.rates)
        /\ \A c \in DOMAIN feed.rates : feed.rates[c] \in Int
    BY FeedsAssumption
  <2>3. /\ ParseEcbXml(feed).provider = "ECB" /\ ParseEcbXml(feed).rates = feed.rates
        /\ ParseEcbXml(feed).at \in Int
    BY <2>1, <2>2 DEF ParseEcbXml
  <2> QED BY <2>1, <2>2, <2>3 DEF FeedsKnown
<1>3. CASE UpsertBatch
  BY <1>3 DEF UpsertBatch, FeedsKnown
<1>4. CASE UNCHANGED fetched
  BY <1>4 DEF FeedsKnown
<1> QED BY <1>1, <1>2, <1>3, <1>4 DEF FxStep, Resolve, FetchQuote, LoadOxrOnly, InsertLock, ApplyRefund

(* The handlers of the contract pages and of the mapping pipeline.         *)
LEMMA EditsOk ==
  ASSUME TablesOk(db), TablesSeen, IsFiniteSet(db.policies), EditTables
  PROVE  TablesOk(db') /\ IsFiniteSet(db'.policies)
<1>1. CASE CreatePolicy \/ SupersedePolicy
  BY <1>1, PolicyEditsOk
<1>2. CASE ~(CreatePolicy \/ SupersedePolicy)
  <2>1. db'.policies = db.policies
    BY <1>2, PoliciesKept
  <2>2. TablesOk(db')
    BY <1>2, PeopleEditsOk, SeasonEditsOk, BandEditsOk, RateEditsOk, SupplementEditsOk,
      MealEditsOk, RestrictionEditsOk DEF EditTables
  <2> QED BY <2>1, <2>2
<1> QED BY <1>1, <1>2

LEMMA SeenStays ==
  ASSUME TablesSeen, Writes(Tables)
  PROVE  TablesSeen'
<1>1. CASE UNCHANGED <<db, ever, always>>
  BY <1>1 DEF TablesSeen
<1>2. ASSUME NEW table \in Tables, NEW gone, NEW come, Commit(table, gone, come)
      PROVE  TablesSeen'
  BY <1>2, CommitSeen
<1> QED BY <1>1, <1>2 DEF Writes

LEMMA OthersStay ==
  ASSUME TablesSeen, NEW tables \in SUBSET Tables, Writes(tables)
  PROVE  \A t \in Tables \ tables : db'[t] = db[t]
<1>1. CASE UNCHANGED <<db, ever, always>>
  BY <1>1
<1>2. ASSUME NEW table \in tables, NEW gone, NEW come, Commit(table, gone, come)
      PROVE  \A t \in Tables \ tables : db'[t] = db[t]
  BY <1>2, CommitSeen
<1> QED BY <1>1, <1>2 DEF Writes

(* A search that begins has read nothing yet.                              *)
LEMMA WatchSeen ==
  ASSUME TablesSeen, NEW q \in Searches, Watch(q)
  PROVE  TablesSeen' /\ db' = db
<1>1. /\ db' = db
      /\ ever' = [ever EXCEPT ![q] = db] /\ always' = [always EXCEPT ![q] = db]
  BY DEF Watch
<1>2. /\ DOMAIN ever' = Searches /\ DOMAIN always' = Searches
      /\ \A p \in Searches \ {q} : ever'[p] = ever[p] /\ always'[p] = always[p]
      /\ ever'[q] = db /\ always'[q] = db
  BY <1>1 DEF TablesSeen
<1> QED BY <1>1, <1>2 DEF TablesSeen

LEMMA CatalogueStarts == Init => CatalogueInductive
<1> SUFFICES ASSUME Init PROVE CatalogueInductive
  OBVIOUS
<1>1. TablesOk(db) /\ RowsFinite /\ DOMAIN db = Tables
  BY TablesAssumption DEF Init, CatalogueInit, TablesOk, RowsFinite
<1>2. TablesSeen
  BY <1>1 DEF Init, CatalogueInit, TablesSeen
<1>3. JobsKnown
  <2>1. NoJob \in Job
    BY DEF NoJob, Job
  <2>2. JobKnown(NoJob)
    BY DEF NoJob, JobKnown
  <2>3. job = [w \in Admins |-> NoJob]
    BY DEF Init, MarketInit
  <2> HIDE DEF NoJob
  <2> QED BY <2>1, <2>2, <2>3 DEF JobsKnown
<1>4. FeedsKnown
  BY DEF Init, FxInit, FeedsKnown
<1> QED BY <1>1, <1>2, <1>3, <1>4 DEF CatalogueInductive

LEMMA CatalogueStep ==
  ASSUME CatalogueInductive, [Next]_vars
  PROVE  CatalogueInductive'
<1> USE DEF CatalogueInductive
<1> DEFINE Whole == TablesOk(db') /\ RowsFinite'
<1>1. CASE UNCHANGED vars
  BY <1>1 DEF vars, catalogueVars, othersVars, JobsKnown, FeedsKnown, TablesSeen, RowsFinite
<1>2. CASE Sell
  <2>1. JobsKnown' /\ FeedsKnown'
    BY <1>2 DEF Sell, othersVars, JobsKnown, FeedsKnown
  <2>2. CASE Writes({})
    <3>1. UNCHANGED <<db, ever, always>>
      BY <2>2 DEF Writes
    <3> QED BY <2>1, <3>1 DEF TablesSeen, RowsFinite
  <2>3. CASE \E q \in Searches : Start(q)
    BY <2>1, <2>3, WatchSeen DEF Start, RowsFinite
  <2> QED BY <1>2, <2>2, <2>3, SellWrites
<1>3. CASE Stock
  <2>1. JobsKnown' /\ FeedsKnown'
    BY <1>3 DEF Stock, othersVars, JobsKnown, FeedsKnown
  <2>2. Writes(Edited) /\ TablesSeen'
    BY <1>3, StockWrites, SeenStays DEF Writes, Edited
  <2>3. db'.rules = db.rules /\ db'.snapshots = db.snapshots
    BY <2>2, OthersStay, TableNames DEF Edited
  <2>4. TablesOk(db') /\ IsFiniteSet(db'.policies)
    BY <1>3, EditsOk DEF Stock, Tick, RowsFinite
  <2> QED BY <2>1, <2>2, <2>3, <2>4 DEF RowsFinite
<1>4. CASE SyncContent
  <2>1. JobsKnown' /\ FeedsKnown'
    BY <1>4 DEF SyncContent, othersVars, JobsKnown, FeedsKnown
  <2>2. Writes({"hotels"}) /\ TablesSeen'
    BY <1>4, SyncWrites, SeenStays, TableNames DEF Writes
  <2>3. TablesOk(db')
    BY <1>4, UpsertHotelsOk DEF SyncContent, ContentSync, TriggerContentSync, ListHotels,
      StorePage, SyncFails, catalogueVars
  <2>4. \A t \in {"policies", "rules", "snapshots"} : db'[t] = db[t]
    BY <2>2, OthersStay, TableNames
  <2> QED BY <2>1, <2>2, <2>3, <2>4 DEF RowsFinite
<1>5. CASE Administer
  <2>1. PICK w \in Admins : MarketStep(w)
    BY <1>5 DEF Administer
  <2>2. JobsKnown'
    BY <2>1, JobMoves, JobSets
  <2>3. FeedsKnown'
    BY <1>5 DEF Administer, fxVars, FeedsKnown
  <2>4. \A v \in Admins : job[v].step \in {"insert", "update"} =>
          job[v].change.table \in {"rules", "promotions"}
    BY MarketColumns DEF JobsKnown, JobKnown, MarketTables
  <2>5. Writes({"rules", "promotions"}) /\ TablesSeen'
    BY <1>5, <2>4, AdministerWrites, SeenStays, TableNames DEF Writes
  <2>6. TablesOk(db') /\ IsFiniteSet(db'.rules)
    BY <2>1, InsertOk, UpdateOk DEF MarketStep, Receive, Find, WriteAudit, JobFails, RowsFinite
  <2>7. \A t \in {"policies", "snapshots"} : db'[t] = db[t]
    BY <2>5, OthersStay, TableNames
  <2> QED BY <2>2, <2>3, <2>5, <2>6, <2>7 DEF RowsFinite
<1>6. CASE Audit
  BY <1>6, AuditWrites DEF Audit, Writes, marketVars, fxVars, JobsKnown, FeedsKnown, TablesSeen,
    RowsFinite
<1>7. CASE Exchange
  <2>1. JobsKnown'
    BY <1>7 DEF Exchange, marketVars, JobsKnown
  <2>2. FeedsKnown'
    BY <1>7, FeedsStay DEF Exchange
  <2>3. Writes({"snapshots"}) /\ TablesSeen'
    BY <1>7, ExchangeWrites, SeenStays, TableNames DEF Writes
  <2>4. TablesOk(db') /\ IsFiniteSet(db'.snapshots)
    BY <1>7, UpsertBatchOk DEF Exchange, FxStep, FetchLatest, FetchEcb, Resolve, FetchQuote,
      LoadOxrOnly, InsertLock, ApplyRefund, TablesStay, RowsFinite
  <2>5. \A t \in {"policies", "rules"} : db'[t] = db[t]
    BY <2>3, OthersStay, TableNames
  <2> QED BY <2>1, <2>2, <2>3, <2>4, <2>5 DEF RowsFinite
<1> QED BY <1>1, <1>2, <1>3, <1>4, <1>5, <1>6, <1>7 DEF Next

(* The tables stay whole, whoever writes them: the inductive invariant.    *)
THEOREM CatalogueInvariant == Spec => []CatalogueInductive
<1>1. Init => CatalogueInductive
  BY CatalogueStarts
<1>2. CatalogueInductive /\ [Next]_vars => CatalogueInductive'
  BY CatalogueStep
<1> QED BY <1>1, <1>2, PTL DEF Spec

(* Whatever handlers do side by side, the rows stay what their columns and *)
(* checks say, every row of a contract has its season and its band, and    *)
(* none is there twice.                                                    *)
THEOREM CatalogueWhole == Spec => []CatalogueOk
<1>1. CatalogueInductive => CatalogueOk
  BY DEF CatalogueInductive, CatalogueOk
<1> QED BY <1>1, CatalogueInvariant, PTL
-----------------------------------------------------------------------------
(* Who has written what.                                                   *)
Written(table, id, f, x) == \E v \in Admins :
  /\ job[v].wrote /\ job[v].change.table = table /\ job[v].change.id = id
  /\ f \in DOMAIN job[v].change.fields /\ x = job[v].change.fields[f]

LEMMA LostPatches ==
  NoLostPatch <=>
    \A w \in Admins : job[w].wrote =>
      \A r \in db[job[w].change.table] : r.id = job[w].change.id =>
        \A f \in DOMAIN job[w].change.fields :
          Written(job[w].change.table, job[w].change.id, f, r[f])
BY DEF NoLostPatch, Written

WrittenThen(table, id, f, x) == \E v \in Admins :
  /\ job'[v].wrote /\ job'[v].change.table = table /\ job'[v].change.id = id
  /\ f \in DOMAIN job'[v].change.fields /\ x = job'[v].change.fields[f]

LEMMA LostThen ==
  NoLostPatch' <=>
    \A w \in Admins : job'[w].wrote =>
      \A r \in db'[job'[w].change.table] : r.id = job'[w].change.id =>
        \A f \in DOMAIN job'[w].change.fields :
          WrittenThen(job'[w].change.table, job'[w].change.id, f, r[f])
BY DEF NoLostPatch, WrittenThen

(* A request that is answered, or only reads, has written nothing more.    *)
LEMMA Unwritten ==
  ASSUME JobsKnown, NEW w \in Admins,
         \/ Receive(w) \/ Find(w) \/ WriteAudit(w) \/ JobFails(w)
         \/ \E outcome : Respond(w, outcome)
  PROVE  job'[w].wrote => job[w].wrote
<1>1. job \in [Admins -> Job] /\ job[w] \in Job
  BY DEF JobsKnown
<1>2. CASE \E outcome : Respond(w, outcome)
  <2>1. PICK outcome : Respond(w, outcome)
    BY <1>2
  <2>2. job' = [job EXCEPT ![w] = [job[w] EXCEPT !.step = "done", !.outcome = outcome]]
    BY <2>1, JobEdited DEF Respond
  <2>3. job'[w] = [job[w] EXCEPT !.step = "done", !.outcome = outcome]
    BY <1>1, <2>2
  <2> QED BY <1>1, <2>3, JobFields
<1>3. CASE GoTo(w, "update")
  <2>1. job' = [job EXCEPT ![w] = [job[w] EXCEPT !.step = "update"]]
    BY <1>3, JobEdited DEF GoTo
  <2>2. job'[w] = [job[w] EXCEPT !.step = "update"]
    BY <1>1, <2>1
  <2> QED BY <1>1, <2>2, JobFields
<1>4. CASE Receive(w)
  <2>1. PICK c, outcome :
          \/ job' = [job EXCEPT ![w] = [NoJob EXCEPT !.change = c, !.step = "done", !.outcome = "BAD_REQUEST"]]
          \/ job' = [job EXCEPT ![w] = [NoJob EXCEPT !.change = c, !.step = outcome]]
    BY <1>4 DEF Receive
  <2>2. NoJob \in Job /\ ~NoJob.wrote
    BY DEF NoJob, Job
  <2> HIDE DEF NoJob
  <2>3. \/ job'[w] = [NoJob EXCEPT !.change = c, !.step = "done", !.outcome = "BAD_REQUEST"]
        \/ job'[w] = [NoJob EXCEPT !.change = c, !.step = outcome]
    BY <1>1, <2>1
  <2>4. ~[NoJob EXCEPT !.change = c, !.step = "done", !.outcome = "BAD_REQUEST"].wrote
    BY <2>2, JobFields
  <2>5. ~[NoJob EXCEPT !.change = c, !.step = outcome].wrote
    BY <2>2, JobFields
  <2> QED BY <2>3, <2>4, <2>5
<1> QED BY <1>2, <1>3, <1>4 DEF Find, WriteAudit, JobFails

(* The commit of an insert or an update.                                   *)
LEMMA Committed ==
  ASSUME JobsKnown, NEW w \in Admins, Insert(w) \/ Update(w)
  PROVE  \/ UNCHANGED db /\ (job'[w].wrote => job[w].wrote)
         \/ job'[w].wrote /\ job'[w].change = job[w].change /\ job[w].change \in MarketChanges
            /\ RejectExtraKeys(job[w].change)
            /\ LET c == job[w].change IN
               \/ /\ \A r \in db[c.table] : r.id # c.id
                  /\ Commit(c.table, {}, {Over(c.fields, [id |-> c.id, tenant |-> c.tenant, status |-> "ACTIVE"])})
               \/ Row(c) # {} /\ Commit(c.table, Row(c), {Over(c.fields, r) : r \in Row(c)})
<1> DEFINE c == job[w].change
<1>1. job \in [Admins -> Job] /\ job[w] \in Job /\ JobKnown(job[w])
  BY DEF JobsKnown
<1>2. \/ UNCHANGED db /\ \E outcome : Respond(w, outcome)
      \/ /\ job' = [job EXCEPT ![w].step = "audit", ![w].wrote = TRUE]
         /\ job[w].step \in {"insert", "update"}
         /\ \/ /\ \A r \in db[c.table] : r.id # c.id
               /\ Commit(c.table, {}, {Over(c.fields, [id |-> c.id, tenant |-> c.tenant, status |-> "ACTIVE"])})
            \/ Row(c) # {} /\ Commit(c.table, Row(c), {Over(c.fields, r) : r \in Row(c)})
  BY Zenon DEF Insert, Update
<1>3. CASE UNCHANGED db /\ \E outcome : Respond(w, outcome)
  BY <1>3, Unwritten
<1>4. CASE /\ job' = [job EXCEPT ![w].step = "audit", ![w].wrote = TRUE]
           /\ job[w].step \in {"insert", "update"}
  <2>1. job' = [job EXCEPT ![w] = [job[w] EXCEPT !.step = "audit", !.wrote = TRUE]]
    BY <1>4, JobEdited
  <2>2. job'[w] = [job[w] EXCEPT !.step = "audit", !.wrote = TRUE]
    BY <1>1, <2>1
  <2>3. job'[w].wrote /\ job'[w].change = job[w].change
    BY <1>1, <2>2, JobFields
  <2>4. job[w].change \in MarketChanges /\ RejectExtraKeys(job[w].change)
    BY <1>1, <1>4 DEF JobKnown
  <2> QED BY <1>2, <1>3, <2>3, <2>4
<1> QED BY <1>2, <1>3, <1>4

LEMMA WritersTables ==
  ASSUME JobsKnown, NEW w \in Admins, job[w].wrote
  PROVE  /\ job[w].change \in MarketChanges /\ RejectExtraKeys(job[w].change)
         /\ job[w].change.table \in MarketTables
         /\ DOMAIN job[w].change.fields \subseteq Columns[job[w].change.table]
<1>1. job[w].change \in MarketChanges /\ RejectExtraKeys(job[w].change)
  BY DEF JobsKnown, JobKnown
<1> QED BY <1>1, MarketColumns

(* Where no request writes, what was written stays.                        *)
LEMMA PatchFrame ==
  ASSUME JobsKnown, PatchesKept,
         \A v \in Admins : /\ job'[v].wrote => job[v].wrote
                           /\ job[v].wrote => job'[v].wrote /\ job'[v].change = job[v].change,
         db'["rules"] = db["rules"], db'["promotions"] = db["promotions"]
  PROVE  PatchesKept'
<1>1. \A table, id, f, x : Written(table, id, f, x) => WrittenThen(table, id, f, x)
  BY DEF Written, WrittenThen
<1>2. \A v \in Admins : job[v].wrote => db'[job[v].change.table] = db[job[v].change.table]
  BY WritersTables DEF MarketTables
<1>3. NoLostPatch'
  <2>1. ASSUME NEW w \in Admins, job'[w].wrote, NEW r \in db'[job'[w].change.table],
               r.id = job'[w].change.id, NEW f \in DOMAIN job'[w].change.fields
        PROVE  WrittenThen(job'[w].change.table, job'[w].change.id, f, r[f])
    <3>1. job[w].wrote /\ job'[w].change = job[w].change
      BY <2>1
    <3>2. Written(job[w].change.table, job[w].change.id, f, r[f])
      BY <1>2, <2>1, <3>1, LostPatches DEF PatchesKept
    <3> QED BY <1>1, <3>1, <3>2
  <2> QED BY <2>1, LostThen
<1>4. \A w \in Admins : job'[w].wrote =>
        \E r \in db'[job'[w].change.table] : r.id = job'[w].change.id
  BY <1>2 DEF PatchesKept
<1> QED BY <1>3, <1>4 DEF PatchesKept

(* The row a request writes has the values it names, and keeps the others. *)
LEMMA PatchCommit ==
  ASSUME CatalogueInductive, PatchesKept, NEW w \in Admins,
         \A v \in Admins \ {w} : job'[v] = job[v],
         job'[w].wrote, job'[w].change = job[w].change,
         job[w].change \in MarketChanges, RejectExtraKeys(job[w].change),
         LET c == job[w].change IN
         \/ /\ \A r \in db[c.table] : r.id # c.id
            /\ Commit(c.table, {}, {Over(c.fields, [id |-> c.id, tenant |-> c.tenant, status |-> "ACTIVE"])})
         \/ Row(c) # {} /\ Commit(c.table, Row(c), {Over(c.fields, r) : r \in Row(c)})
  PROVE  PatchesKept'
<1> DEFINE c == job[w].change
           t == c.table
<1>1. /\ t \in MarketTables /\ t \in Tables
      /\ "id" \notin DOMAIN c.fields
  BY MarketColumns
<1>2. JobsKnown /\ TablesSeen /\ TablesOk(db)
  BY DEF CatalogueInductive
<1>3. IdsDistinct(db[t]) /\ \A r \in db[t] : DOMAIN r = Columns[t]
  BY <1>1, <1>2, MarketRows
<1>4. "id" \in Columns[t]
  BY <1>1, ColumnNames DEF MarketTables
(* What becomes of the table.                                              *)
<1> DEFINE Fits(gone, come) ==
        /\ db'[t] = (db[t] \ gone) \cup come
        /\ \A s \in Tables \ {t} : db'[s] = db[s]
        /\ come # {}
        /\ \A x \in come : /\ x.id = c.id /\ \A f \in DOMAIN c.fields : x[f] = c.fields[f]
                           /\ \A f \in Columns[t] \ DOMAIN c.fields :
                                \A r \in db[t] : r.id = c.id => r[f] = x[f]
        /\ \A r \in db[t] \ gone : r.id # c.id
        /\ \A r \in gone : r.id = c.id
<1>5. \E gone, come : Fits(gone, come)
  <2>1. CASE /\ \A r \in db[t] : r.id # c.id
             /\ Commit(t, {}, {Over(c.fields, [id |-> c.id, tenant |-> c.tenant, status |-> "ACTIVE"])})
    <3> DEFINE key == [id |-> c.id, tenant |-> c.tenant, status |-> "ACTIVE"]
               row == Over(c.fields, key)
    <3>1. "id" \in DOMAIN key /\ key.id = c.id
      OBVIOUS
    <3> HIDE DEF key
    <3>2. row.id = c.id /\ \A f \in DOMAIN c.fields : row[f] = c.fields[f]
      BY <1>1, <3>1 DEF Over
    <3>3. Commit(t, {}, {row})
      BY <2>1 DEF key
    <3>4. /\ db'[t] = (db[t] \ {}) \cup {row}
          /\ \A s \in Tables \ {t} : db'[s] = db[s]
      BY <1>1, <1>2, <3>3, CommitSeen
    <3> HIDE DEF row
    <3>5. /\ {row} # {}
          /\ \A x \in {row} : /\ x.id = c.id /\ \A f \in DOMAIN c.fields : x[f] = c.fields[f]
                              /\ \A f \in Columns[t] \ DOMAIN c.fields :
                                   \A r \in db[t] : r.id = c.id => r[f] = x[f]
          /\ \A r \in db[t] \ {} : r.id # c.id
          /\ \A r \in {} : r.id = c.id
      BY <2>1, <3>2
    <3>6. Fits({}, {row})
      BY <3>4, <3>5
    <3> HIDE DEF Fits
    <3> QED BY <3>6
  <2>2. CASE Row(c) # {} /\ Commit(t, Row(c), {Over(c.fields, r) : r \in Row(c)})
    <3> DEFINE come == {Over(c.fields, r) : r \in Row(c)}
    <3>1. /\ db'[t] = (db[t] \ Row(c)) \cup come
          /\ \A s \in Tables \ {t} : db'[s] = db[s]
      BY <1>1, <1>2, <2>2, CommitSeen
    <3>2. Row(c) \subseteq db[t] /\ \A r \in Row(c) : r.id = c.id
      BY DEF Row
    <3>3. \A r \in db[t] : r.id = c.id => r \in Row(c) /\ \A s \in Row(c) : s = r
      BY <1>3, <2>2, <3>2 DEF IdsDistinct
    <3>4. ASSUME NEW r \in Row(c)
          PROVE  /\ Over(c.fields, r).id = c.id
                 /\ \A f \in DOMAIN c.fields : Over(c.fields, r)[f] = c.fields[f]
                 /\ \A f \in Columns[t] \ DOMAIN c.fields : Over(c.fields, r)[f] = r[f]
      BY <1>1, <1>3, <1>4, <3>2 DEF Over
    <3>5. come # {}
      BY <2>2
    <3>6. \A x \in come : /\ x.id = c.id /\ \A f \in DOMAIN c.fields : x[f] = c.fields[f]
                          /\ \A f \in Columns[t] \ DOMAIN c.fields :
                               \A r \in db[t] : r.id = c.id => r[f] = x[f]
      BY <3>3, <3>4
    <3> HIDE DEF come
    <3>7. \A r \in db[t] \ Row(c) : r.id # c.id
      BY <3>3
    <3>8. Fits(Row(c), come)
      BY <3>1, <3>2, <3>5, <3>6, <3>7
    <3> HIDE DEF Fits
    <3> QED BY <3>8
  <2> QED BY <2>1, <2>2
<1>6. PICK gone, come : Fits(gone, come)
  BY <1>5
<1>7. \A v \in Admins : /\ v # w => job'[v] = job[v]
                        /\ job'[v].change = job[v].change
                        /\ job[v].wrote => job'[v].wrote
  OBVIOUS
<1>8. \A table, id, f, x : Written(table, id, f, x) => WrittenThen(table, id, f, x)
  BY <1>7 DEF Written, WrittenThen
<1>9. \A f \in DOMAIN c.fields : WrittenThen(t, c.id, f, c.fields[f])
  BY <1>7 DEF Written, WrittenThen
<1> HIDE DEF c, t
<1>10. ASSUME NEW v \in Admins, job'[v].wrote
       PROVE  LET d == job'[v].change IN
              /\ \E r \in db'[d.table] : r.id = d.id
              /\ \A r \in db'[d.table] : r.id = d.id =>
                   \A f \in DOMAIN d.fields : WrittenThen(d.table, d.id, f, r[f])
  <2> DEFINE d == job'[v].change
  <2>1. d = job[v].change
    BY <1>7
  <2>2. v # w => /\ job[v].wrote /\ d.table \in MarketTables /\ d.table \in Tables
                 /\ DOMAIN d.fields \subseteq Columns[d.table]
                 /\ \E r \in db[d.table] : r.id = d.id
                 /\ \A r \in db[d.table] : r.id = d.id =>
                      \A f \in DOMAIN d.fields : Written(d.table, d.id, f, r[f])
    BY <1>2, <1>7, <1>10, <2>1, WritersTables, LostPatches, TableNames DEF PatchesKept, MarketTables
  <2>3. v = w => d = c
    BY <2>1 DEF c
  <2> HIDE DEF d
  <2>4. CASE d.table # t
    BY <1>6, <1>8, <2>2, <2>3, <2>4 DEF d, t
  <2>5. CASE d.table = t /\ d.id # c.id
    <3>1. v # w
      BY <2>3, <2>5
    <3>2. \A r \in db'[t] : r.id = d.id => r \in db[t]
      BY <1>6, <2>5
    <3>3. \A r \in db[t] : r.id = d.id => r \in db'[t]
      BY <1>6, <2>5
    <3> QED BY <1>8, <2>2, <2>5, <3>1, <3>2, <3>3 DEF d
  <2>6. CASE d.table = t /\ d.id = c.id
    <3>1. \A r \in db'[t] : r.id = c.id => r \in come
      BY <1>6
    <3>2. \E r \in db'[t] : r.id = d.id
      BY <1>6, <2>6
    <3>3. ASSUME NEW r \in db'[t], r.id = d.id, NEW f \in DOMAIN d.fields
          PROVE  WrittenThen(t, c.id, f, r[f])
      <4>1. CASE f \in DOMAIN c.fields
        BY <1>6, <1>9, <2>6, <3>1, <3>3, <4>1
      <4>2. CASE f \notin DOMAIN c.fields
        <5>1. v # w
          BY <2>3, <3>3, <4>2
        <5>2. f \in Columns[t] \ DOMAIN c.fields
          BY <2>2, <2>6, <3>3, <4>2, <5>1
        <5>3. PICK old \in db[t] : old.id = c.id
          BY <2>2, <2>6, <5>1
        <5>4. Written(t, c.id, f, old[f])
          BY <2>2, <2>6, <3>3, <5>1, <5>3
        <5>5. old[f] = r[f]
          BY <1>6, <2>6, <3>1, <3>3, <5>2, <5>3
        <5> QED BY <1>8, <5>4, <5>5
      <4> QED BY <4>1, <4>2
    <3> QED BY <2>6, <3>2, <3>3 DEF d
  <2> QED BY <2>4, <2>5, <2>6
<1>11. NoLostPatch'
  BY <1>10, LostThen
<1> QED BY <1>10, <1>11 DEF PatchesKept

(* Nobody but an admin writes a rule or a promotion.                       *)
LEMMA MarketKept ==
  ASSUME TablesSeen, NEW tables, tables \subseteq Tables \ MarketTables, Writes(tables)
  PROVE  db'["rules"] = db["rules"] /\ db'["promotions"] = db["promotions"]
<1>1. ASSUME NEW table \in tables, NEW gone, NEW come, Commit(table, gone, come)
      PROVE  db'["rules"] = db["rules"] /\ db'["promotions"] = db["promotions"]
  BY <1>1, CommitSeen, TableNames DEF MarketTables
<1> QED BY <1>1 DEF Writes

LEMMA PatchStep ==
  ASSUME PatchInductive, [Next]_vars
  PROVE  PatchesKept'
<1>1. CatalogueInductive /\ PatchesKept /\ JobsKnown /\ TablesSeen /\ TablesOk(db)
  BY DEF PatchInductive, CatalogueInductive
<1>2. ASSUME job' = job, db'["rules"] = db["rules"], db'["promotions"] = db["promotions"]
      PROVE  PatchesKept'
  BY <1>1, <1>2, PatchFrame
<1>3. CASE UNCHANGED vars
  BY <1>2, <1>3 DEF vars, catalogueVars, othersVars
<1>4. CASE Sell
  BY <1>2, <1>4, SellWrites DEF Sell, othersVars, Start, Watch, Writes
<1>5. CASE Stock
  BY <1>1, <1>2, <1>5, StockWrites, MarketKept DEF Stock, othersVars, Edited, MarketTables
<1>6. CASE SyncContent
  BY <1>1, <1>2, <1>6, SyncWrites, MarketKept, TableNames DEF SyncContent, othersVars, MarketTables
<1>7. CASE Audit
  BY <1>2, <1>7, AuditWrites DEF Audit, marketVars, Writes
<1>8. CASE Exchange
  BY <1>1, <1>2, <1>8, ExchangeWrites, MarketKept, TableNames DEF Exchange, marketVars, MarketTables
<1>9. CASE Administer
  <2>1. PICK w \in Admins : MarketStep(w)
    BY <1>9 DEF Administer
  <2>2. /\ \A v \in Admins \ {w} : job'[v] = job[v]
        /\ job[w].wrote => job'[w].change = job[w].change /\ job'[w].wrote
    BY <1>1, <2>1, JobMoves, JobSets
  <2>3. ASSUME db' = db, job'[w].wrote => job[w].wrote
        PROVE  PatchesKept'
    <3>1. \A v \in Admins : /\ job'[v].wrote => job[v].wrote
                            /\ job[v].wrote => job'[v].wrote /\ job'[v].change = job[v].change
      BY <2>2, <2>3
    <3> QED BY <1>1, <2>3, <3>1, PatchFrame
  <2>4. CASE Insert(w) \/ Update(w)
    BY <1>1, <2>2, <2>3, <2>4, Committed, PatchCommit
  <2>5. CASE Receive(w) \/ Find(w) \/ WriteAudit(w) \/ JobFails(w)
    <3>1. db' = db
      BY <2>5 DEF Receive, Find, WriteAudit, JobFails
    <3> QED BY <1>1, <2>3, <2>5, <3>1, Unwritten
  <2> QED BY <2>1, <2>4, <2>5 DEF MarketStep
<1> QED BY <1>3, <1>4, <1>5, <1>6, <1>7, <1>8, <1>9 DEF Next

(* No patch is lost: a column of a rule or a promotion that requests have  *)
(* written has a value one of them wrote, so that two requests that name   *)
(* different columns both have their way.                                  *)
THEOREM PatchesNotLost == Spec => []NoLostPatch
<1>1. Init => PatchInductive
  <2> SUFFICES ASSUME Init PROVE PatchInductive
    OBVIOUS
  <2>1. \A w \in Admins : ~job[w].wrote
    BY DEF Init, MarketInit, NoJob
  <2> QED BY <2>1, CatalogueStarts DEF PatchInductive, PatchesKept, NoLostPatch
<1>2. PatchInductive /\ [Next]_vars => PatchInductive'
  BY CatalogueStep, PatchStep DEF PatchInductive
<1>3. PatchInductive => NoLostPatch
  BY DEF PatchInductive, PatchesKept
<1> QED BY <1>1, <1>2, <1>3, PTL DEF Spec
-----------------------------------------------------------------------------
(* What the content sync does not do leaves it and its hotels alone.       *)
LEMMA OutsideSync ==
  ASSUME CatalogueInductive, Next, ~SyncContent
  PROVE  sync' = sync /\ db'["hotels"] = db["hotels"]
<1>1. TablesSeen /\ JobsKnown
  BY DEF CatalogueInductive
<1>2. ASSUME NEW tables, tables \subseteq Tables \ {"hotels"}, Writes(tables)
      PROVE  db'["hotels"] = db["hotels"]
  <2>1. ASSUME NEW table \in tables, NEW gone, NEW come, Commit(table, gone, come)
        PROVE  db'["hotels"] = db["hotels"]
    BY <1>1, <1>2, <2>1, CommitSeen, TableNames
  <2> QED BY <1>2, <2>1 DEF Writes
<1>3. CASE Sell
  <2>1. sync' = sync
    BY <1>3 DEF Sell, SearchStep, Start, Read, AskAdapter, TakeRates, Record, SearchFails,
      TriggerSearch, ProjectRates, sourcingVars, AdapterStep, Retry, CheckAvailability, PutRaw,
      RecordSnapshot, Observe, ProjectRate, CallFails, CallStays
  <2>2. db' = db
    BY <1>3, SellWrites DEF Start, Watch, Writes
  <2> QED BY <2>1, <2>2
<1>4. CASE Stock
  BY <1>2, <1>4, StockWrites DEF Stock, sourcingVars, Edited
<1>5. CASE Administer
  <2>1. \A v \in Admins : job[v].step \in {"insert", "update"} =>
          job[v].change.table \in {"rules", "promotions"}
    BY <1>1, MarketColumns DEF JobsKnown, JobKnown, MarketTables
  <2> QED BY <1>2, <1>5, <2>1, AdministerWrites, TableNames DEF Administer, sourcingVars
<1>6. CASE Audit
  BY <1>6, AuditWrites DEF Audit, sourcingVars, Writes
<1>7. CASE Exchange
  BY <1>2, <1>7, ExchangeWrites, TableNames DEF Exchange, sourcingVars
<1> QED BY <1>3, <1>4, <1>5, <1>6, <1>7 DEF Next

(* A page that is written is listed, and nothing is taken off.             *)
LEMMA PageListed ==
  ASSUME CatalogueInductive, NEW y \in Syncs, UpsertSupplierHotels(y)
  PROVE  /\ db.hotels \subseteq db'.hotels
         /\ \A i \in DOMAIN Content : Content[i] \in sync[y].page => Listed(db'.hotels, i)
<1> DEFINE known == {h.code : h \in {r \in db.hotels : r.supplier = Hotelbeds}}
           new == {NormalizeHotel(c) : c \in sync[y].page \ known}
<1>1. Commit("hotels", {}, new)
  BY Zenon DEF UpsertSupplierHotels
<1>2. db'.hotels = db.hotels \cup new
  BY <1>1, CommitSeen, TableNames DEF CatalogueInductive
<1>3. ASSUME NEW code \in sync[y].page
      PROVE  \E h \in db'.hotels : h.supplier = Hotelbeds /\ h.code = code
  <2>1. CASE code \in known
    <3>1. PICK h \in db.hotels : h.supplier = Hotelbeds /\ h.code = code
      BY <2>1
    <3> QED BY <1>2, <3>1
  <2>2. CASE code \notin known
    <3>1. NormalizeHotel(code) \in db'.hotels
      BY <1>2, <1>3, <2>2
    <3>2. NormalizeHotel(code).supplier = Hotelbeds /\ NormalizeHotel(code).code = code
      BY DEF NormalizeHotel
    <3> QED BY <3>1, <3>2
  <2> QED BY <2>1, <2>2
<1> QED BY <1>2, <1>3 DEF Listed

LEMMA ContentListed ==
  /\ Len(Content) \in Nat /\ DOMAIN Content = 1..Len(Content)
  /\ \A i \in DOMAIN Content : Content[i] \in Range(Content)
BY SourcingAssumption DEF Range

LEMMA ReachesStill ==
  ASSUME NEW s, NEW rows, NEW more, rows \subseteq more, Reaches(s, rows)
  PROVE  Reaches(s, more)
<1>1. \A i : Listed(rows, i) => Listed(more, i)
  BY DEF Listed
<1> QED BY <1>1 DEF Reaches

LEMMA ListReaches ==
  ASSUME NEW s, NEW rows, Reaches(s, rows), s.step = "list", NEW counted \in BOOLEAN
  PROVE  LET end == s.cursor + PageSize - 1
             last == IF end < Len(Content) THEN end ELSE Len(Content) IN
         Reaches([s EXCEPT !.step = "store", !.page = {Content[i] : i \in s.cursor..last},
                           !.counted = counted,
                           !.next = IF counted THEN NextCursor(last) ELSE None], rows)
<1> DEFINE end == s.cursor + PageSize - 1
           last == IF end < Len(Content) THEN end ELSE Len(Content)
           page == {Content[i] : i \in s.cursor..last}
           next == IF counted THEN NextCursor(last) ELSE None
           t == [s EXCEPT !.step = "store", !.page = page, !.counted = counted, !.next = next]
<1>1. s \in SyncRecord /\ s.cursor \in Nat \ {0}
  BY DEF Reaches, SyncRecord
<1>2. last \in Nat /\ last <= Len(Content)
  <2>1. end \in Nat
    BY <1>1, SourcingAssumption
  <2> QED BY <2>1, ContentListed
<1>3. /\ next \in Nat \cup {None} /\ next # 0
      /\ counted /\ next = None => last = Len(Content)
      /\ next # None => counted /\ next = last + 1
  BY <1>2, ContentListed, NoneAssumption DEF NextCursor
<1>4. page \subseteq Range(Content)
  BY <1>1, <1>2, ContentListed
<1>5. \A i \in DOMAIN Content : i <= last => i < s.cursor \/ Content[i] \in page
  BY <1>1, <1>2, ContentListed
<1> HIDE DEF last, page, next
<1>6. /\ t.step = "store" /\ t.cursor = s.cursor /\ t.page = page
      /\ t.counted = counted /\ t.next = next
  BY <1>1 DEF SyncRecord
<1>7. t \in SyncRecord
  BY <1>1, <1>3, <1>4 DEF SyncRecord
<1>8. \A i \in DOMAIN Content : counted /\ (next = None \/ i < next) => i <= last
  <2>1. \A i \in DOMAIN Content : i \in Nat /\ i <= Len(Content)
    BY ContentListed
  <2>2. CASE next = None
    BY <1>3, <2>1, <2>2
  <2>3. CASE next # None
    <3>1. next = last + 1 /\ \A i \in DOMAIN Content : i < last + 1 => i <= last
      BY <1>2, <1>3, <2>1, <2>3
    <3> QED BY <2>3, <3>1
  <2> QED BY <2>2, <2>3
<1>9. \A i \in DOMAIN Content : i < s.cursor => Listed(rows, i)
  BY DEF Reaches
<1> HIDE DEF t
<1>10. Reaches(t, rows)
  BY <1>3, <1>5, <1>6, <1>7, <1>8, <1>9 DEF Reaches
<1> QED BY <1>10 DEF t, page, next, last

LEMMA UpsertReaches ==
  ASSUME NEW s, NEW rows, Reaches(s, rows), s.step = "upsert",
         \A i \in DOMAIN Content : Content[i] \in s.page => Listed(rows, i)
  PROVE  Reaches(NextPage(s), rows)
<1>1. /\ s \in SyncRecord /\ s.next \in Nat \cup {None} /\ s.pages \in Nat /\ s.next # 0
      /\ s.next # None => s.counted
      /\ \A i \in DOMAIN Content : s.counted /\ (s.next = None \/ i < s.next) => Listed(rows, i)
  BY DEF Reaches, SyncRecord
<1>2. CASE s.next # None /\ s.pages + 1 < MaxPages
  <2> DEFINE t == [s EXCEPT !.step = "list", !.cursor = s.next, !.pages = @ + 1]
  <2>1. s.next \in Nat \ {0} /\ s.pages + 1 \in Nat
    BY <1>1, <1>2
  <2>2. t \in SyncRecord /\ t.step = "list" /\ t.cursor = s.next
    BY <1>1, <2>1 DEF SyncRecord
  <2>3. NextPage(s) = t
    BY <1>2 DEF NextPage
  <2> HIDE DEF t
  <2>4. Reaches(t, rows)
    BY <1>1, <1>2, <2>2 DEF Reaches
  <2> QED BY <2>3, <2>4
<1>3. CASE ~(s.next # None /\ s.pages + 1 < MaxPages)
  <2> DEFINE t == [s EXCEPT !.step = "done", !.pages = @ + 1]
  <2>1. s.pages + 1 \in Nat
    BY <1>1
  <2>2. /\ t \in SyncRecord /\ t.step = "done" /\ t.next = s.next /\ t.counted = s.counted
    BY <1>1, <2>1 DEF SyncRecord
  <2>3. NextPage(s) = t
    BY <1>3 DEF NextPage
  <2> HIDE DEF t
  <2>4. Reaches(t, rows)
    BY <1>1, <2>2 DEF Reaches
  <2> QED BY <2>3, <2>4
<1> QED BY <1>2, <1>3

(* One sync moves, and no hotel is taken off the table.                    *)
LEMMA SyncMoves ==
  ASSUME SyncReaches, NEW y \in Syncs, db["hotels"] \subseteq db'["hotels"], NEW s,
         sync' = [sync EXCEPT ![y] = s], Reaches(s, db'["hotels"])
  PROVE  SyncReaches'
<1>1. DOMAIN sync = Syncs /\ \A z \in Syncs : Reaches(sync[z], db["hotels"])
  BY DEF SyncReaches
<1>2. \A z \in Syncs : Reaches(sync[z], db'["hotels"])
  BY <1>1, ReachesStill
<1>3. DOMAIN sync' = Syncs /\ \A z \in Syncs : Reaches(sync'[z], db'["hotels"])
  BY <1>1, <1>2
<1> QED BY <1>3 DEF SyncReaches

LEMMA SyncStep ==
  ASSUME SyncInductive, [Next]_vars
  PROVE  SyncReaches'
<1>1. CatalogueInductive /\ SyncReaches /\ DOMAIN sync = Syncs
  BY DEF SyncInductive, SyncReaches
<1>2. ASSUME NEW y \in Syncs
      PROVE  Reaches(sync[y], db["hotels"]) /\ sync[y] \in SyncRecord
  BY <1>1 DEF SyncReaches, Reaches
<1>3. ASSUME sync' = sync, db'["hotels"] = db["hotels"]
      PROVE  SyncReaches'
  BY <1>1, <1>3 DEF SyncReaches
<1>4. CASE UNCHANGED vars
  BY <1>3, <1>4 DEF vars, catalogueVars, sourcingVars
<1>5. CASE Next /\ ~SyncContent
  BY <1>1, <1>3, <1>5, OutsideSync
<1>6. ASSUME NEW y \in Syncs, TriggerContentSync(y)
      PROVE  SyncReaches'
  <2> DEFINE s == [NoSync EXCEPT !.step = "list"]
  <2>1. sync' = [sync EXCEPT ![y] = s] /\ db' = db
    BY <1>6 DEF TriggerContentSync, catalogueVars
  <2>2. s \in SyncRecord /\ s.step = "list" /\ s.cursor = 1
    <3>1. NoSync \in SyncRecord /\ NoSync.cursor = 1
      BY DEF SyncRecord, NoSync
    <3> QED BY <3>1 DEF SyncRecord
  <2>3. \A i \in DOMAIN Content : ~(i < 1)
    BY ContentListed
  <2> HIDE DEF s
  <2>4. Reaches(s, db["hotels"])
    BY <2>2, <2>3 DEF Reaches
  <2> QED BY <1>1, <2>1, <2>4, SyncMoves
<1>7. ASSUME NEW y \in Syncs, ListHotels(y)
      PROVE  SyncReaches'
  <2> DEFINE end == sync[y].cursor + PageSize - 1
             last == IF end < Len(Content) THEN end ELSE Len(Content)
             s(counted) ==
               [sync[y] EXCEPT !.step = "store", !.page = {Content[i] : i \in sync[y].cursor..last},
                               !.counted = counted,
                               !.next = IF counted THEN NextCursor(last) ELSE None]
  <2>1. sync[y].step = "list" /\ db' = db
    BY <1>7 DEF ListHotels, catalogueVars
  <2>2. PICK counted \in BOOLEAN : sync' = [sync EXCEPT ![y] = s(counted)]
    BY <1>1, <1>7 DEF ListHotels
  <2>3. Reaches(s(counted), db["hotels"])
    BY <1>2, <2>1, ListReaches
  <2> HIDE DEF s
  <2> QED BY <1>1, <2>1, <2>2, <2>3, SyncMoves
<1>8. ASSUME NEW y \in Syncs, StorePage(y)
      PROVE  SyncReaches'
  <2> DEFINE s == [sync[y] EXCEPT !.step = "upsert"]
  <2>1. sync[y].step = "store" /\ sync' = [sync EXCEPT ![y] = s] /\ db' = db
    BY <1>8 DEF StorePage, catalogueVars
  <2>2. /\ s \in SyncRecord /\ s.step = "upsert" /\ s.cursor = sync[y].cursor
        /\ s.next = sync[y].next /\ s.page = sync[y].page /\ s.counted = sync[y].counted
    BY <1>2 DEF SyncRecord
  <2> HIDE DEF s
  <2>3. Reaches(s, db["hotels"])
    BY <1>2, <2>1, <2>2 DEF Reaches
  <2> QED BY <1>1, <2>1, <2>3, SyncMoves
<1>9. ASSUME NEW y \in Syncs, UpsertSupplierHotels(y)
      PROVE  SyncReaches'
  <2>1. sync[y].step = "upsert" /\ sync' = [sync EXCEPT ![y] = NextPage(sync[y])]
    BY <1>9 DEF UpsertSupplierHotels
  <2>2. /\ db["hotels"] \subseteq db'["hotels"]
        /\ \A i \in DOMAIN Content : Content[i] \in sync[y].page => Listed(db'["hotels"], i)
    BY <1>1, <1>9, PageListed
  <2>3. Reaches(sync[y], db'["hotels"])
    BY <1>2, <2>2, ReachesStill
  <2>4. Reaches(NextPage(sync[y]), db'["hotels"])
    BY <2>1, <2>2, <2>3, UpsertReaches
  <2> QED BY <1>1, <2>1, <2>2, <2>4, SyncMoves
<1>10. ASSUME NEW y \in Syncs, SyncFails(y)
       PROVE  SyncReaches'
  <2> DEFINE s == [sync[y] EXCEPT !.step = "failed"]
  <2>1. sync' = [sync EXCEPT ![y] = s] /\ db' = db
    BY <1>10 DEF SyncFails, catalogueVars
  <2>2. s \in SyncRecord /\ s.step = "failed"
    BY <1>2 DEF SyncRecord
  <2> HIDE DEF s
  <2>3. Reaches(s, db["hotels"])
    BY <2>2 DEF Reaches
  <2> QED BY <1>1, <2>1, <2>3, SyncMoves
<1> QED BY <1>4, <1>5, <1>6, <1>7, <1>8, <1>9, <1>10 DEF SyncContent, ContentSync

(* The id of a new hotel is not that of another one.                       *)
LEMMA UpsertNames ==
  ASSUME SyncInductive, NEW y \in Syncs, UpsertSupplierHotels(y)
  PROVE  HotelsNamed'
<1> DEFINE known == {h.code : h \in {r \in db.hotels : r.supplier = Hotelbeds}}
           new == {NormalizeHotel(c) : c \in sync[y].page \ known}
<1>1. Commit("hotels", {}, new)
  BY Zenon DEF UpsertSupplierHotels
<1>2. db'.hotels = db.hotels \cup new
  BY <1>1, CommitSeen, TableNames DEF CatalogueInductive, SyncInductive
<1>3. sync[y].page \subseteq DOMAIN NewHotel
  <2>1. sync[y].page \subseteq Range(Content)
    BY DEF SyncInductive, SyncReaches, Reaches, SyncRecord
  <2>2. Range(Content) \subseteq DOMAIN NewHotel
    BY SourcingAssumption DEF Range
  <2> QED BY <2>1, <2>2
<1>4. \A c : /\ NormalizeHotel(c).id = NewHotel[c] /\ NormalizeHotel(c).code = c
             /\ NormalizeHotel(c).supplier = Hotelbeds
  BY DEF NormalizeHotel
<1>5. \A c \in DOMAIN NewHotel : NewHotel[c] \in Range(NewHotel)
  BY DEF Range
<1>6. /\ IdsDistinct(db.hotels)
      /\ \A h \in db.hotels :
           h.id # None /\ (h \in Initial.hotels \/ \E c \in DOMAIN NewHotel : h = NormalizeHotel(c))
  BY DEF SyncInductive, HotelsNamed
<1>7. ASSUME NEW c \in sync[y].page \ known, NEW h \in db.hotels
      PROVE  h.id # NewHotel[c]
  <2>1. CASE h \in Initial.hotels
    BY <1>3, <1>5, <2>1, HotelsAssumption
  <2>2. ASSUME NEW d \in DOMAIN NewHotel, h = NormalizeHotel(d)
        PROVE  h.id # NewHotel[c]
    <3>1. d \in known
      BY <1>4, <2>2
    <3>2. d # c
      BY <3>1
    <3> QED BY <1>3, <1>4, <2>2, <3>2, HotelsAssumption
  <2> QED BY <1>6, <2>1, <2>2
<1>8. \A h \in new : \E c \in sync[y].page \ known : h = NormalizeHotel(c)
  BY DEF new
<1> HIDE DEF new, known
<1>9. \A h \in new : h.id # None /\ \E c \in DOMAIN NewHotel : h = NormalizeHotel(c)
  <2>1. \A c \in sync[y].page \ known : c \in DOMAIN NewHotel /\ NewHotel[c] # None
    BY <1>3, <1>5, HotelsAssumption
  <2> QED BY <1>4, <1>8, <2>1
<1>10. \A g \in db.hotels, h \in new : g.id # h.id
  BY <1>4, <1>7, <1>8
<1>11. IdsDistinct(new)
  <2>1. \A c, d \in sync[y].page \ known : c # d => NewHotel[c] # NewHotel[d]
    BY <1>3, HotelsAssumption
  <2> QED BY <1>4, <1>8, <2>1 DEF IdsDistinct
<1>12. IdsDistinct(db'.hotels)
  BY <1>2, <1>6, <1>10, <1>11 DEF IdsDistinct
<1>13. \A h \in db'.hotels :
         h.id # None /\ (h \in Initial.hotels \/ \E c \in DOMAIN NewHotel : h = NormalizeHotel(c))
  BY <1>2, <1>6, <1>9
<1> QED BY <1>12, <1>13 DEF HotelsNamed

LEMMA NamesStep ==
  ASSUME SyncInductive, [Next]_vars
  PROVE  HotelsNamed'
<1>1. ASSUME db'["hotels"] = db["hotels"]
      PROVE  HotelsNamed'
  BY <1>1 DEF SyncInductive, HotelsNamed
<1>2. CASE UNCHANGED vars
  BY <1>1, <1>2 DEF vars, catalogueVars
<1>3. CASE Next /\ ~SyncContent
  BY <1>1, <1>3, OutsideSync DEF SyncInductive
<1>4. ASSUME NEW y \in Syncs,
             TriggerContentSync(y) \/ ListHotels(y) \/ StorePage(y) \/ SyncFails(y)
      PROVE  HotelsNamed'
  BY <1>1, <1>4 DEF TriggerContentSync, ListHotels, StorePage, SyncFails, catalogueVars
<1> QED BY <1>2, <1>3, <1>4, UpsertNames DEF SyncContent, ContentSync

THEOREM SyncInvariant == Spec => []SyncInductive
<1>1. Init => SyncInductive
  <2> SUFFICES ASSUME Init PROVE SyncInductive
    OBVIOUS
  <2>1. sync = [y \in Syncs |-> NoSync]
    BY DEF Init, SourcingInit
  <2>2. Reaches(NoSync, db.hotels)
    <3>1. NoSync \in SyncRecord /\ NoSync.step = "idle"
      BY DEF NoSync, SyncRecord
    <3> QED BY <3>1 DEF Reaches
  <2>3. HotelsNamed
    BY HotelsAssumption DEF Init, CatalogueInit, HotelsNamed
  <2> QED BY <2>1, <2>2, <2>3, CatalogueStarts DEF SyncInductive, SyncReaches
<1>2. SyncInductive /\ [Next]_vars => SyncInductive'
  BY CatalogueStep, SyncStep, NamesStep DEF SyncInductive
<1> QED BY <1>1, <1>2, PTL DEF Spec

(* A content sync that came to the end of what Hotelbeds counts has left   *)
(* one row for each of its hotels.                                         *)
THEOREM SyncsComplete == Spec => []SyncComplete
<1>1. SyncInductive => SyncComplete
  <2> SUFFICES ASSUME SyncInductive, NEW y \in Syncs, NEW i \in DOMAIN Content,
                      sync[y].step = "done", sync[y].counted, sync[y].next = None
               PROVE  Cardinality({h \in db.hotels : h.supplier = Hotelbeds /\ h.code = Content[i]}) = 1
    BY DEF SyncComplete
  <2> DEFINE rows == {h \in db.hotels : h.supplier = Hotelbeds /\ h.code = Content[i]}
  <2>1. HotelsOk(db.hotels) /\ Listed(db.hotels, i)
    BY DEF SyncInductive, CatalogueInductive, TablesOk, SyncReaches, Reaches
  <2>2. PICK h \in rows : TRUE
    BY <2>1 DEF Listed
  <2>3. rows = {h}
    BY <2>1, <2>2 DEF HotelsOk
  <2> QED BY <2>3, FS_Singleton
<1> QED BY <1>1, SyncInvariant, PTL
-----------------------------------------------------------------------------
LEMMA AuditKept ==
  ASSUME AuditInductive, Next, ~Audit
  PROVE  AuditInductive'
<1>1. auditVars' = auditVars
  BY DEF Next, Sell, Stock, SyncContent, Administer, Exchange, othersVars, auditVars
<1>2. clock' \in Nat
  <2>1. CASE Tick
    BY <2>1 DEF Tick, AuditInductive
  <2>2. CASE ~Tick
    BY <2>2, ClockKept DEF AuditInductive
  <2> QED BY <2>1, <2>2
<1> QED BY <1>1, <1>2 DEF AuditInductive, EventsNamed, TrailCut, Seen, auditVars

LEMMA AuditedEvent ==
  ASSUME AuditInductive, NEW id \in EventIds, NEW tenant, NEW category,
         tenant \in {x.tenant : x \in EventKinds \cup AuditQueries},
         category \in {x.category : x \in EventKinds} \cup {"SECURITY"},
         \A e \in inflight \cup events : e.id # id,
         inflight' = inflight \cup
           {[at |-> clock, id |-> id, tenant |-> tenant, category |-> category]},
         events' = events
  PROVE  EventsNamed'
<1> DEFINE new == [at |-> clock, id |-> id, tenant |-> tenant, category |-> category]
<1>1. new \in Event /\ new.id = id
  BY Zenon DEF Event, AuditInductive
<1> HIDE DEF new
<1>2. inflight' = inflight \cup {new}
  BY DEF new
<1> QED BY <1>1, <1>2 DEF EventsNamed, AuditInductive

LEMMA EmitKeeps ==
  ASSUME AuditInductive, Emit
  PROVE  AuditInductive'
<1>1. PICK kind \in EventKinds, id \in EventIds :
        /\ \A e \in inflight \cup events : e.id # id
        /\ inflight' = inflight \cup
             {[at |-> clock, id |-> id, tenant |-> kind.tenant, category |-> kind.category]}
  BY DEF Emit
<1>2. UNCHANGED <<events, trail, clock>>
  BY DEF Emit, AuditStays, catalogueVars
<1>3. EventsNamed'
  <2>1. /\ kind.tenant \in {x.tenant : x \in EventKinds \cup AuditQueries}
        /\ kind.category \in {x.category : x \in EventKinds} \cup {"SECURITY"}
    OBVIOUS
  <2>2. events' = events
    BY <1>2
  <2> QED BY <1>1, <2>1, <2>2, AuditedEvent, Zenon
<1> QED BY <1>2, <1>3 DEF AuditInductive, TrailCut, Seen

LEMMA EndEmissionKeeps ==
  ASSUME AuditInductive, EndEmission
  PROVE  AuditInductive'
<1>1. UNCHANGED <<trail, clock>>
  BY DEF EndEmission, AuditStays, catalogueVars
<1>2. EventsNamed' /\ events \subseteq events'
  <2>1. PICK e \in inflight : inflight' = inflight \ {e} /\ events' \in {events, events \cup {e}}
    BY DEF EndEmission
  <2> QED BY <2>1, FS_AddElement DEF EventsNamed, AuditInductive
<1>3. \A query : Visible(query, events) \subseteq Visible(query, events')
  BY <1>2 DEF Visible
<1>4. trail \in Trails(events')
  <2>1. Seq(SUBSET events) \subseteq Seq(SUBSET (events'))
    BY <1>2
  <2>2. Trails(events) \subseteq Trails(events')
    BY <1>2, <2>1, Zenon DEF Trails
  <2> QED BY <2>2 DEF AuditInductive, TrailCut
<1>5. TrailCut'
  BY <1>1, <1>3, <1>4 DEF AuditInductive, TrailCut, Seen
<1> QED BY <1>1, <1>2, <1>5 DEF AuditInductive

LEMMA StartQueryKeeps ==
  ASSUME AuditInductive, StartQuery
  PROVE  AuditInductive'
<1>1. UNCHANGED <<events, inflight, clock>>
  BY DEF StartQuery, AuditStays, catalogueVars
<1>2. PICK query \in AuditQueries :
        trail' = IF Forbidden(query) \/ BadWindow(query)
                 THEN [NoTrail EXCEPT !.step = "refused", !.query = query]
                 ELSE [NoTrail EXCEPT !.step = "list", !.query = query,
                                      !.before = Visible(query, events)]
  BY DEF StartQuery
<1>3. /\ trail'.pages = <<>> /\ trail'.cursor = None /\ trail'.query = query
      /\ trail'.step \in {"refused", "list"}
      /\ trail'.before \in {{}, Visible(query, events)}
  BY <1>2 DEF NoTrail
<1>4. Seen' = {} /\ DOMAIN trail'.pages = {}
  BY <1>3 DEF Seen
<1>5. trail' \in Trails(events')
  <2>1. <<>> \in Seq(SUBSET events) /\ Visible(query, events) \subseteq events
    BY DEF Visible
  <2>2. trail' = [step |-> trail'.step, query |-> query, cursor |-> None, before |-> trail'.before,
                  pages |-> <<>>]
    BY <1>2 DEF NoTrail
  <2> QED BY <1>1, <1>3, <2>1, <2>2 DEF Trails
<1>6. TrailCut'
  BY <1>1, <1>3, <1>4, <1>5 DEF TrailCut, AfterCursor
<1> QED BY <1>1, <1>6 DEF AuditInductive, EventsNamed

LEMMA LimitCounts ==
  ASSUME NEW query \in AuditQueries
  PROVE  ClampLimit(query.limit) \in Nat \ {0}
BY AuditAssumption DEF ClampLimit

LEMMA ListEventsKeeps ==
  ASSUME AuditInductive, ListEvents
  PROVE  AuditInductive'
<1> DEFINE limit == ClampLimit(trail.query.limit)
           S == {e \in Visible(trail.query, events) : AfterCursor(e, trail.cursor)}
           F == Newest(S, limit + 1)
           P == Newest(F, limit)
           last == {e \in P : \A f \in P \ {e} : Older(e, f)}
           cursor == CHOOSE e \in last : TRUE
<1>1. trail.step = "list" /\ events' = events /\ clock' = clock
  BY DEF ListEvents, AuditStays, catalogueVars
<1>2. trail' = [trail EXCEPT !.pages = Append(@, P),
                             !.cursor = IF F = P THEN None ELSE cursor,
                             !.step = IF F = P THEN "done" ELSE "list"]
  BY Zenon DEF ListEvents
<1>3. EventsNamed'
  <2>1. CASE inflight' = inflight
    BY <1>1, <2>1 DEF AuditInductive, EventsNamed
  <2>2. CASE \E id \in EventIds :
               /\ \A e \in inflight \cup events : e.id # id
               /\ inflight' = inflight \cup
                    {[at |-> clock, id |-> id, tenant |-> trail.query.tenant, category |-> "SECURITY"]}
    <3>1. /\ trail.query.tenant \in {x.tenant : x \in EventKinds \cup AuditQueries}
          /\ "SECURITY" \in {x.category : x \in EventKinds} \cup {"SECURITY"}
      BY <1>1 DEF AuditInductive, TrailCut
    <3> QED BY <1>1, <2>2, <3>1, AuditedEvent, Zenon
  <2> QED BY <2>1, <2>2, Zenon DEF ListEvents
<1>4. limit \in Nat \ {0}
  BY <1>1, LimitCounts DEF AuditInductive, TrailCut
<1>5. IsFiniteSet(S) /\ Named(S) /\ S \subseteq events /\ S \subseteq Visible(trail.query, events)
  <2>1. S \in SUBSET events /\ S \subseteq Visible(trail.query, events)
    BY DEF Visible
  <2>2. IsFiniteSet(events) /\ events \subseteq Event /\ \A e, f \in events : e.id = f.id => e = f
    BY DEF AuditInductive, EventsNamed
  <2> HIDE DEF S
  <2> QED BY <2>1, <2>2, FS_Subset DEF Named
<1>6. /\ P \subseteq S
      /\ \A e \in S \ P, p \in P : Older(e, p)
      /\ F = P => P = S
      /\ F # P => P # {}
  <2> HIDE DEF S, limit
  <2> QED BY <1>4, <1>5, PageCut
<1>7. F # P => cursor \in P /\ \A f \in P \ {cursor} : Older(cursor, f)
  <2> HIDE DEF P, F
  <2> SUFFICES ASSUME F # P PROVE cursor \in P /\ \A f \in P \ {cursor} : Older(cursor, f)
    OBVIOUS
  <2>1. P \in SUBSET S /\ P # {}
    BY <1>6
  <2>2. IsFiniteSet(P) /\ Named(P)
    <3> HIDE DEF S
    <3> QED BY <2>1, <1>5, FS_Subset DEF Named
  <2>3. last # {}
    BY <2>1, <2>2, OldestExists, Zenon
  <2>4. cursor \in last
    BY <2>3
  <2> HIDE DEF cursor
  <2> QED BY <2>4
<1> HIDE DEF S, F, P, limit, last, cursor
<1>8. /\ trail \in Trails(events) /\ trail.query \in AuditQueries
      /\ trail.pages \in Seq(SUBSET events) /\ P \in SUBSET events
  <2>1. trail \in Trails(events) /\ trail.query \in AuditQueries
    BY <1>1 DEF AuditInductive, TrailCut
  <2>2. trail.pages \in Seq(SUBSET events)
    BY <2>1, Zenon DEF Trails
  <2> QED BY <2>1, <2>2, <1>5, <1>6
<1>9. /\ trail'.pages = Append(trail.pages, P)
      /\ trail'.cursor = IF F = P THEN None ELSE cursor
      /\ trail'.step = IF F = P THEN "done" ELSE "list"
      /\ trail'.query = trail.query /\ trail'.before = trail.before
      /\ trail'.pages \in Seq(SUBSET events)
      /\ trail' \in Trails(events)
  <2>1. trail = [step |-> trail.step, query |-> trail.query, cursor |-> trail.cursor,
                 before |-> trail.before, pages |-> trail.pages]
    BY <1>8 DEF Trails
  <2>2. trail' = [step |-> IF F = P THEN "done" ELSE "list", query |-> trail.query,
                  cursor |-> IF F = P THEN None ELSE cursor,
                  before |-> trail.before, pages |-> Append(trail.pages, P)]
    BY <1>2, <2>1
  <2>3. Append(trail.pages, P) \in Seq(SUBSET events)
    BY <1>8
  <2>4. F # P => cursor \in Event
    BY <1>5, <1>6, <1>7 DEF Named
  <2>5. trail.before \in SUBSET events
    BY <1>8, Zenon DEF Trails
  <2>6. trail' \in Trails(events)
    BY <2>2, <2>3, <2>4, <2>5, <1>8 DEF Trails
  <2> QED BY <2>2, <2>3, <2>6
<1>10. /\ DOMAIN trail'.pages = DOMAIN trail.pages \cup {Len(trail.pages) + 1}
       /\ Len(trail.pages) + 1 \notin DOMAIN trail.pages
       /\ \A i \in DOMAIN trail.pages : trail'.pages[i] = trail.pages[i]
       /\ trail'.pages[Len(trail.pages) + 1] = P
  BY <1>8, <1>9
<1>11. Seen' = Seen \cup P
  BY <1>10, Zenon DEF Seen
<1>12. /\ trail.cursor \in Event \cup {None}
       /\ Seen \subseteq Event /\ P \subseteq Event
       /\ \A e \in Seen : trail.cursor # None /\ (e = trail.cursor \/ Older(trail.cursor, e))
       /\ \A e \in P : trail.cursor = None \/ Older(e, trail.cursor)
  <2>1. trail.cursor \in Event \cup {None}
    BY <1>8, Zenon DEF Trails
  <2>2. Seen \subseteq Event
    BY DEF AuditInductive, TrailCut, EventsNamed, Visible
  <2>3. \A e \in Seen : trail.cursor # None /\ (e = trail.cursor \/ Older(trail.cursor, e))
    BY <1>1 DEF AuditInductive, TrailCut
  <2>4. \A e \in P : trail.cursor = None \/ Older(e, trail.cursor)
    BY <1>6 DEF S, AfterCursor
  <2> QED BY <2>1, <2>2, <2>3, <2>4, <1>5, <1>6 DEF Named
(* What is on an earlier page is not older than the cursor, and all of     *)
(* this page is.                                                           *)
<1>13. \A e \in Seen, f \in P : Older(f, e)
  <2> SUFFICES ASSUME NEW e \in Seen, NEW f \in P PROVE Older(f, e)
    OBVIOUS
  <2>1. e \in Event /\ f \in Event /\ trail.cursor # None
    BY <1>12, Zenon
  <2>2. Older(f, trail.cursor) /\ trail.cursor \in Event
    BY <1>12, <2>1
  <2>3. e = trail.cursor \/ Older(trail.cursor, e)
    BY <1>12, Zenon
  <2>4. CASE e = trail.cursor
    BY <2>2, <2>4
  <2>5. CASE Older(trail.cursor, e)
    BY <2>1, <2>2, <2>5, OlderOrders, Zenon
  <2> QED BY <2>3, <2>4, <2>5
<1>14. Seen \cap P = {}
  <2>1. \A e \in Seen : ~Older(e, e)
    BY <1>12, OlderOrders, Zenon
  <2> QED BY <2>1, <1>13
<1>15. \A i, j \in DOMAIN trail'.pages : i # j => trail'.pages[i] \cap trail'.pages[j] = {}
  <2>1. \A i \in DOMAIN trail.pages : trail.pages[i] \cap P = {}
    BY <1>14 DEF Seen
  <2>2. \A i, j \in DOMAIN trail.pages : i # j => trail.pages[i] \cap trail.pages[j] = {}
    BY DEF AuditInductive, TrailCut
  <2> QED BY <2>1, <2>2, <1>10
<1>16. Seen' \subseteq Visible(trail.query, events) /\ trail.before \subseteq Visible(trail.query, events)
  BY <1>5, <1>6, <1>11 DEF AuditInductive, TrailCut
<1>17. \A e \in trail.before \ (Seen \cup P) : e \in S \ P
  BY <1>1 DEF AuditInductive, TrailCut, S
<1>18. F = P => trail.before \subseteq Seen \cup P
  BY <1>6, <1>17
<1>19. ASSUME F # P
       PROVE  /\ \A e \in Seen \cup P : cursor # None /\ (e = cursor \/ Older(cursor, e))
              /\ \A e \in trail.before \ (Seen \cup P) : Older(e, cursor)
  <2>1. cursor \in P /\ \A f \in P \ {cursor} : Older(cursor, f)
    BY <1>7, <1>19
  <2>2. cursor # None
    BY <2>1, <1>12, AuditAssumption
  <2>3. \A e \in Seen : Older(cursor, e)
    BY <1>13, <2>1
  <2>4. \A e \in trail.before \ (Seen \cup P) : Older(e, cursor)
    BY <1>6, <1>17, <2>1
  <2> QED BY <2>1, <2>2, <2>3, <2>4
<1>20. TrailCut'
  BY <1>1, <1>8, <1>9, <1>11, <1>15, <1>16, <1>18, <1>19 DEF TrailCut, AfterCursor
<1>21. AuditInductive'
  BY <1>1, <1>3, <1>20 DEF AuditInductive
<1> QED BY <1>21

LEMMA AuditStarts == Init => AuditInductive
<1> SUFFICES ASSUME Init PROVE AuditInductive
  OBVIOUS
<1>1. clock = 0 /\ events = {} /\ inflight = {} /\ trail = NoTrail
  BY DEF Init, CatalogueInit, AuditInit
<1>2. trail \in Trails({}) /\ trail.pages = <<>> /\ trail.before = {} /\ trail.step = "idle"
  <2>1. <<>> \in Seq(SUBSET {})
    OBVIOUS
  <2> QED BY <1>1, <2>1 DEF NoTrail, Trails
<1>3. Seen = {}
  BY <1>2 DEF Seen
<1>4. EventsNamed
  BY <1>1, FS_EmptySet DEF EventsNamed
<1> QED BY <1>1, <1>2, <1>3, <1>4 DEF AuditInductive, TrailCut

THEOREM AuditInvariant == Spec => []AuditInductive
<1>1. AuditInductive /\ [Next]_vars => AuditInductive'
  <2> SUFFICES ASSUME AuditInductive, [Next]_vars PROVE AuditInductive'
    OBVIOUS
  <2>1. CASE Audit
    BY <2>1, EmitKeeps, EndEmissionKeeps, StartQueryKeeps, ListEventsKeeps DEF Audit, AuditStep
  <2>2. CASE Next /\ ~Audit
    BY <2>2, AuditKept
  <2>3. CASE UNCHANGED vars
    BY <2>3 DEF vars, catalogueVars, othersVars, AuditInductive, EventsNamed, TrailCut, Seen
  <2> QED BY <2>1, <2>2, <2>3
<1> QED BY <1>1, AuditStarts, PTL DEF Spec

(* Paging neither loses nor repeats an event, whatever is committed        *)
(* between two pages (AuditEventRepository.listEvents).                    *)
THEOREM PagesWhole == Spec => []PagesComplete
<1>1. AuditInductive => PagesComplete
  BY DEF AuditInductive, TrailCut, Seen, PagesComplete
<1> QED BY <1>1, AuditInvariant, PTL
-----------------------------------------------------------------------------
(* A set of naturals with 0 and every successor has all of them.           *)
LEMMA NaturalInduction ==
  ASSUME NEW P \in SUBSET Nat, 0 \in P, \A n \in P : n + 1 \in P
  PROVE  P = Nat
<1> SUFFICES ASSUME P # Nat PROVE FALSE
  OBVIOUS
<1>1. Nat \ P \subseteq Nat /\ Nat \ P # {}
  OBVIOUS
<1>2. PICK n \in Nat \ P : \A m \in Nat \ P : ~(<<m, n>> \in OpToRel(<, Nat))
  <2> DEFINE Q == Nat \ P
  <2>1. Q \subseteq Nat /\ Q # {}
    BY <1>1
  <2> HIDE DEF Q
  <2>2. \E n \in Q : \A m \in Q : ~(<<m, n>> \in OpToRel(<, Nat))
    BY <2>1, WFMin, NatLessThanWellFounded, Zenon
  <2> QED BY <2>2 DEF Q
<1>3. n # 0 /\ n - 1 \in Nat
  OBVIOUS
<1>4. n - 1 \in Nat \ P
  BY <1>3
<1>5. <<n - 1, n>> \in OpToRel(<, Nat)
  BY <1>3 DEF OpToRel
<1> QED BY <1>2, <1>4, <1>5

(* A sum is that of all but one row, and the row: FoldSet is the value, at *)
(* the whole set, of a function on its subsets.                            *)
Elem(s) == CHOOSE x \in s : TRUE

LEMMA TotalUnfolds ==
  ASSUME NEW S, IsFiniteSet(S), NEW column
  PROVE  \E f : /\ f = [s \in SUBSET S |->
                          IF s = {} THEN 0 ELSE f[s \ {Elem(s)}] + Elem(s)[column]]
                /\ Total(column, S) = f[S]
<1> DEFINE Sum(f, s) == IF s = {} THEN 0 ELSE f[s \ {Elem(s)}] + Elem(s)[column]
           UpTo(n) == {s \in SUBSET S : Cardinality(s) <= n}
           Reached == {n \in Nat : \E f : f = [s \in UpTo(n) |-> Sum(f, s)]}
<1>1. \A s \in SUBSET S : IsFiniteSet(s) /\ Cardinality(s) \in Nat
  BY FS_Subset, FS_CardinalityType
<1>2. \A s \in SUBSET S : s # {} =>
        s \ {Elem(s)} \in SUBSET S /\ Cardinality(s \ {Elem(s)}) = Cardinality(s) - 1
  <2> TAKE s \in SUBSET S
  <2> HAVE s # {}
  <2>1. Elem(s) \in s
    BY DEF Elem
  <2> QED BY <2>1, <1>1, FS_RemoveElement
<1>3. 0 \in Reached
  <2> DEFINE first == [s \in UpTo(0) |-> 0]
  <2>1. \A s \in UpTo(0) : s = {}
    BY <1>1, FS_EmptySet
  <2>2. first = [s \in UpTo(0) |-> Sum(first, s)]
    BY <2>1
  <2> QED BY <2>2
<1>4. \A n \in Reached : n + 1 \in Reached
  <2> TAKE n \in Reached
  <2>1. PICK f : f = [s \in UpTo(n) |-> Sum(f, s)]
    OBVIOUS
  <2> DEFINE g == [s \in UpTo(n + 1) |-> Sum(f, s)]
  <2>2. \A s \in UpTo(n) : s \in UpTo(n + 1) /\ g[s] = f[s]
    <3> TAKE s \in UpTo(n)
    <3>1. s \in UpTo(n + 1)
      BY <1>1
    <3>2. f[s] = Sum(f, s)
      <4> HIDE DEF Sum
      <4> QED BY <2>1
    <3> HIDE DEF Sum, UpTo
    <3> QED BY <3>1, <3>2
  <2>3. \A s \in UpTo(n + 1) : s # {} => s \ {Elem(s)} \in UpTo(n)
    BY <1>1, <1>2
  <2>4. \A s \in UpTo(n + 1) : Sum(g, s) = Sum(f, s)
    <3> TAKE s \in UpTo(n + 1)
    <3>1. s # {} => g[s \ {Elem(s)}] = f[s \ {Elem(s)}]
      <4> HIDE DEF UpTo, g
      <4> QED BY <2>2, <2>3
    <3> HIDE DEF g, UpTo
    <3> QED BY <3>1
  <2>5. g = [s \in UpTo(n + 1) |-> Sum(g, s)]
    <3> DEFINE h == [s \in UpTo(n + 1) |-> Sum(g, s)]
    <3> HIDE DEF Sum, UpTo
    <3>1. g = [s \in UpTo(n + 1) |-> Sum(f, s)] /\ \A s \in UpTo(n + 1) : Sum(g, s) = Sum(f, s)
      BY <2>4
    <3> HIDE DEF g
    <3> QED BY <3>1
  <2>6. n + 1 \in Nat
    OBVIOUS
  <2> HIDE DEF g, Sum, UpTo
  <2> QED BY <2>5, <2>6
<1>5. Reached = Nat
  <2>1. Reached \in SUBSET Nat
    OBVIOUS
  <2> HIDE DEF Reached
  <2> QED BY <1>3, <1>4, <2>1, NaturalInduction
<1>6. \E f : f = [s \in SUBSET S |-> Sum(f, s)]
  <2>1. Cardinality(S) \in Reached
    BY <1>1, <1>5
  <2>2. UpTo(Cardinality(S)) = SUBSET S
    <3>1. \A s \in SUBSET S : Cardinality(s) <= Cardinality(S)
      BY FS_Subset
    <3> QED BY <3>1
  <2>3. \E f : f = [s \in UpTo(Cardinality(S)) |-> Sum(f, s)]
    BY <2>1
  <2> HIDE DEF UpTo, Sum
  <2> QED BY <2>2, <2>3
<1> DEFINE chosen == CHOOSE f : f = [s \in SUBSET S |-> Sum(f, s)]
<1>7. chosen = [s \in SUBSET S |-> Sum(chosen, s)]
  <2> HIDE DEF Sum
  <2> QED BY <1>6
<1>8. Total(column, S) = chosen[S]
  BY DEF Total, FoldSet, MapThenFoldSet, Elem
<1> HIDE DEF chosen
<1> QED BY <1>7, <1>8

(* What is rounded is half a unit off at most.                             *)
LEMMA RoundingClose ==
  ASSUME NEW minor \in Int, NEW rate \in Int
  PROVE  /\ ApplyRateToMinor(minor, rate) \in Int
         /\ 200 * ApplyRateToMinor(minor, rate) - 2 * (rate * minor) \in -100..100
<1> DEFINE n == minor * rate
           q == (2 * Abs(n) + 100) \div 200
<1>1. n \in Int /\ n = rate * minor
  OBVIOUS
<1>2. ApplyRateToMinor(minor, rate) = Sign(n) * q
  BY DEF ApplyRateToMinor, RoundHalfAwayFromZero, RateScale
<1> HIDE DEF n
<1>3. Abs(n) \in Nat /\ n = Sign(n) * Abs(n) /\ Sign(n) \in {-1, 1}
  BY <1>1 DEF Abs, Sign
<1>4. q \in Int /\ 200 * q <= 2 * Abs(n) + 100 /\ 2 * Abs(n) + 100 < 200 * q + 200
  BY <1>3
<1> HIDE DEF q
<1>5. \/ n = Abs(n) /\ Sign(n) * q = q
      \/ n = -Abs(n) /\ Sign(n) * q = -q
  BY <1>1, <1>4 DEF Abs, Sign
<1>6. \E a \in Int : a = Sign(n) * q /\ 200 * a - 2 * n \in -100..100
  <2>1. 200 * q - 2 * Abs(n) \in -100..100 /\ 200 * (-q) - 2 * (-Abs(n)) \in -100..100
    BY <1>3, <1>4
  <2> QED BY <1>4, <1>5, <2>1
<1> QED BY <1>1, <1>2, <1>6

(* Rows of one rate add up to what it makes of their sum, but for half a   *)
(* unit each.                                                              *)
LEMMA TotalsClose ==
  ASSUME NEW S, IsFiniteSet(S), NEW rate \in Int,
         \A l \in S : /\ l.source \in Int /\ l.rate = rate
                      /\ l.charge = ApplyRateToMinor(l.source, rate)
  PROVE  /\ Total("source", S) \in Int /\ Total("charge", S) \in Int
         /\ 200 * Total("charge", S) - 2 * (rate * Total("source", S))
              \in -(100 * Cardinality(S))..(100 * Cardinality(S))
         /\ \A l : S = {l} => Total("source", S) = l.source /\ Total("charge", S) = l.charge
<1>1. PICK f : /\ f = [s \in SUBSET S |-> IF s = {} THEN 0
                                        ELSE f[s \ {Elem(s)}] + Elem(s)["source"]]
               /\ Total("source", S) = f[S]
  BY TotalUnfolds
<1>2. PICK g : /\ g = [s \in SUBSET S |-> IF s = {} THEN 0
                                        ELSE g[s \ {Elem(s)}] + Elem(s)["charge"]]
               /\ Total("charge", S) = g[S]
  BY TotalUnfolds
<1>3. f[{}] = 0 /\ g[{}] = 0
  BY <1>1, <1>2
<1>4. \A s \in SUBSET S : s # {} =>
        /\ f[s] = f[s \ {Elem(s)}] + Elem(s).source
        /\ g[s] = g[s \ {Elem(s)}] + Elem(s).charge
  <2>1. \A s \in SUBSET S : s # {} => f[s] = f[s \ {Elem(s)}] + Elem(s).source
    BY <1>1
  <2>2. \A s \in SUBSET S : s # {} => g[s] = g[s \ {Elem(s)}] + Elem(s).charge
    BY <1>2
  <2> QED BY <2>1, <2>2
<1>5. \A s \in SUBSET S : IsFiniteSet(s) /\ Cardinality(s) \in Nat
  BY FS_Subset, FS_CardinalityType
<1>6. \A s \in SUBSET S : s # {} =>
        /\ Elem(s) \in s /\ s \ {Elem(s)} \in SUBSET S
        /\ Cardinality(s \ {Elem(s)}) = Cardinality(s) - 1
  <2> TAKE s \in SUBSET S
  <2> HAVE s # {}
  <2>1. Elem(s) \in s
    BY DEF Elem
  <2> QED BY <2>1, <1>5, FS_RemoveElement
<1>7. \A l \in S : l.charge \in Int /\ 200 * l.charge - 2 * (rate * l.source) \in -100..100
  <2> TAKE l \in S
  <2>1. l.source \in Int /\ l.charge = ApplyRateToMinor(l.source, rate)
    OBVIOUS
  <2> QED BY <2>1, RoundingClose
<1> DEFINE Close(s) == /\ f[s] \in Int /\ g[s] \in Int
                       /\ 200 * g[s] - 2 * (rate * f[s])
                            \in -(100 * Cardinality(s))..(100 * Cardinality(s))
           Reached == {n \in Nat : \A s \in SUBSET S : Cardinality(s) = n => Close(s)}
<1>8. 0 \in Reached
  <2>1. \A s \in SUBSET S : Cardinality(s) = 0 => s = {}
    BY <1>5, FS_EmptySet
  <2>2. Cardinality({}) = 0
    BY FS_EmptySet
  <2>3. Close({})
    BY <1>3, <2>2
  <2> HIDE DEF Close
  <2> QED BY <2>1, <2>3
<1>9. \A n \in Reached : n + 1 \in Reached
  <2> SUFFICES ASSUME NEW n \in Reached, NEW s \in SUBSET S, Cardinality(s) = n + 1
               PROVE  Close(s)
    OBVIOUS
  <2> DEFINE t == s \ {Elem(s)}
             x == Elem(s)
  <2>1. n \in Nat /\ s # {}
    <3>1. n \in Nat /\ Cardinality(s) # 0
      OBVIOUS
    <3> HIDE DEF Reached
    <3> QED BY <3>1, FS_EmptySet
  <2>2. t \in SUBSET S /\ Cardinality(t) = n /\ x \in S
    <3>1. n + 1 - 1 = n
      BY <2>1
    <3> HIDE DEF Reached
    <3> QED BY <1>6, <2>1, <3>1
  <2>3. f[t] \in Int /\ g[t] \in Int /\ 200 * g[t] - 2 * (rate * f[t]) \in -(100 * n)..(100 * n)
    BY <2>2
  <2>4. f[s] = f[t] + x.source /\ g[s] = g[t] + x.charge
    BY <1>4, <2>1
  <2>5. x.source \in Int /\ x.charge \in Int /\ 200 * x.charge - 2 * (rate * x.source) \in -100..100
    BY <1>7, <2>2
  <2> HIDE DEF t, x
  <2>6. rate * f[s] = rate * f[t] + rate * x.source
    BY <2>3, <2>4, <2>5
  <2>7. rate * f[t] \in Int /\ rate * x.source \in Int
    BY <2>3, <2>5
  <2> HIDE DEF Reached
  <2> QED BY <2>1, <2>3, <2>4, <2>5, <2>6, <2>7
<1>10. Reached = Nat
  <2>1. Reached \in SUBSET Nat
    OBVIOUS
  <2> HIDE DEF Reached
  <2> QED BY <1>8, <1>9, <2>1, NaturalInduction
<1>11. Close(S)
  <2>1. Cardinality(S) \in Reached
    BY <1>5, <1>10
  <2> QED BY <2>1
<1>12. \A l : S = {l} => Total("source", S) = l.source /\ Total("charge", S) = l.charge
  <2> SUFFICES ASSUME NEW l, S = {l}
               PROVE  Total("source", S) = l.source /\ Total("charge", S) = l.charge
    OBVIOUS
  <2>1. Elem(S) = l /\ S \ {Elem(S)} = {} /\ S # {} /\ l \in S
    BY <1>6
  <2>2. f[S] = 0 + l.source /\ g[S] = 0 + l.charge
    BY <1>3, <1>4, <2>1
  <2> QED BY <1>1, <1>2, <1>7, <2>1, <2>2
<1> QED BY <1>1, <1>2, <1>11, <1>12

-----------------------------------------------------------------------------
(* Only the rate syncs and the bookings' confirms and refunds move here.   *)
LEMMA OutsideExchange ==
  ASSUME CatalogueInductive, [Next]_vars, ~Exchange
  PROVE  locks' = locks /\ decision' = decision /\ db'["snapshots"] = db["snapshots"]
<1>1. TablesSeen /\ JobsKnown
  BY DEF CatalogueInductive
<1>2. ASSUME NEW tables, tables \subseteq Tables \ {"snapshots"}, Writes(tables)
      PROVE  db'["snapshots"] = db["snapshots"]
  <2>1. ASSUME NEW table \in tables, NEW gone, NEW come, Commit(table, gone, come)
        PROVE  db'["snapshots"] = db["snapshots"]
    BY <1>1, <1>2, <2>1, CommitSeen, TableNames
  <2> QED BY <1>2, <2>1 DEF Writes
<1>3. CASE UNCHANGED vars
  BY <1>3 DEF vars, catalogueVars, othersVars
<1>4. CASE Sell
  BY <1>4, SellWrites DEF Sell, othersVars, Start, Watch, Writes
<1>5. CASE Stock
  BY <1>2, <1>5, StockWrites DEF Stock, othersVars, Edited
<1>6. CASE SyncContent
  BY <1>2, <1>6, SyncWrites, TableNames DEF SyncContent, othersVars
<1>7. CASE Administer
  <2>1. \A v \in Admins : job[v].step \in {"insert", "update"} =>
          job[v].change.table \in {"rules", "promotions"}
    BY <1>1, MarketColumns DEF JobsKnown, JobKnown, MarketTables
  <2> QED BY <1>2, <1>7, <2>1, AdministerWrites, TableNames DEF Administer, fxVars
<1>8. CASE Audit
  BY <1>8, AuditWrites DEF Audit, fxVars, Writes
<1> QED BY <1>3, <1>4, <1>5, <1>6, <1>7, <1>8 DEF Next

(* Snapshots are never taken back, so a lock goes on citing what it cites. *)
LEMMA CitesStill ==
  ASSUME NEW b, NEW row, NEW v, NEW w, v \subseteq w, CitesSnapshot(b, row, v)
  PROVE  CitesSnapshot(b, row, w)
BY Zenon DEF CitesSnapshot

LEMMA LocksGoOn ==
  ASSUME LocksKnown, locks' = locks, decision' = decision, db.snapshots \subseteq db'.snapshots
  PROVE  LocksKnown'
<1>1. \A b \in Bookings : Decided(b, decision[b], db'.snapshots)
  <2> TAKE b \in Bookings
  <2>1. Decided(b, decision[b], db.snapshots)
    BY DEF LocksKnown
  <2> QED BY <2>1, CitesStill DEF Decided
<1>2. \A l \in locks : LockRow(l, db'.snapshots)
  <2> TAKE l \in locks
  <2>1. LockRow(l, db.snapshots)
    BY DEF LocksKnown
  <2> QED BY <2>1, CitesStill DEF LockRow
<1> QED BY <1>1, <1>2 DEF LocksKnown

LEMMA SnapshotsMove ==
  ASSUME CatalogueInductive, UpsertBatch
  PROVE  db.snapshots \subseteq db'.snapshots
<1>1. TablesSeen
  BY DEF CatalogueInductive
<1>2. ASSUME NEW new, Commit("snapshots", {}, new)
      PROVE  db["snapshots"] \subseteq db'["snapshots"]
  BY <1>1, <1>2, CommitSeen, TableNames
<1>3. TablesStay \/ \E new : Commit("snapshots", {}, new)
  BY Zenon DEF UpsertBatch
<1> QED BY <1>2, <1>3 DEF TablesStay

(* The reference rate is that of one OXR snapshot, or its inverse.         *)
LEMMA SnapshotCited ==
  ASSUME NEW source, NEW charge, NEW snaps, NEW asOf,
         \A s \in snaps : s.rate \in Int /\ s.rate > 0
  PROVE  LET lock == SnapshotDecision(source, charge, snaps, asOf) IN
         /\ DOMAIN lock = DOMAIN NoLock("NONE") /\ lock.rate \in Int
         /\ lock.kind # "STRIPE_FX_QUOTE"
         /\ lock.kind = "SNAPSHOT_REFERENCE" =>
              \E s \in snaps : /\ lock.legs = {s} /\ s.provider = "OXR"
                              /\ lock.rate = IF s.base = source THEN s.rate ELSE InverseRate(s.rate)
<1> DEFINE conv == {c \in Convert(source, charge, snaps, {}, asOf) : c.method # "CROSS_RATE"}
           chosen == CHOOSE x \in conv : TRUE
           lock == SnapshotDecision(source, charge, snaps, asOf)
           Of(c, s) == /\ s \in snaps /\ c.legs = {s} /\ s.provider = "OXR"
                       /\ c.rate = IF s.base = source THEN s.rate ELSE InverseRate(s.rate)
<1>1. \A s \in snaps : InverseRate(s.rate) \in Int
  BY DEF InverseRate, RoundHalfUp, RateScale
<1>2. \A p, base, quote : \A s \in FindFreshest(snaps, p, base, quote, asOf) :
        s \in snaps /\ s.provider = p /\ s.base = base /\ s.quote = quote
  BY DEF FindFreshest
<1>3. \A p, base, quote : FindFreshest({}, p, base, quote, asOf) = {}
  BY DEF FindFreshest
<1>4. \A p : ApplyFx(source, charge, {}, asOf, p) = {}
  BY <1>3 DEF ApplyFx
<1>5. Convert(source, charge, snaps, {}, asOf) =
        IF source = charge THEN {} ELSE ApplyFx(source, charge, snaps, asOf, "OXR")
  BY <1>4 DEF Convert
<1>6. source # charge => \A c \in ApplyFx(source, charge, snaps, asOf, "OXR") :
        c.method # "CROSS_RATE" => \E s \in snaps : Of(c, s)
  BY <1>2 DEF ApplyFx, Conversion
<1>7. \A c \in conv : \E s \in snaps : Of(c, s)
  BY <1>5, <1>6
<1>8. CASE conv = {}
  <2>1. lock = NoLock("NO_LOCK_AVAILABLE")
    BY <1>8 DEF SnapshotDecision
  <2> QED BY <2>1 DEF NoLock
<1>9. CASE conv # {}
  <2>1. lock = [kind |-> "SNAPSHOT_REFERENCE", rate |-> chosen.rate, legs |-> chosen.legs, quote |-> None]
    BY <1>9 DEF SnapshotDecision
  <2>2. chosen \in conv
    BY <1>9
  <2> HIDE DEF conv, chosen, lock
  <2>3. PICK s \in snaps : Of(chosen, s)
    BY <1>7, <2>2
  <2> QED BY <1>1, <2>1, <2>3 DEF NoLock, lock
<1> QED BY <1>8, <1>9

LEMMA DecisionMoves ==
  ASSUME LocksKnown, NEW b \in Bookings, db' = db, locks' = locks,
         decision[b].step # "done", DOMAIN decision' = Bookings,
         \A c \in Bookings \ {b} : decision'[c] = decision[c],
         Decided(b, decision'[b], db.snapshots)
  PROVE  LocksKnown'
<1>1. \A c \in Bookings : Decided(c, decision'[c], db'.snapshots)
  BY DEF LocksKnown
<1>2. \A l \in locks : l.booking # b /\ l.booking \in Bookings
  BY DEF LocksKnown, LockRow
<1>3. \A l \in locks : LockRow(l, db'.snapshots) /\ decision'[l.booking].step = "done"
  BY <1>2 DEF LocksKnown
<1> QED BY <1>1, <1>3 DEF LocksKnown

LEMMA ResolveKeeps ==
  ASSUME LocksKnown, BookingsAssumption, NEW b \in Bookings,
         \A s \in db.snapshots : SnapshotOk(s),
         Resolve(b) \/ FetchQuote(b) \/ LoadOxrOnly(b)
  PROVE  LocksKnown'
<1>1. Decided(b, decision[b], db.snapshots) /\ b \in DOMAIN decision
  BY DEF LocksKnown
<1>2. /\ db' = db /\ locks' = locks /\ decision[b].step # "done"
      /\ DOMAIN decision' = Bookings
      /\ \A c \in Bookings \ {b} : decision'[c] = decision[c]
  BY DEF Resolve, FetchQuote, LoadOxrOnly, Decide, TablesStay, LocksKnown
<1>3. ASSUME NEW lock, Decide(b, lock), DOMAIN lock = DOMAIN NoLock("NONE"), lock.rate \in Int,
             CitesSnapshot(b, LegsKeyed(lock), db.snapshots), CitesQuote(lock)
      PROVE  Decided(b, decision'[b], db.snapshots)
  BY <1>1, <1>3 DEF Decide, Decided, NoDecision
<1>4. ASSUME NEW reason, reason \notin {"SNAPSHOT_REFERENCE", "STRIPE_FX_QUOTE"}
      PROVE  /\ DOMAIN NoLock(reason) = DOMAIN NoLock("NONE") /\ NoLock(reason).rate \in Int
             /\ CitesSnapshot(b, LegsKeyed(NoLock(reason)), db.snapshots)
             /\ CitesQuote(NoLock(reason))
  <2>1. NoLock(reason).kind = reason
    BY DEF NoLock
  <2>2. LegsKeyed(NoLock(reason)).kind = reason
    BY DEF NoLock, LegsKeyed
  <2>3. DOMAIN NoLock(reason) = DOMAIN NoLock("NONE") /\ NoLock(reason).rate \in Int
    BY DEF NoLock
  <2> QED BY <1>4, <2>1, <2>2, <2>3 DEF CitesSnapshot, CitesQuote
<1>5. ASSUME Resolve(b)
      PROVE  Decided(b, decision'[b], db.snapshots)
  <2>1. CASE b.source = b.charge
    BY <1>3, <1>4, <1>5, <2>1 DEF Resolve
  <2>2. CASE b.source # b.charge
    BY <1>1, <1>5, <2>2 DEF Resolve, Decided, NoDecision
  <2> QED BY <2>1, <2>2
<1>6. ASSUME FetchQuote(b)
      PROVE  Decided(b, decision'[b], db.snapshots)
  <2>1. ASSUME NEW quote \in Quotes, quote.rate > 0, Decide(b, StripeDecision(quote))
        PROVE  Decided(b, decision'[b], db.snapshots)
    <3> DEFINE lock == StripeDecision(quote)
    <3>1. quote.rate \in Int
      BY BookingsAssumption
    <3>2. InverseRate(quote.rate) \in Int
      BY <2>1, <3>1 DEF InverseRate, RoundHalfUp, RateScale
    <3>3. /\ DOMAIN lock = DOMAIN NoLock("NONE") /\ lock.rate \in Int
          /\ LegsKeyed(lock).kind # "SNAPSHOT_REFERENCE"
      BY <3>2 DEF StripeDecision, NoLock, LegsKeyed
    <3>4. CitesQuote(lock)
      BY <2>1 DEF StripeDecision, CitesQuote
    <3> QED BY <1>3, <2>1, <3>3, <3>4 DEF CitesSnapshot
  <2>2. CASE decision' = [decision EXCEPT ![b].step = "oxr"]
    BY <1>1, <1>6, <2>2 DEF FetchQuote, Decided, NoDecision
  <2> QED BY <1>6, <2>1, <2>2 DEF FetchQuote
<1>7. ASSUME LoadOxrOnly(b)
      PROVE  Decided(b, decision'[b], db.snapshots)
  <2> DEFINE snaps == {s \in db.snapshots : s.provider = "OXR"}
             lock == SnapshotDecision(b.source, b.charge, snaps, decision[b].asOf)
  <2>1. \A s \in snaps : s.rate \in Int /\ s.rate > 0 /\ s \in db.snapshots
    BY DEF SnapshotOk
  <2>2. Decide(b, lock)
    BY <1>7 DEF LoadOxrOnly
  <2> HIDE DEF snaps
  <2>3. /\ DOMAIN lock = DOMAIN NoLock("NONE") /\ lock.rate \in Int
        /\ lock.kind # "STRIPE_FX_QUOTE"
        /\ lock.kind = "SNAPSHOT_REFERENCE" =>
             \E s \in snaps : /\ lock.legs = {s} /\ s.provider = "OXR"
                             /\ lock.rate = IF s.base = b.source THEN s.rate ELSE InverseRate(s.rate)
    BY <2>1, SnapshotCited
  <2> HIDE DEF lock
  <2>4. LegsKeyed(lock).kind = lock.kind /\ LegsKeyed(lock).rate = lock.rate
        /\ LegsKeyed(lock).legs = {SnapshotKey(l) : l \in lock.legs}
    BY <2>3 DEF LegsKeyed, NoLock
  <2>5. CitesSnapshot(b, LegsKeyed(lock), db.snapshots)
    <3> SUFFICES ASSUME lock.kind = "SNAPSHOT_REFERENCE"
                 PROVE  \E s \in db.snapshots :
                          /\ {SnapshotKey(l) : l \in lock.legs} = {SnapshotKey(s)} /\ s.provider = "OXR"
                          /\ lock.rate = IF s.base = b.source THEN s.rate ELSE InverseRate(s.rate)
      BY <2>4 DEF CitesSnapshot
    <3>1. PICK s \in snaps : /\ lock.legs = {s} /\ s.provider = "OXR"
                             /\ lock.rate = IF s.base = b.source THEN s.rate ELSE InverseRate(s.rate)
      BY <2>3
    <3>2. {SnapshotKey(l) : l \in lock.legs} = {SnapshotKey(s)}
      BY <3>1
    <3> QED BY <2>1, <3>1, <3>2
  <2>6. CitesQuote(lock)
    BY <2>3 DEF CitesQuote
  <2> QED BY <1>3, <2>2, <2>3, <2>5, <2>6
<1>8. Decided(b, decision'[b], db.snapshots)
  BY <1>5, <1>6, <1>7
<1> QED BY <1>2, <1>8, DecisionMoves

LEMMA InsertLockKeeps ==
  ASSUME LocksKnown, BookingsAssumption, NEW b \in Bookings, InsertLock(b)
  PROVE  LocksKnown'
<1> DEFINE lock == decision[b].lock
           row == LockOf(b, lock, "CONFIRMATION", 0, b.minor)
<1>1. Decided(b, decision[b], db.snapshots) /\ b \in DOMAIN decision /\ decision[b].step = "insert"
  BY DEF LocksKnown, InsertLock
<1>2. /\ db' = db /\ DOMAIN decision' = Bookings
      /\ \A c \in Bookings \ {b} : decision'[c] = decision[c]
      /\ decision'[b] = [decision[b] EXCEPT !.step = "done"]
  BY DEF InsertLock, TablesStay, LocksKnown
<1>3. Decided(b, decision'[b], db.snapshots) /\ decision'[b].step = "done"
  BY <1>1, <1>2 DEF Decided, NoDecision
<1>4. locks' = locks \/ locks' = locks \cup {row}
  BY DEF InsertLock
<1>5. \A l \in locks : l.booking # b /\ l.booking \in Bookings
  BY <1>1 DEF LocksKnown, LockRow
<1>6. LockRow(row, db.snapshots) /\ row.booking = b
  <2>1. /\ lock.rate \in Int /\ CitesSnapshot(b, LegsKeyed(lock), db.snapshots)
        /\ CitesQuote(lock) /\ DOMAIN lock = DOMAIN NoLock("NONE") /\ b.minor \in Int
    BY <1>1, BookingsAssumption DEF Decided
  <2> HIDE DEF lock
  <2>2. /\ LegsKeyed(lock).kind = row.kind /\ LegsKeyed(lock).rate = row.rate
        /\ LegsKeyed(lock).legs = row.legs
        /\ row.kind = lock.kind /\ row.rate = lock.rate /\ row.quote = lock.quote
    BY <2>1 DEF LegsKeyed, NoLock, LockOf
  <2>3. CitesSnapshot(b, row, db.snapshots) /\ CitesQuote(row)
    BY <2>1, <2>2 DEF CitesSnapshot, CitesQuote
  <2> QED BY <2>1, <2>3 DEF LockRow, LockOf
<1> HIDE DEF row
<1>7. IsFiniteSet(locks')
  BY <1>4, FS_AddElement DEF LocksKnown
<1>8. \A c \in Bookings : Decided(c, decision'[c], db'.snapshots)
  BY <1>2, <1>3 DEF LocksKnown
<1>9. \A l \in locks' : LockRow(l, db'.snapshots) /\ decision'[l.booking].step = "done"
  <2>1. \A l \in locks : LockRow(l, db.snapshots) /\ decision[l.booking].step = "done"
    BY DEF LocksKnown
  <2>2. \A l \in locks : decision'[l.booking] = decision[l.booking]
    BY <1>2, <1>5
  <2> TAKE l \in locks'
  <2>3. CASE l \in locks
    BY <1>2, <2>1, <2>2, <2>3
  <2>4. CASE l = row
    BY <1>2, <1>3, <1>6, <2>4
  <2> QED BY <1>4, <2>3, <2>4
<1>10. \A l, m \in locks' :
         l.booking = m.booking /\ l.applied = "CONFIRMATION" =>
           l.rate = m.rate /\ (m.applied = "CONFIRMATION" => l = m)
  BY <1>4, <1>5, <1>6 DEF LocksKnown
<1> QED BY <1>2, <1>7, <1>8, <1>9, <1>10 DEF LocksKnown

(* The refunds of a lock have its rate, and their amounts from it.         *)
LEMMA RefundsAddUp ==
  ASSUME LocksKnown, NEW c \in locks, c.applied = "CONFIRMATION"
  PROVE  LET S == Refunds(c.booking) IN
         /\ c.rate \in Int /\ c.source \in Int /\ c.charge = ApplyRateToMinor(c.source, c.rate)
         /\ IsFiniteSet(S)
         /\ \A l \in S : l.rate = c.rate /\ l.charge = ApplyRateToMinor(l.source, c.rate)
         /\ Total("source", S) \in Int /\ Total("charge", S) \in Int
         /\ 200 * Total("charge", S) - 2 * (c.rate * Total("source", S))
              \in -(100 * Cardinality(S))..(100 * Cardinality(S))
         /\ \A l : S = {l} => Total("source", S) = l.source /\ Total("charge", S) = l.charge
<1> DEFINE S == Refunds(c.booking)
<1>1. c.rate \in Int /\ c.source \in Int /\ c.charge = ApplyRateToMinor(c.source, c.rate)
  BY DEF LocksKnown, LockRow
<1>2. S \subseteq locks /\ IsFiniteSet(S)
  BY FS_Subset DEF LocksKnown, Refunds
<1>3. \A l \in S : /\ l.source \in Int /\ l.rate = c.rate
                   /\ l.charge = ApplyRateToMinor(l.source, c.rate)
  BY DEF LocksKnown, LockRow, Refunds
<1> HIDE DEF S
<1>4. /\ Total("source", S) \in Int /\ Total("charge", S) \in Int
      /\ 200 * Total("charge", S) - 2 * (c.rate * Total("source", S))
           \in -(100 * Cardinality(S))..(100 * Cardinality(S))
      /\ \A l : S = {l} => Total("source", S) = l.source /\ Total("charge", S) = l.charge
  BY <1>1, <1>2, <1>3, TotalsClose
<1> QED BY <1>1, <1>2, <1>3, <1>4 DEF S

(* A refund is a copy of the CONFIRMATION, but for its kind, its id and    *)
(* its amounts.                                                            *)
LEMMA ApplyRefundKeeps ==
  ASSUME LocksKnown, BookingsAssumption, NEW b \in Bookings, ApplyRefund(b)
  PROVE  LocksKnown'
<1>1. PICK c \in locks, kind \in {"REFUND", "CANCELLATION_FEE"} :
        /\ c.booking = b /\ c.applied = "CONFIRMATION"
        /\ \E minor \in RefundAmounts :
             locks' = locks \cup
               {DeriveRefund(c, kind, minor, Cardinality({l \in locks : l.booking = b}))}
        /\ decision' = decision /\ db' = db
  BY DEF ApplyRefund, TablesStay
<1>2. PICK minor, id : /\ minor \in Int
                       /\ locks' = locks \cup {DeriveRefund(c, kind, minor, id)}
  <2>1. RefundAmounts \subseteq Int
    BY BookingsAssumption
  <2> QED BY <1>1, <2>1
<1> DEFINE row == DeriveRefund(c, kind, minor, id)
<1>3. LockRow(c, db.snapshots) /\ decision[c.booking].step = "done"
  BY DEF LocksKnown
<1>4. /\ DOMAIN row = DOMAIN c /\ row.booking = c.booking /\ row.rate = c.rate
      /\ row.source = minor /\ row.charge = ApplyRateToMinor(minor, c.rate)
      /\ row.applied # "CONFIRMATION"
  BY <1>3 DEF DeriveRefund, LockRow
<1> HIDE DEF row
<1>5. LockRow(row, db.snapshots)
  BY <1>2, <1>3, <1>4 DEF LockRow
<1>6. locks' = locks \cup {row}
  BY <1>2 DEF row
<1>7. IsFiniteSet(locks')
  BY <1>6, FS_AddElement DEF LocksKnown
<1>8. \A l, m \in locks' :
        l.booking = m.booking /\ l.applied = "CONFIRMATION" =>
          l.rate = m.rate /\ (m.applied = "CONFIRMATION" => l = m)
  BY <1>1, <1>4, <1>6 DEF LocksKnown
<1> QED BY <1>1, <1>3, <1>4, <1>5, <1>6, <1>7, <1>8 DEF LocksKnown

(* What locks rest on holds in every reachable state.                      *)
THEOREM LocksInvariant == Spec => []LocksInductive
<1>1. Init => LocksInductive
  <2> SUFFICES ASSUME Init PROVE LocksKnown
    BY CatalogueStarts DEF LocksInductive
  <2>1. locks = {} /\ decision = [b \in Bookings |-> NoDecision]
    BY DEF Init, FxInit
  <2>2. \A b \in Bookings : Decided(b, NoDecision, db.snapshots)
    BY DEF Decided, NoDecision
  <2> QED BY <2>1, <2>2, FS_EmptySet DEF LocksKnown
<1>2. LocksInductive /\ [Next]_vars => LocksInductive'
  <2> SUFFICES ASSUME LocksInductive, [Next]_vars PROVE LocksKnown'
    BY CatalogueStep DEF LocksInductive
  <2>1. LocksKnown /\ CatalogueInductive /\ \A s \in db.snapshots : SnapshotOk(s)
    BY DEF LocksInductive, CatalogueInductive, TablesOk
  <2>2. CASE ~Exchange
    BY <2>1, <2>2, OutsideExchange, LocksGoOn
  <2>3. CASE FetchLatest \/ FetchEcb
    BY <2>1, <2>3, LocksGoOn DEF FetchLatest, FetchEcb, TablesStay
  <2>4. CASE UpsertBatch
    <3>1. locks' = locks /\ decision' = decision
      BY <2>4 DEF UpsertBatch
    <3> QED BY <2>1, <2>4, <3>1, SnapshotsMove, LocksGoOn
  <2>5. ASSUME NEW b \in Bookings, Resolve(b) \/ FetchQuote(b) \/ LoadOxrOnly(b)
        PROVE  LocksKnown'
    BY <2>1, <2>5, ResolveKeeps, BookingsAssumption
  <2>6. ASSUME NEW b \in Bookings, InsertLock(b) \/ ApplyRefund(b)
        PROVE  LocksKnown'
    BY <2>1, <2>6, InsertLockKeeps, ApplyRefundKeeps, BookingsAssumption
  <2> QED BY <2>2, <2>3, <2>4, <2>5, <2>6 DEF Exchange, FxStep
<1> QED BY <1>1, <1>2, PTL DEF Spec

(* A lock cites what it was decided on, and what refunds return adds up to *)
(* what was charged, but for half a minor unit a row.                      *)
THEOREM LocksUndone == Spec => []LocksReversible
<1>1. ASSUME LocksInductive, NEW c \in locks, c.applied = "CONFIRMATION"
      PROVE  LET refunds == Refunds(c.booking)
                 returned == Total("charge", refunds) IN
             /\ c.kind = "SNAPSHOT_REFERENCE" =>
                  \E s \in db.snapshots :
                    /\ c.legs = {SnapshotKey(s)} /\ s.provider = "OXR"
                    /\ c.rate = IF s.base = c.booking.source THEN s.rate ELSE InverseRate(s.rate)
             /\ c.kind = "STRIPE_FX_QUOTE" => \E quote \in Quotes :
                  c.quote = quote /\ quote.rate > 0 /\ c.rate = InverseRate(quote.rate)
             /\ Refunded(c.booking) = c.source =>
                  2 * Abs(returned - c.charge) <= Cardinality(refunds) + 1
             /\ Refunded(c.booking) = c.source /\ Cardinality(refunds) = 1 => returned = c.charge
  <2> DEFINE S == Refunds(c.booking)
  <2>1. LockRow(c, db.snapshots)
    BY <1>1 DEF LocksInductive, LocksKnown
  <2>2. /\ c.rate \in Int /\ c.source \in Int /\ c.charge = ApplyRateToMinor(c.source, c.rate)
        /\ IsFiniteSet(S)
        /\ \A l \in S : l.rate = c.rate /\ l.charge = ApplyRateToMinor(l.source, c.rate)
        /\ Total("source", S) \in Int /\ Total("charge", S) \in Int
        /\ 200 * Total("charge", S) - 2 * (c.rate * Total("source", S))
             \in -(100 * Cardinality(S))..(100 * Cardinality(S))
        /\ \A l : S = {l} => Total("source", S) = l.source /\ Total("charge", S) = l.charge
    BY <1>1, RefundsAddUp DEF LocksInductive
  <2> HIDE DEF S
  <2>3. c.charge \in Int /\ 200 * c.charge - 2 * (c.rate * c.source) \in -100..100
    <3>1. c.rate \in Int /\ c.source \in Int /\ c.charge = ApplyRateToMinor(c.source, c.rate)
      BY <2>2
    <3> QED BY <3>1, RoundingClose
  <2>4. Cardinality(S) \in Nat
    BY <2>2, FS_CardinalityType
  <2>5. ASSUME Total("source", S) = c.source
        PROVE  2 * Abs(Total("charge", S) - c.charge) <= Cardinality(S) + 1
    <3>1. c.rate * c.source \in Int
      BY <2>2
    <3> QED BY <2>2, <2>3, <2>4, <2>5, <3>1 DEF Abs
  <2>6. ASSUME Total("source", S) = c.source, Cardinality(S) = 1
        PROVE  Total("charge", S) = c.charge
    <3>1. PICK l : S = {l}
      BY <2>2, <2>6, FS_Singleton
    <3>2. l.source = c.source /\ Total("charge", S) = l.charge /\ l \in S
      BY <2>2, <2>6, <3>1
    <3> QED BY <2>2, <3>2
  <2> QED BY <2>1, <2>5, <2>6, <1>1 DEF LockRow, CitesSnapshot, CitesQuote, Refunded, S
<1>2. LocksInductive => LocksReversible
  BY <1>1 DEF LocksReversible
<1> QED BY <1>2, LocksInvariant, PTL
=============================================================================
