------------------------------ MODULE Sourcing ------------------------------
(***************************************************************************)
(* The Hotelbeds adapter: availability for one hotel of a search, each     *)
(* rate of it stored before the search may show it, and the content sync   *)
(* that fills hotel_supplier page by page.  The supplier itself is         *)
(* registered when the module starts (HotelbedsModule.onModuleInit).       *)
(*                                                                         *)
(* A rate is a record [key, room, plan, meal, net, currency, penalties]:   *)
(* its amount in thousandths, and the hours from which its cancellation    *)
(* penalties apply, or None if it came without any.                        *)
(***************************************************************************)
EXTENDS Catalogue, Sequences, Functions

CONSTANTS
  Hotelbeds,     \* the supplier's id
  Availability,  \* hotel code -> the responses there may be, sequences of rates
  Content,       \* what Hotelbeds lists, a sequence of hotel codes
  NewHotel,      \* hotel code -> the id newUlid draws for its row
  PageSize,      \* of a content sync
  MaxPages,      \* of a content sync
  Syncs,         \* the content syncs, which may run side by side
  MaxRetries     \* of one HTTP request

VARIABLES
  call,      \* where the adapter call of each search is
  raws,      \* the raw payloads in object storage
  sourced,   \* offer_sourced_snapshot with its cancellation policy
  observed,  \* the hotel_*_mapping rows: kind, hotel row, supplier's code
  sync       \* where each content sync is

sourcingVars == <<call, raws, sourced, observed, sync>>

ASSUME SourcingAssumption ==
  /\ PageSize \in Nat \ {0} /\ MaxPages \in Nat \ {0} /\ MaxRetries \in Nat
  /\ Content \in Seq(DOMAIN NewHotel)

(* newUlid draws an id no other hotel has, or will have.                   *)
ASSUME HotelsAssumption ==
  /\ \A c, d \in DOMAIN NewHotel : c # d => NewHotel[c] # NewHotel[d]
  /\ IdsDistinct(Initial.hotels)
  /\ None \notin {h.id : h \in Initial.hotels}
  /\ Range(NewHotel) \cap ({None} \cup {h.id : h \in Initial.hotels}) = {}

NoCall == [step |-> "idle", hotel |-> None, attempt |-> 0, left |-> <<>>, todo |-> {}, got |-> {}]

NoSync == [step |-> "idle", cursor |-> 1, page |-> {}, next |-> None, counted |-> FALSE, pages |-> 0]

(* One response gives one payload; its content is its name.                *)
RawOf(q, hotel) == [purpose |-> "AVAILABILITY", search |-> q, hotel |-> hotel]

(* The adapter keeps a table of minor units and a conversion of its own.   *)
AdapterMinorUnit(c) == IF c \in ZeroDecimal THEN 1000 ELSE 10

AdapterMinorUnits(amount, c) == Sign(amount) * (Abs(amount) \div AdapterMinorUnit(c))

(* What is stored of the penalties: refundable when all are still to come. *)
NormalizeCancellationPolicy(penalties) ==
  [refundable |-> penalties # <<>> /\ \A p \in Range(penalties) : p > clock,
   windows |-> {IF p > clock THEN p - clock ELSE 0 : p \in Range(penalties)}]

(* What the caller is told: free while the first one listed is to come.    *)
IsFreeCancellable(rate) ==
  rate.penalties \notin {None, <<>>} /\ Head(rate.penalties) > clock

(* TOTAL_ONLY: no components and no restrictions.                          *)
SnapshotOf(q, hotel, rate) ==
  [search |-> q, hotel |-> hotel, key |-> rate.key, raw |-> RawOf(q, hotel),
   total |-> AdapterMinorUnits(rate.net, rate.currency), currency |-> rate.currency,
   policy |-> IF rate.penalties = None THEN None ELSE NormalizeCancellationPolicy(rate.penalties)]

(* createProvisionalResolver: the money movement is never resolved, so the *)
(* booking guard refuses every sourced rate.                               *)
MoneyMovement(rate) == [status |-> "PROVISIONAL", fallback |-> "BB_COLLECTS"]

AssertRateBookable(provenance) == provenance # "PROVISIONAL"

AdapterRate(hotel, rate) ==
  [hotel |-> hotel, key |-> rate.key, room |-> rate.room, plan |-> rate.plan,
   net |-> rate.net, currency |-> rate.currency, free |-> IsFreeCancellable(rate),
   provenance |-> MoneyMovement(rate).status]
-----------------------------------------------------------------------------
(* INSERT ... SELECT from the hotel's row: a hotel without one gets no     *)
(* observation, and a meal plan needs none.                                *)
HotelRows(code) == {h.id : h \in {r \in db.hotels : r.supplier = Hotelbeds /\ r.code = code}}

UpsertRoomMapping(code, rate) ==
  {[kind |-> "room", hotel |-> id, code |-> rate.room] : id \in HotelRows(code)}

UpsertRatePlanMapping(code, rate) ==
  {[kind |-> "plan", hotel |-> id, code |-> rate.plan] : id \in HotelRows(code)}

UpsertMealPlanMapping(rate) == {[kind |-> "meal", hotel |-> None, code |-> rate.meal]}

UpsertOccupancyMapping(code) ==
  {[kind |-> "occupancy", hotel |-> id, code |-> None] : id \in HotelRows(code)}

(* There is no upsert for a meal that is not named.                        *)
Observations(rate) ==
  {"room", "plan", "occupancy"} \cup IF rate.meal = None THEN {} ELSE {"meal"}

Upserted(kind, code, rate) ==
  CASE kind = "room" -> UpsertRoomMapping(code, rate)
    [] kind = "plan" -> UpsertRatePlanMapping(code, rate)
    [] kind = "meal" -> UpsertMealPlanMapping(rate)
    [] kind = "occupancy" -> UpsertOccupancyMapping(code)
-----------------------------------------------------------------------------
CallStays(q) == UNCHANGED <<catalogueVars, sync>>

FetchRates(q, hotel) == call' = [call EXCEPT ![q] = [NoCall EXCEPT !.step = "http", !.hotel = hotel]]

(* What may become of one request beside an answer.                        *)
HttpErrors == {"THROTTLED", "SERVER_ERROR", "TIMEOUT", "NETWORK", "OTHER_STATUS", "NOT_JSON"}

IsRetryable(error) == error \in {"THROTTLED", "SERVER_ERROR", "TIMEOUT", "NETWORK"}

GivesUp(error, attempt) == attempt >= MaxRetries \/ ~IsRetryable(error)

(* Once more, after a while.                                               *)
Retry(q) ==
  /\ call[q].step = "http"
  /\ \E error \in HttpErrors : ~GivesUp(error, call[q].attempt)
  /\ call' = [call EXCEPT ![q].attempt = @ + 1]
  /\ UNCHANGED <<raws, sourced, observed>> /\ CallStays(q)

(* A response, parsed.                                                     *)
CheckAvailability(q) ==
  /\ call[q].step = "http"
  /\ \E rates \in Availability[call[q].hotel] :
       call' = [call EXCEPT ![q].step = "raw", ![q].left = rates]
  /\ UNCHANGED <<raws, sourced, observed>> /\ CallStays(q)

NextRate(c) == IF c.left = <<>> THEN [c EXCEPT !.step = "fetched"] ELSE [c EXCEPT !.step = "snapshot"]

PutRaw(q) ==
  /\ call[q].step = "raw"
  /\ raws' = raws \cup {RawOf(q, call[q].hotel)}
  /\ call' = [call EXCEPT ![q] = NextRate(@)]
  /\ UNCHANGED <<sourced, observed>> /\ CallStays(q)

(* Mutant of RecordSnapshot: the write is not awaited, and may fail.       *)
RecordSnapshotUnawaited(q) ==
  LET c == call[q] IN
  /\ c.step = "snapshot"
  /\ sourced' \in {sourced, sourced \cup {SnapshotOf(q, c.hotel, Head(c.left))}}
  /\ call' = [call EXCEPT ![q].step = "observe", ![q].todo = Observations(Head(c.left))]
  /\ UNCHANGED <<raws, observed>> /\ CallStays(q)

(* The snapshot and its cancellation policy commit together.               *)
RecordSnapshot(q) ==
  LET c == call[q] IN
  /\ c.step = "snapshot"
  /\ sourced' = sourced \cup {SnapshotOf(q, c.hotel, Head(c.left))}
  /\ call' = [call EXCEPT ![q].step = "observe", ![q].todo = Observations(Head(c.left))]
  /\ UNCHANGED <<raws, observed>> /\ CallStays(q)

(* The upserts of a rate run side by side.                                 *)
Observe(q) ==
  /\ call[q].step = "observe"
  /\ \E o \in call[q].todo :
       /\ observed' = observed \cup Upserted(o, call[q].hotel, Head(call[q].left))
       /\ call' = [call EXCEPT ![q].todo = @ \ {o}]
  /\ UNCHANGED <<raws, sourced>> /\ CallStays(q)

ProjectRate(q) ==
  LET c == call[q] IN
  /\ c.step = "observe" /\ c.todo = {}
  /\ call' = [call EXCEPT ![q] =
       NextRate([c EXCEPT !.left = Tail(@), !.got = @ \cup {AdapterRate(c.hotel, Head(c.left))}])]
  /\ UNCHANGED <<raws, sourced, observed>> /\ CallStays(q)

(* An answer that cannot be retried or parsed, or a write that fails: the  *)
(* upserts under way are not awaited and may still commit.                 *)
CallFails(q) ==
  /\ call[q].step \in {"http", "raw", "snapshot", "observe"}
  /\ call[q].step = "http" => \E error \in HttpErrors : GivesUp(error, call[q].attempt)
  /\ \E late \in SUBSET call[q].todo :
       observed' = observed \cup UNION {Upserted(o, call[q].hotel, Head(call[q].left)) : o \in late}
  /\ call' = [call EXCEPT ![q] = [NoCall EXCEPT !.step = "failed"]]
  /\ UNCHANGED <<raws, sourced>> /\ CallStays(q)

AdapterStep(q) ==
  \/ Retry(q) \/ CheckAvailability(q) \/ PutRaw(q) \/ RecordSnapshot(q)
  \/ Observe(q) \/ ProjectRate(q) \/ CallFails(q)
-----------------------------------------------------------------------------
SyncStays == UNCHANGED <<call, sourced, observed>>

(* Each request runs the sync from the first page on, whatever became of   *)
(* the one before it.                                                      *)
TriggerContentSync(y) ==
  /\ sync[y].step \in {"idle", "failed", "done"}
  /\ sync' = [sync EXCEPT ![y] = [NoSync EXCEPT !.step = "list"]]
  /\ UNCHANGED <<catalogueVars, raws>> /\ SyncStays

(* Mutant of NextCursor: off by one at the end of a page.                  *)
SkippingCursor(last) == IF last + 1 < Len(Content) THEN last + 2 ELSE None

(* normalizeContentResponse: Hotelbeds says how far the page goes, or does *)
(* not, and the cursor follows from that and the total.                    *)
NextCursor(last) == IF last < Len(Content) THEN last + 1 ELSE None

(* A page that does not say how many hotels there are has no page after it.*)
ListHotels(y) ==
  LET end == sync[y].cursor + PageSize - 1
      last == IF end < Len(Content) THEN end ELSE Len(Content) IN
  /\ sync[y].step = "list"
  /\ \E counted \in BOOLEAN :
       sync' = [sync EXCEPT ![y] =
         [@ EXCEPT !.step = "store", !.page = {Content[i] : i \in sync[y].cursor..last},
                   !.counted = counted, !.next = IF counted THEN NextCursor(last) ELSE None]]
  /\ UNCHANGED <<catalogueVars, raws>> /\ SyncStays

StorePage(y) ==
  /\ sync[y].step = "store"
  /\ raws' = raws \cup {[purpose |-> "HOTELS_PAGE", page |-> sync[y].page]}
  /\ sync' = [sync EXCEPT ![y].step = "upsert"]
  /\ UNCHANGED catalogueVars /\ SyncStays

(* What a row holds of a hotel.                                            *)
NormalizeHotel(code) == [id |-> NewHotel[code], supplier |-> Hotelbeds, code |-> code]

(* ON CONFLICT (supplier_id, supplier_hotel_code): a known hotel keeps its *)
(* row.  One transaction; then the next page, up to maxPages of them.      *)
NextPage(s) ==
  IF s.next # None /\ s.pages + 1 < MaxPages
  THEN [s EXCEPT !.step = "list", !.cursor = s.next, !.pages = @ + 1]
  ELSE [s EXCEPT !.step = "done", !.pages = @ + 1]

UpsertSupplierHotels(y) ==
  LET known == {h.code : h \in {r \in db.hotels : r.supplier = Hotelbeds}} IN
  /\ sync[y].step = "upsert"
  /\ Commit("hotels", {}, {NormalizeHotel(c) : c \in sync[y].page \ known})
  /\ sync' = [sync EXCEPT ![y] = NextPage(@)]
  /\ UNCHANGED <<clock, changes, raws>> /\ SyncStays

SyncFails(y) ==
  /\ sync[y].step \in {"list", "store", "upsert"}
  /\ sync' = [sync EXCEPT ![y].step = "failed"]
  /\ UNCHANGED <<catalogueVars, raws>> /\ SyncStays

ContentSync == \E y \in Syncs :
  \/ TriggerContentSync(y) \/ ListHotels(y) \/ StorePage(y)
  \/ UpsertSupplierHotels(y) \/ SyncFails(y)

SourcingInit ==
  /\ call = [q \in Searches |-> NoCall]
  /\ raws = {} /\ sourced = {} /\ observed = {}
  /\ sync = [y \in Syncs |-> NoSync]
=============================================================================
