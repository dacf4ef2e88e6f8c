-------------------------------- MODULE FxSync --------------------------------
(***************************************************************************)
(* Where exchange rates come from and what a booking keeps of them: the    *)
(* two syncs that fill fx_rate_snapshot, and booking_fx_lock with the      *)
(* CONFIRMATION a confirm writes and the refunds that copy it.  What       *)
(* becomes of the booking meanwhile is in BookingConfirm; nothing under    *)
(* src/ calls applyRefund yet.                                             *)
(***************************************************************************)
EXTENDS FxRates, Catalogue

CONSTANTS
  Feeds,     \* the responses there may be: [provider, base, at, rates]
  Bookings,  \* the bookings: what they cost, in what currency, charged in
  Quotes,    \* the answers of Stripe: [id, rate]
  RefundAmounts \* what is refunded at a time, in minor units of the source

VARIABLES
  fetched,   \* the feeds that have been fetched and not yet been stored
  decision,  \* what each confirm has found out
  locks      \* booking_fx_lock

ASSUME FeedsAssumption == \A feed \in Feeds :
  /\ DOMAIN feed = {"provider", "base", "at", "rates"}
  /\ feed.at \in Int /\ IsFiniteSet(DOMAIN feed.rates)
  /\ \A c \in DOMAIN feed.rates : feed.rates[c] \in Int

ASSUME BookingsAssumption ==
  /\ \A b \in Bookings : b.minor \in Int
  /\ \A quote \in Quotes : quote.rate \in Int
  /\ RefundAmounts \subseteq Nat

fxVars == <<fetched, decision, locks>>

FxStays == UNCHANGED <<clock, changes>>

TablesStay == UNCHANGED <<db, ever, always>>

(* One row for each quoted currency; the time is the provider's.           *)
MapToInputs(feed) ==
  {[provider |-> feed.provider, base |-> feed.base, quote |-> c, at |-> feed.at,
    rate |-> feed.rates[c]] : c \in DOMAIN feed.rates}

(* Syncs may run side by side.                                             *)
FetchLatest == \E feed \in {f \in Feeds : f.provider = "OXR" /\ f.at <= clock} :
  /\ fetched' = fetched \cup {feed}
  /\ UNCHANGED <<decision, locks>> /\ TablesStay /\ FxStays

(* ECB publishes for a day, and its rates count from midnight.             *)
ParseEcbXml(feed) == [feed EXCEPT !.at = @ - (@ % 24)]

FetchEcb == \E feed \in {f \in Feeds : f.provider = "ECB" /\ f.at <= clock} :
  /\ fetched' = fetched \cup {ParseEcbXml(feed)}
  /\ UNCHANGED <<decision, locks>> /\ TablesStay /\ FxStays

(* Mutant of UpsertBatch: ON CONFLICT DO UPDATE, a new row for the key.    *)
UpsertBatchAgain == \E feed \in fetched :
  LET inputs == MapToInputs(feed)
      old == {s \in db.snapshots : \E i \in inputs : SnapshotKey(i) = SnapshotKey(s)} IN
  /\ fetched' = fetched \ {feed}
  /\ Commit("snapshots", old, inputs)
  /\ UNCHANGED <<decision, locks>> /\ FxStays

(* One INSERT, ON CONFLICT DO NOTHING: the first rate of a time stays.  A  *)
(* rate that is zero in eight decimals fails it as a whole, also where     *)
(* there is a row for its time.                                            *)
UpsertBatch == \E feed \in fetched :
  LET new == {i \in MapToInputs(feed) : \A s \in db.snapshots : SnapshotKey(s) # SnapshotKey(i)} IN
  /\ fetched' = fetched \ {feed}
  /\ IF \A i \in MapToInputs(feed) : i.rate > 0 THEN Commit("snapshots", {}, new) ELSE TablesStay
  /\ UNCHANGED <<decision, locks>> /\ FxStays
-----------------------------------------------------------------------------
NoDecision == [step |-> "idle", asOf |-> 0, lock |-> NoLock("NONE")]

Decide(b, lock) == decision' = [decision EXCEPT ![b].step = "insert", ![b].lock = lock]

(* resolve: the same currency needs no lock, else Stripe is asked.         *)
Resolve(b) ==
  /\ decision[b].step = "idle"
  /\ IF b.source = b.charge THEN Decide(b, NoLock("NO_LOCK_NEEDED"))
     ELSE decision' = [decision EXCEPT ![b].step = "stripe", ![b].asOf = clock]
  /\ UNCHANGED <<fetched, locks>> /\ TablesStay /\ FxStays

(* A quote, or an error or a quote that cannot be used.                    *)
FetchQuote(b) ==
  /\ decision[b].step = "stripe"
  /\ \/ \E quote \in Quotes : quote.rate > 0 /\ Decide(b, StripeDecision(quote))
     \/ decision' = [decision EXCEPT ![b].step = "oxr"]
  /\ UNCHANGED <<fetched, locks>> /\ TablesStay /\ FxStays

(* loadOxrOnlyConverter.                                                   *)
LoadOxrOnly(b) ==
  /\ decision[b].step = "oxr"
  /\ Decide(b, SnapshotDecision(b.source, b.charge,
                 {s \in db.snapshots : s.provider = "OXR"}, decision[b].asOf))
  /\ UNCHANGED <<fetched, locks>> /\ TablesStay /\ FxStays

LockOf(b, lock, kind, id, minor) ==
  [booking |-> b, id |-> id, applied |-> kind, kind |-> lock.kind, rate |-> lock.rate,
   legs |-> {SnapshotKey(l) : l \in lock.legs}, quote |-> lock.quote,
   source |-> minor, charge |-> ApplyRateToMinor(minor, lock.rate)]

(* booking_fx_lock_confirmation_uq admits one CONFIRMATION a booking; a    *)
(* decision without a lock writes nothing.                                 *)
InsertLock(b) ==
  LET lock == decision[b].lock IN
  /\ decision[b].step = "insert"
  /\ decision' = [decision EXCEPT ![b].step = "done"]
  /\ locks' = IF lock.kind \in {"STRIPE_FX_QUOTE", "SNAPSHOT_REFERENCE"}
              THEN locks \cup {LockOf(b, lock, "CONFIRMATION", 0, b.minor)} ELSE locks
  /\ UNCHANGED fetched /\ TablesStay /\ FxStays

(* Mutant of DeriveRefund: the charge is cut off, not rounded.             *)
DeriveRefundTruncated(confirmation, kind, minor, id) ==
  [confirmation EXCEPT !.applied = kind, !.id = id, !.source = minor,
                       !.charge = (minor * confirmation.rate) \div RateScale]

DeriveRefund(confirmation, kind, minor, id) ==
  [confirmation EXCEPT !.applied = kind, !.id = id, !.source = minor,
                       !.charge = ApplyRateToMinor(minor, confirmation.rate)]

(* No CONFIRMATION, no row.  Nothing looks at the price or at the refunds  *)
(* there have been.                                                        *)
ApplyRefund(b) ==
  \E c \in locks, kind \in {"REFUND", "CANCELLATION_FEE"} :
    /\ c.booking = b /\ c.applied = "CONFIRMATION"
    /\ \E minor \in RefundAmounts :
         locks' = locks \cup
           {DeriveRefund(c, kind, minor, Cardinality({l \in locks : l.booking = b}))}
    /\ UNCHANGED <<fetched, decision>> /\ TablesStay /\ FxStays

FxStep == FetchLatest \/ FetchEcb \/ UpsertBatch \/ \E b \in Bookings :
  Resolve(b) \/ FetchQuote(b) \/ LoadOxrOnly(b) \/ InsertLock(b) \/ ApplyRefund(b)

FxInit ==
  /\ fetched = {}
  /\ decision = [b \in Bookings |-> NoDecision]
  /\ locks = {}

Total(column, rows) == FoldSet(LAMBDA l, sum : sum + l[column], 0, rows)

Refunds(b) == {l \in locks : l.booking = b /\ l.applied # "CONFIRMATION"}

Refunded(b) == Total("source", Refunds(b))

(* A lock can be accounted for and undone: its rate is the inverse of that *)
(* of the usable Stripe quote it cites, or the rate of the stored OXR      *)
(* snapshot it cites, whichever way round that is quoted; refunds that     *)
(* come to the price, in one row or in several, give back what was         *)
(* charged, but for half a minor unit a row (BookingFxLockResolver,        *)
(* BookingFxLockApplier).                                                  *)
LocksReversible == \A c \in {l \in locks : l.applied = "CONFIRMATION"} :
  LET refunds == Refunds(c.booking)
      returned == Total("charge", refunds) IN
  /\ c.kind = "SNAPSHOT_REFERENCE" =>
       \E s \in db.snapshots :
         /\ c.legs = {SnapshotKey(s)} /\ s.provider = "OXR"
         /\ c.rate = IF s.base = c.booking.source THEN s.rate ELSE InverseRate(s.rate)
  /\ c.kind = "STRIPE_FX_QUOTE" => \E quote \in Quotes :
       c.quote = quote /\ quote.rate > 0 /\ c.rate = InverseRate(quote.rate)
  /\ Refunded(c.booking) = c.source =>
       2 * Abs(returned - c.charge) <= Cardinality(refunds) + 1
  /\ Refunded(c.booking) = c.source /\ Cardinality(refunds) = 1 => returned = c.charge
=============================================================================
