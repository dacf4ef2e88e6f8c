# TLA+ verification of the Beyond Borders B2B API

This directory specifies, model-checks and proves properties of the API of the repository
(`apps/api` and the packages it rests on): the booking services, the booking documents, the
direct contracts, authentication and impersonation, search and pricing, exchange rates, and the
administration of what is sold. Paths below are relative to the repository; `booking/` is short
for `apps/api/src/booking/`, and so on.

    tlc -workers 2 -config BookingLifecycle.cfg MCBookingLifecycle
    tlapm BookingLifecycle_proofs.tla

`PROJECT.json` lists every run with its properties, maps every definition to the
source lines it stands for, and lists the hazards the properties are about.

## 1. The system

A NestJS API (`apps/api`) over one Postgres database, an admin web application
that calls it, and packages of types and pure functions. Requests share nothing in
memory but two token caches and the connection pool; they interact through tables,
row locks and unique indexes, and call out to Stripe, Auth0, the suppliers and an
object storage. Transactions run at READ COMMITTED, without savepoints; much of the API
runs none at all, and each of its statements commits alone.

| component | state it keeps | operations | what is hard | module |
|---|---|---|---|---|
| booking intake (`booking/booking-intake.service.ts`) | `booking_booking` | `create` | concurrent POSTs with one idempotency key; reference collisions inside a transaction | `BookingIntake` |
| booking confirm (`booking/booking.service.ts`) | status, snapshots, `booking_fx_lock`, audit | `confirm` | a status read before an outbound call; four tables in one transaction; offers pruned between reads; a lost COMMIT acknowledgement | `BookingConfirm` |
| supplier booking (`booking/booking-supplier.service.ts`) | `supplier_*` columns | `supplierBook` | the reservation precedes the transaction that records it | `BookingSupplier` |
| FX lock (`fx/booking-fx-lock.*`) | `booking_fx_lock` | `resolve`, `applyConfirmation`, `applyRefund` | decided before the transaction, stored in it; refunds in parts | `BookingConfirm`, `FxSync` |
| documents (`documents/`) | `doc_number_sequence`, `doc_booking_document`, blobs | `issue` | numbering under contention and rollback; upload before insert; bookings changing meanwhile | `BookingDocuments` |
| impersonation (`auth/impersonation/`, `auth/jwt/jwt-auth.guard.ts`) | `impersonation_grant` | `start`, `stop`, the guard's lookup | a grant ended by actor rather than by id; a request that relies on a grant looked up once; the connection pool | `Impersonation` |
| Auth0 webhook (`auth/webhook/`) | `core_user`, event ledger | `handleBatch` | redelivery, reordering, one failing entry of a batch | `UserSync` |
| user provisioning (`auth/management/`) | `core_user`, roles, membership, Auth0 | `provision`, bootstrap | compensation after a lost acknowledgement | `UserSync` |
| permissions (`auth/permissions/`) | none | role table, `RolesGuard` | what a grant leaves of an operator's own powers | `Permissions` |
| token and JWKS caches (`auth/management/`, `auth/jwt/`) | memory | `getAccessToken`, `getKey`, `validate` | shared fetches, throttle, keys rotated meanwhile | `TokenCaches` |
| direct contracts (`direct-contracts/`) | contracts, seasons, rates, restrictions, policies | create, patch, supersede, delete | check-then-write without a lock | `ContractStore` and below; `Catalogue` |
| search, pricing (`search/`, `packages/pricing`) | none | `search`, resolution of restrictions, policies, rules | eleven rounds of statements without a transaction while everything they read changes; precedence and boundaries | `Search`, `Pricing` |
| FX rates (`fx/fx-rate.service.ts`, `fx/sync/`, `packages/fx`) | `fx_rate_snapshot`, `fx_application` | sync, convert | freshness, two providers, inverse and cross rates, rounding | `FxRates`, `FxSync` |
| Hotelbeds adapter (`packages/adapters/hotelbeds`) | raw payloads, offer snapshots, mappings | availability, content sync | one rate stored after the other; a sync that stops half way | `Sourcing` |
| markup, promotions (`admin/`) | rules, promotions, `admin_audit_log` | create, patch, delete | checked against a row read before | `MarketAdmin` |
| admin audit reader (`admin-audit/`) | none | list events | keyset paging while late transactions commit | `AuditTrail` |
| audit (`audit/`) | `audit_event` | `emit`, `emitInTransaction` | exactly once with the change it reports | in those that emit |
| agency selector, health, admin web, stubs | none of their own | reads, HTTP, rendering | nothing a model would tell | none |

What makes each correct: section 3. What is left out of each: section 5.

## 2. Modules

    BookingStore        tables, transactions, row locks, answers
      BookingIntake       create
      BookingConfirm      confirm
      BookingSupplier     supplierBook
        BookingLifecycle    the three together; properties; fairness; refinement
          BookingInvariant    the inductive invariant
            MCBookingLifecycle              instances for TLC
            BookingLifecycle_proofs         types, the inductive invariant, the tables
              BookingRefinement_proofs      action property, answers, Spec => BookingTruth!Spec
    BookingTruth        the abstract specification of the three
      BookingDocuments    issue, over BookingTruth
        MCBookingDocuments       instances for TLC
        BookingDocuments_proofs  the inductive invariant; every safety property

    ContractStore       tables and row locks; writes to the contract row
      ContractChildren    seasons, age bands, rates and supplements
      AuthoredRules       cancellation policies and restrictions
        DirectContracts     all admin requests together; properties
          ContractInvariant   the inductive invariant
            MCDirectContracts       instances for TLC
            DirectContracts_proofs  types, the inductive invariant, every property

    Permissions         the role table and the guard's check
      IdentityStore       tables, transactions, connections, clock
        Impersonation       guarded requests, start and stop of a session
        UserSync            webhook, provisioning, bootstrap
          Identity            all together; properties; fairness
            IdentityInvariant   the inductive invariant
              MCIdentity          instances for TLC
              Identity_proofs     types, the inductive invariant, every safety property

    TokenCaches         the two caches of what Auth0 says
      MCTokenCaches       instances for TLC
      TokenCaches_proofs  the inductive invariant

    Pricing             pure: markup, restrictions, policies, promotions
      FxRates             pure: which rate converts, and to what
      Catalogue           the tables, and every way one changes
        Sourcing            adapter calls and the content sync
          Search              a search, statement by statement
        MarketAdmin         patches of rules and promotions
        AuditTrail          the audit reader's pages
        FxSync              rate syncs and FX locks
          Selling             all together; properties
            SellingInvariant    the inductive invariants
              MCSelling           instances for TLC
              Selling_proofs      the tables, patches, content sync, audit pages, locks
                Search_proofs       a search and the rates it was given

### Bookings and documents

**BookingStore** is the Postgres side. `bookings` is `booking_booking`: of its columns
the key, the reference, the source offer, the status, whether price and supplier
were filled in (`priced`, which intake alone does) and whether
`supplier_confirmation_ref` is there. `pins` is the offer snapshot of a confirmed
booking with two flags, for the component (and tax and fee) rows and for the
cancellation policy. `fxLocks` is its lock row, `audit` counts the three events.
`offers` are the live snapshots, which a sweeper prunes at any time; `reserved` is
what the supplier holds. Each worker is a request: `pc` is the await it is at,
`req` its local variables, `tx` what its transaction has staged, `answer` what it
replied last. An UPDATE waits while another transaction has staged a version of the
row (`RowLocked`) and then judges the new row; an INSERT waits for an uncommitted
one with the same unique value (`InsertPending`); a failed statement aborts the
transaction (`state = "aborted"`), and later ones fail. `Commit` applies everything
staged, with or without the acknowledgement reaching the service; `RequestFails`
is a failing statement, call or process at any await.

**BookingIntake**, **BookingConfirm** and **BookingSupplier** have an action per await of
the three services, in the code's order, with its guards and early returns. A
statement that only writes rows nobody else can see or wait for yet (pins, lock,
audit event) shares a step with the one before it; all reads of shared rows are steps
of their own, also the three unlocked reads of the offer.

**BookingTruth** is what the three promise with no request, lock or transaction in
sight: four whole steps, `Create`, `Confirm`, `RecordSupplier`, `MoveStatus`.
`BookingLifecycle` implements it: `Truth == INSTANCE BookingTruth WITH ...` with the four tables
as refinement mapping, and `ImplementsTruth == Truth!Spec` as a property of a run and a theorem.

**BookingDocuments** runs `BookingConfirmationService.issue` over `BookingTruth`: the
bookings change by those whole steps between any two steps of an issue.
`sequence` is the tenant's row of `doc_number_sequence`, which an open transaction
holds from `allocateNumber` to its end; `documents`, `docAudit` and `blobs` are the
rows, the audit events and the object storage.

### Direct contracts

**ContractStore** holds the `rate_auth_*` tables: `contracts` is the status column, `seasons`,
`bands`, `rates` (base rates, occupancy and meal supplements, which are written and
deleted alike), `policies` and `restrictions` the rows with their foreign keys and
`superseded_by_id`. `seasons[s].moved` is a history variable: a `patchSeason` gave
the row its dates. Of a deleted season only its contract is remembered, of a deleted rate nothing. `lock` says who holds a row by `SELECT ... FOR UPDATE`. Most handlers
run no transaction: `step` is the statement a request will run next, `req` what it
has read so far, and each statement is one action that commits alone. Deletes and
inserts carry their foreign keys as guards.

**ContractChildren** has `createSeason`, the one handler with a transaction, and those that
check first and write later: `patchSeason` (three statements, the last of which keeps with
`COALESCE` what the row holds by then), the deletes and the inserts of priced rows.
**AuthoredRules** has the create and supersede handlers of policies and restrictions, for a
contract or as supplier defaults, with their locks: old row, parent row, then the foreign keys of
the INSERT. `owner` is the supplier and the hotel of a row: a contract's own for its rules (`OwnerOf`), what the body names for a
default, whichever row that supersedes.

### Authentication

**Permissions** is the role table of `permissions.ts`, what a grant makes of it (the read
permissions of the impersonated side, never a write that `PERMISSION_KIND` forbids), and the
check of `RolesGuard`. **IdentityStore** has the tables (`users`, `rights`, `grants`, `auditLog`,
the webhook's `ledger`), what Auth0 holds (`auth0`, `emitted`, `pending`), transactions that draw
on a pool of `PoolSize` connections, and one clock `now`; a transaction's `now()` is the time of
its BEGIN, the service's `new Date()` that of the step. `unmatched`, `applied` and `inDoubt` are
history variables.

**Impersonation** is a guarded request: `Authenticate` (the user's row as the guard reads it),
`FindGrant`, `Authorize`, then a search, a confirm, or the statements of `start` and `stop`. The
UPDATE that ends a grant picks the actor's open one, whichever that is by then, and waits for its
holder; the INSERT is refused by the partial unique index. Remembered with a request are the
grants that were open and those that had ended when it began (`open`, `past`).
**UserSync** has the webhook (Auth0 delivers what it has emitted in any order and again; an entry
whose transaction fails is acknowledged all the same), provisioning (Auth0 first, then one transaction,
and a compensating delete unless the COMMIT is known to have succeeded) and the bootstrap.

**TokenCaches** is apart from the tables: a key set and a management token, each with one request in
flight that all callers share, the throttle, the soft TTL and the margins, against a clock and an Auth0
that adds and retires keys. `born` and `gone` remember when.

### Selling

**Pricing** and **FxRates** are the pure functions of `packages/pricing` and `packages/fx` as operators:
amounts are integers (thousandths) with the rounding and the minor units of the code, timestamps
hours. **Catalogue** has all tables a search reads as sets of rows in `db`, each with its columns and CHECKs
(`CatalogueOk`), and an action for each handler of `direct-contracts/` that changes one, its body parser and the
service's checks as guards. For a search that is being followed it keeps what has been there at some
time since it began (`ever`) and all along (`always`): a search reads no one state of the tables, and its
properties are stated between the two.

**Sourcing** is the Hotelbeds adapter: a request with retries, the raw payload, and for each rate its snapshot,
its observations (room, plan, occupancy, and meal when the rate names one), in the code's order, each of which may fail; and
`ContentSync` page by page: several may run side by side, and one that is done or has failed may be triggered again. A page may
come without a total, and its sync is then done, whatever else there is.
**Search** is `POST /search` as the eleven `Stages` of statements between its awaits. What is issued in one
`Promise.all` is read in any order (`left`); `Answer` computes what the code computes from what was read, and not from
the tables. **MarketAdmin** has the handlers of rules and promotions (read, check, write, audit row), **AuditTrail** events that
are stamped before their transaction commits and a caller that pages through them, **FxSync** the two syncs, the steps of
`resolve`, and the refunds. **Selling** composes them: `Next` interleaves their steps over one `db`.

Definitions called `... Mutant of X` state a bug X could have had. They are not part of
any specification: each property is checked to be violated when the named one
replaces X.

## 3. Runs

| run | configuration | what it checks |
|---|---|---|
| `booking_safety` | 2 bookings, 2 keys, 2 references, 1 offer, 2 workers, cancellations | seven invariants, `ImplementsTruth` |
| `booking_liveness` | 1 new and 1 legacy booking, payments, failures and refunds, fairness | `EveryRequestAnswered` |
| `reference_retry` | as `booking_safety` | violated: `ReferenceCollisionIsRetried` |
| `documents` | 2 new bookings and 1 legacy one, 2 workers, fairness | four invariants, `IssuedForGood`, `EveryIssueAnswered` |
| `direct_contracts` | 1 contract, 2 suppliers, 2 seasons, 2 days, 1 band, 1 rate, 3 policies, 2 restrictions, 1 plan, 2 requests | `Inductive`, six invariants, `NoSeasonAddedLate`, `SupersededOnce` |
| `identity` | 3 users, 2 accounts, 2 grants, 3 events, 2 requests, a pool of 2, fairness | three invariants, `ServedUnderTheGrant`, `EveryRequestAnswered` |
| `every_end_is_audited` | as `identity` | violated: `EveryEndIsAudited` |
| `selling` | 1 search over 1 hotel, 1 admin, syncs, 2 changes beside the search | five invariants |
| `market` | 2 admins, 2 content syncs of 2 pages, 3 audit events, bookings in three currencies, 2 Stripe quotes, refunds, 2 providers | five invariants |
| `meals_once` | 2 meal supplements of one combination | violated: `MealsOnce` |
| `leaked_defaults` | 1 search over 2 hotels of one supplier | violated: `OwnRestrictionsBind` |
| `token_caches` | 2 callers, 2 keys, 4 seconds | `CachesAreCurrent` |

Booking properties (`BookingLifecycle`): `ConfirmedTruth` - a confirmed booking is pinned
to its own offer, completely unless the offer was pruned, and nothing is pinned for
one that never was; `AuditExactlyOnce` - the log and the tables tell the same story;
`OneBookingPerKey`; `SupplierRefIsReal`; `AnswersAreDurable` - an answer stays true
whatever happens later; `LockMatchesAnswer` - the lock stored is the one answered;
`OneWinner`; `ImplementsTruth`; `EveryRequestAnswered`.

Document properties (`BookingDocuments`): `NumbersRunOn` - the numbers are 1 to n without
gap or repetition (the comments of the code promise less: "monotonic, NOT gapless";
since the upsert is rolled back with its transaction and no document is deleted, the code
keeps more than it promises); `DocumentHasBytes`; `DocumentAuditedOnce`;
`OneDocumentAnswered`; `IssuedForGood`; `EveryIssueAnswered`.

Contract properties (`DirectContracts`): `CreatedApart` - only a `patchSeason` can make two
seasons overlap; `SeasonsInOrder` - two patches that each move one end never cross them;
`NoSeasonAddedLate` - no season is added to a contract that has become INACTIVE;
`LiveHadSeason` - what the activation gate still guarantees when the season it counted is
deleted before the UPDATE; `NothingDangles` - deletes against inserts; `VersionsRunOn`,
`SupersededOnce`, `ChainsEndInForce` - versions and chains of policies and restrictions: where there was a rule one is in force,
unless the last default of a supplier and hotel was superseded by that of another.

Identity properties (`Identity`): `GrantHistory` - at most one open grant for an actor, each
audited as started once and as ended only when it has, whatever races or fails;
`ServedUnderTheGrant` - nothing is confirmed under a grant, no request is served under one that had ended
when the request began, and none with the operator's own powers while one grant stays active;
`ProvisionedWhole` - user, roles and membership together or not at all, fitting the user's class, and
no committed user without an Auth0 account but in the two cases the code leaves; `EventsAppliedOnce` - however
often an event is delivered, and which status the last one leaves; `EveryRequestAnswered`.

Selling properties: `OffersSellable` - no offer is made up of rows that never were; `NothingWithheld` - what could
be sold from the first statement to the answer is offered; `PricedByBestRule`; `ConversionsOnRecord` - fresh and
stored snapshots, OXR before ECB, a row of `fx_application`; `RatesOnRecord` - no supplier rate is shown without its
snapshot, payload and observations, and none is bookable. The `market` run: `CatalogueOk` - the checks of requests and
services keep what the tables promise, also when two patches cross (the window of a rule, the combination of a rate), and nothing a
unique index forbids is there twice; `NoLostPatch`; `SyncComplete` - a sync that came to the end of what Hotelbeds counts has left one
row for each hotel, whatever ran before or beside it; `PagesComplete` - no event that was there is skipped or shown twice while others
commit late; `LocksReversible` - the rate of a lock is the inverse of that of the Stripe quote it cites, or that of the stored OXR
snapshot it cites, and refunds that come to the price return what was charged, but for half a minor unit for
each row, and to the unit when there is one (the code allows other refunds, of which nothing is said). `CachesAreCurrent` (`TokenCaches`): no bearer token is accepted by a key retired, or refused for a key
published, longer ago than TTL, throttle and latency allow, and no management token is handed out with less than its margin left.

### What the violated runs show

* `reference_retry`: a collision on the booking reference aborts the transaction, and the
  retry runs in it. The second INSERT fails with 25P02 and the request with it;
  `booking-intake.service.ts` says that such collisions "retry with a fresh reference".
* `every_end_is_audited`: a start finds an expired grant, a stop ends it, and the start, whose UPDATE goes by actor, audits that
  grant a second time. ADR-027 has one `IMPERSONATION_ENDED` for each row that gets its `ended_at`.
* `leaked_defaults`: a search reads the supplier defaults of all its hotels at once, and
  `isCandidate` looks at neither supplier nor hotel of a row. A default of one hotel replaces that of the other, and
  a stay its own default forbids is offered; ADR-023 D4 resolves the default by supplier and hotel.
* `meals_once`: two meal supplements of one season, room, plan, meal, occupant and band are stored, at two prices. The migration
  (20260429000001, lines 289-291) leaves their uniqueness to the service, and `createMealSupplement` does not look.

### Bounds

Two workers make every pairwise race of two requests, of the same or of different kinds, and
a worker that is done starts again, so sequences of any length occur. Two bookings, keys and
references are the least for two requests to contend for one and not for the other,
and for a reference to be taken. One offer suffices, for a booking has one and
never changes it; it may be pruned at any step. Nothing counts without bound: ids
are drawn once and never reused, audit counters are bounded because each event is
written at most once per booking, and `sequence` by the number of bookings. Workers, bookings,
keys and references are interchangeable in the safety runs (`SYMMETRY`), never in the
fairness runs.

`Plain` (documents) is a state constraint: locks, partial pins and the statuses that are
neither open, CONFIRMED nor CANCELLED are left out of the bookings, since `issue` reads none
of them. It restricts `BookingsMove` alone, which is not under a fairness condition: no
behaviour of a worker is cut short. Two bookings that can be pinned are the least for two requests to compete for a number, or for
one document (the second INSERT waits for the unique index, `IndexHeld`); the legacy booking is never pinned. The proofs need no such constraint.

`OnePart` (direct contracts) lets one part of the tables fill at a time: seasons; what is priced, or restricted, by season, with one
season of one day that comes and goes; policies. Two seasons are the least that can overlap,
and a calendar of two days gives spans that touch, contain and miss each other. Three policies make a chain of three, two heads of one scope and
supersession into another scope; one plan beside "no plan", and one contract beside the defaults of two suppliers,
give six scopes. Requests of two contracts meet only in the supplier row, which both kinds of scope
use already. A second hotel would tell defaults apart as a second supplier does. An admin request on
a contract that has become INACTIVE is refused for ever, so a run can stop:
`CHECK_DEADLOCK FALSE` is set there, and the theorems `LocksAreOrdered` and `LocksAreReleased` say what a
deadlock check would have.

`Bounded` (identity) is a state constraint that follows one subject at a time: two requests of one operator against the grants,
or one request of anybody, or the newcomer whom provisioning, the bootstrap and two of three events work on. A request writes grants
or one user, never both, and a grant belongs to one operator, so requests about different subjects share
only the pool. Two grants are the least for a start to find one and insert another; a TTL of one tick and a clock
of one let every grant expire, or not, at any step.

`SellingBound` follows one search from its request to its answer, with two things beside it: a change of a table,
a tick of the clock, a patch, or a rate sync. One of them is enough to make any two of the statements disagree, and two to
change something and change it back. The hotel has one row of each kind, and a second of those that are chosen from (seasons, rules,
snapshots, restrictions). `MarketBound` lets one part run at a time, for the parts write different tables; within it both
admins, both content syncs over their pages, and the rate syncs run as they like, and one booking has up to three refunds: enough to
make up its price in one, two or three rows, or to exceed it. The runs about searches have no content sync (`Syncs = {}`): it adds hotels
without a mapping, and changes none. Rates have two decimals and amounts are small; rounding is not affected. `OneCache` lets one of the two
token caches work at a time, since they share nothing but the clock; four seconds are more than two of each interval.
Searches, admin requests, events and clocks come to an end, hence `CHECK_DEADLOCK FALSE` in these.

One tenant is modelled where nothing reads across tenants (bookings, documents, contracts); authentication, search and the audit
reader have two, since there the tenant decides. In the booking modules time, money and payloads are left out: no decision of that
code depends on them but the currency comparison, which is a choice of `FxDecide`.

### Fairness

`WF(Proceed(w))`: a continuation that is ready runs, for the event loop starves none, and
a database or outbound call answers or fails by its timeout. `SF` for the statements that wait
on a lock: Postgres queues the waiters of a row or an index entry and wakes them in turn, so
one that can run again and again is not passed over for ever. In `Identity` all steps of a request are under `SF`: each of them may wait,
for a row, an index entry or a connection. Nothing is assumed of
arrivals, failures, pruning, outside flows, Auth0 or the clock. No booking request waits while it holds a second row,
so there is no deadlock to detect; runs check that too. The selling modules state no liveness: a search takes a fixed number of
statements and waits for nobody.

## 4. Proofs

### Bookings

For every set of bookings, legacy rows, keys, references, offers and workers, and every
`ExternalMoves` the assumption allows:

| theorem | module | states |
|---|---|---|
| `TypeCorrect` | `BookingLifecycle_proofs` | `Spec => []TypeOK` |
| `InductiveInvariant` | same | `Spec => []Inductive` |
| `ConfirmedIsPinned`, `AuditIsExact`, `KeysAreIdempotent`, `SupplierRefsAreReal` | same | the four invariants about tables |
| `TruthIsImmutable` | `BookingRefinement_proofs` | `Spec => TruthIsWriteOnce` |
| `AnswersStayTrue`, `LockIsTheAnswered`, `OnlyOneWinner` | same | the three invariants about answers |
| `ServicesImplementTruth` | same | `Spec => ImplementsTruth` |

The assumptions are the named ASSUMEs of `BookingStore`: legacy ids are booking ids, the null
values are no members of their sets, and outside flows never reopen, confirm or
delete a booking. No finiteness is needed.

The invariants about the tables are not inductive: that a confirmation pins the right
offer depends on what the request read three awaits before. `Inductive` adds it:
`RowInv` (a row is a legacy one or has all intake columns), `TxInv` (which awaits
have a transaction open), `IntakeInv`, `ConfirmInv` and `SupplierInv` (what is staged, and
that the row under it is still what the guard of the UPDATE saw, because the
transaction holds it), and `Exclusive` (a fresh id is drawn once, one transaction
holds a row, two inserts in flight differ in key and reference). `TypeCorrect`, `InductiveInvariant` and
`TruthIsImmutable` state no property of a run: the others rest on the first two, and `ImplementsTruth` implies the third. The proof has a step per action; three facts carry it: requests other
than the acting one are unchanged (so their parts need only the acting row), a
commit changes no row another request holds (`Exclusive`), and a status move is
refused on a held row. The invariants about answers are proved from `Inductive` and the
action property: answers only name facts that are write-once. The refinement follows by
showing of each of the commit actions that what it staged is the whole abstract
step, and of every other action that it leaves the four tables alone.

### Direct contracts

For every set of contracts, suppliers, hotels, rows, plans and requests, and every calendar; each property of the run
`direct_contracts` is a theorem, and `TypeOK`, `LockOrder` and `NoLockLeft` are proved without being run:

| theorem | module | states |
|---|---|---|
| `ContractsTypeCorrect` | `DirectContracts_proofs` | `Spec => []TypeOK` |
| `ContractsInductive` | same | `Spec => []Inductive` |
| `LocksAreReleased`, `LocksAreOrdered` | same | `NoLockLeft`, `LockOrder` |
| `SeasonsCreatedApart`, `SeasonDatesInOrder`, `LiveContractsHadSeasons` | same | `CreatedApart`, `SeasonsInOrder`, `LiveHadSeason` |
| `ReferencesHold` | same | `NothingDangles` |
| `PolicyVersionsRunOn`, `RulesStayInForce` | same | `VersionsRunOn`, `ChainsEndInForce` |
| `NoSeasonIsAddedLate`, `RulesSupersededOnce` | same | the action properties |

The assumptions are those of `ContractStore`: ids of different tables differ, the null value is none
of them, the calendar is a natural number of days.

None of the properties is inductive, because each request writes on the strength of what it read or
locked some statements before. `Inductive` (`ContractInvariant`) says what of that still
holds. `Addressed`: a request carries ids of the tables its statements write. `LocksHeld`: `lock` is a
function of where the requests are (`Held`), so a lock can be neither lost nor kept. `Fresh` and
`IdsApart`: the row under a new id does not exist and nobody else will insert it. `SeasonSeen`: under
the contract lock, `createSeason` still knows the status and every season that was not patched since.
`RuleSeen`: the row to be superseded is still in force, and the version computed is still one more than the
highest, since only a holder of the same parent row numbers its scopes (`Exclusive`).
`ActivationSeen` needs the history of deleted seasons. `RulesOwned` and `LinksHold` (the rules of a contract have its supplier and
hotel, and what supersedes a row is there) are why only a default can lose its last rule in force. TLC checks `Inductive` in `direct_contracts`.

The proofs do not go through all actions for each conjunct. Three lemmas say once which actions write each
table (`TableWriters`), take a lock (`LockTakers`), or bring a request to a step (`Arrivals`), and every
other proof looks at those few. Type correctness comes first, because
"the row under `req[w].id`" means something only for a request that is `Addressed`. The properties follow from
`Inductive` and one step each; `PolicyAdded` and `RestrictionReplaced` say what a supersede changes.

### Documents

For every set of bookings and workers, over every behaviour of `BookingTruth`:

| theorem | module | states |
|---|---|---|
| `DocumentsInductive` | `BookingDocuments_proofs` | `Spec => []Inductive` |
| `NumbersHaveNoGap`, `DocumentsHaveBytes`, `DocumentsAuditedOnce`, `AnsweredWithTheDocument` | same | the four invariants |
| `DocumentsAreFinal` | same | `Spec => IssuedForGood` |

The properties say nothing of requests half way; what makes them hold is what a request has read, uploaded or
numbered some awaits ago. `RequestKnows` says what of it is still true at each step: the booking is pinned, the content is stored and shows that
pin, the number is one more than the sequence. Two facts carry it. A pin is written once, with the confirmation's event, and the booking services never touch it again
(`TruthGoesOn`, from the four whole steps of `BookingTruth`; `ServicesImplementTruth` says that these are all the services do). And of all requests only
one has taken a number (`OneNumberTaken`), so that the sequence cannot move under it. `Advanced` and `Replied` say once what a step that
writes no table, and one that ends the request, leave as it was; each action but `CommitIssue` is an instance of one of them.

### Token caches

For all intervals, margins and latencies with `MinRefresh <= SoftTtl` and a token lifetime longer than latency and margin
(`TokenAssumption`), any callers and any keys: `AnswersAreCurrent` (`TokenCaches_proofs`) states
`Spec => []CachesAreCurrent`. The invariant dates what is cached: a key set is as old as the request that asked for it (`AsOf`), a request is
in flight for at most `Latency` (`FlightsShort`), so a cached set was asked for at most `Latency` before it was stored
(`KeySetsDated`), and a management token expires no sooner than the cache believes (`TokensDated`). An answer adds at most `SoftTtl`
to that, or `MinRefresh` when a key is missing.

### Identity

For any users, accounts, grants, events and requests, any pool, lifetime of a grant and clock:

| theorem | module | states |
|---|---|---|
| `TypeInvariant`, `IdentityInductive` | `Identity_proofs` | `Spec => []TypeOK`, `Spec => []Inductive` |
| `GrantsAgree`, `UsersWhole`, `EventsOnce` | same | `GrantHistory`, `ProvisionedWhole`, `EventsAppliedOnce` |
| `ServedAsJudged` | same | `Spec => ServedUnderTheGrant` |

The assumptions are the ASSUMEs of `IdentityStore`: the users there at the start are whole and fit their class, an operator is
ordered without an account (`provisionOperator` has no such parameter), and the null values are in no table.

A transaction writes what it staged several awaits before, and a request is served by what the guard read when it began.
`Inductive` (`IdentityInvariant`) says what of that is still so. `Placed`, `Staged` and `Ordered`: which statement belongs to
which handler, and what is staged when; they need only the request itself. `GrantsInv`: the transaction that ends a grant holds
its row, and the grant is open until it commits; one that inserts a grant is alone with its id and its actor (`Starting`, which is
the partial unique index), so that what it publishes leaves one open grant for the actor. `Found` is what makes `EndExpired` audit
a grant that has ended, if not always its own end. `UsersInv`: a row that is staged keeps class and tenant of the row it
replaces, the bootstrap's role is added to the roles there are, and both are staged by one transaction at a time.
`GuardInv`: grants belong to operators of their tenant, and the row and the grant the guard has read are still what the request is
judged by, but for the status and the roles. `Auth0Inv`: who may still delete an account (`Claims`), and why a user may have none
(`Excused`). `EventsInv` adds to `EventsAppliedOnce` that a user an event was applied to is there.

Few facts carry the steps. A user's class, tenant and existence last, and roles only grow (`Lasting`); a grant keeps its actor,
tenant and expiry, and stays ended (`GrantLasting`). So whatever another request does, what a bystander relies on is kept
(`GrantsBystander`, `UserBystander`, `GuardBystander`), and each action is looked at for its own request only. Only a COMMIT, the
calls of Auth0 and the webhook change what others see (`QuietStep`, `OutsideTables`). TLC has checked `Inductive` on the instance of
the run `identity`, added to its invariants.

### Selling

For any tables the schema admits, any drafts, requests, patches, feeds, pages of content, events, bookings, searches and admins;
each property of the runs `selling` and `market` is a theorem:

| theorem | module | states |
|---|---|---|
| `CatalogueInvariant`, `CatalogueWhole` | `Selling_proofs` | `Spec => []CatalogueInductive`, `CatalogueOk` |
| `PatchesNotLost` | same | `NoLostPatch` |
| `SyncInvariant`, `SyncsComplete` | same | `Spec => []SyncInductive`, `SyncComplete` |
| `AuditInvariant`, `PagesWhole` | same | `Spec => []AuditInductive`, `PagesComplete` |
| `LocksInvariant`, `LocksUndone` | same | `Spec => []LocksInductive`, `LocksReversible` |
| `SearchInvariant` | `Search_proofs` | `Spec => []SearchInductive` |
| `BestRulePrices`, `OffersComplete`, `OffersMadeOfRows`, `ConversionsTraced` | same | `PricedByBestRule`, `NothingWithheld`, `OffersSellable`, `ConversionsOnRecord` |
| `RatesInvariant`, `RatesAuditable` | same | `Spec => []RatesInductive`, `RatesOnRecord` |

The assumptions are the ASSUMEs of `Pricing`, `Catalogue`, `Sourcing`, `Search`, `MarketAdmin`, `AuditTrail` and `FxSync`: the tables a
search begins on keep their checks and are finite where a best row is looked for (`TablesAssumption`), hotels not yet listed get
ids nobody has (`HotelsAssumption`), dates, times, rates and amounts are integers, a new rule or promotion comes with all its
columns, pages are never empty and ids of events are ordered.

The invariants are one for each part (`SellingInvariant`), above the one they share. `CatalogueInductive` has the checks of every
table and `TablesSeen`: what was there all along is in the tables, and the tables are in what was ever there. Its proof goes handler by
handler, and `CommitOk` says once what a write must bring to leave the checks true.

`SearchInductive` is what makes the properties of an answer provable: `Answer` is computed from eleven rounds of reads, and each read was
true at its own time only. So of each statement that has run (`Behind`) it says what its rows are still worth (`Found`): none that never was
(`ever`), and of those it asked for all that was there all along (`always`). That only gets weaker as `ever` grows and `always` shrinks, so no
step but the read itself can falsify it; and a search holds nothing of a statement that has not run (`SearchFormed`). The four properties
of answers are then statements about operators: what `Answer` makes of rows that are `Found`. The part of the tables they need is
passed as a record (`World`), so that no proof primes an operator twice.

`RatesInductive` follows an adapter call through its writes: a rate is counted as taken (`OnRecord`) when its payload, its snapshot and all its
observations are there, and the one in hand has those that are no longer to do. `PatchInductive` adds to `NoLostPatch` that the row a request
changed is still there. `SyncReaches`: before the cursor of each sync every hotel has its row, and a page in hand that was counted reaches to the next cursor;
no row is ever deleted, so neither a sync started again nor one beside it leaves a gap; `HotelsNamed` is why it leaves no second row. `TrailCut`: the pages
shown are cut off at the cursor, hence an event that commits late and behind it is shown later, one before it was not there when the caller began.
`LocksKnown`: a booking has one CONFIRMATION at most, since only the last step of its decision writes it, it cites a snapshot or a quote of its rate, and a refund has the same rate.

Least and greatest rows are found by induction on the size of a finite set (`FiniteLeast`, `PageCut`), and so are the sums of
`LocksReversible`: `TotalUnfolds` shows that the fold over the rows is a function on their subsets which takes one row after the other, and
`TotalsClose` that its rounding errors add up to half a unit a row at most. Both use only sets of numbers and the least element of
one, never an induction rule that takes a predicate.

What the proofs made us correct: the date check of cancellation policies (`rate_auth_cancellation_policy_effective_chk`), the integers of
rates, and that `RowKnown` asks for a hotel the search named. `PickRule` and `ApplyFx` give the row they choose alone in a set, or nothing, so that no
property speaks of a rule that is not there. TLC has checked `SearchInductive` and `RatesInductive` on the instance of
`selling`, and the other inductive invariants on that of `market`.

### Only model-checked

The liveness properties (`EveryRequestAnswered` of bookings and of identity, `EveryIssueAnswered`): fairness and ENABLED are beyond the prover. Every safety
invariant and every action property of a passing run is a theorem.

## 5. What was left out, and why

* Texts, names, images, formatting, logging: no property is about them. Validation of bodies is modelled where a later step relies on
  it (`Parse...` in `Catalogue`, `Search`, `MarketAdmin`).
* Signatures and their verification, HMAC of the webhook, sessions of the admin web: libraries, and nothing that shares state.
* The connection pool outside `Identity`: clients are taken as available. The loser of a booking key race asks for a second
  client while it holds one (`booking-intake.service.ts:125`), as a rejected start does, which is modelled.
* Outside flows (payment, cancellation, refund) do not exist in the repository yet. They are
  taken never to reopen, confirm or delete a booking (`ExternalMovesAssumption`). `applyRefund` has no caller yet.
* The supplier's booking call is one external step of `BookingSupplier`.
* What Hotelbeds has to list (`Content`) does not change while a sync pages through it. Stripe's quotes do not expire: the code stores
  `expires_at` and reads it nowhere.
* `invalidate` of the management token has no caller: a revoked token is used until it expires.
* The agency selector, health checks, type-only packages, worker and portals hold no state and decide nothing.

What the modelled code does and no property forbids; each is a behaviour of the model:

* A confirm that loses to another confirm is answered 409, where `booking.repository.ts:239` speaks of `alreadyConfirmed: true`.
* A replayed intake answers with the status INITIATED, whatever the booking's is by then (`booking-intake.service.ts:214`).
* A crash after the supplier's call leaves a reservation no table knows.
* A document shows the supplier's reference of the moment it was issued, and `null` for ever if that was too early, although
  `document-content.repository.ts:10` calls everything it reads immutable.
* `patchSeason` may move a season over another: it checks and writes without a lock, and ADR-022 D5 has it that there is no
  concurrent-write risk. A patch read before a soft delete revives an INACTIVE contract, and the season counted by the activation gate
  may be gone at the UPDATE.
* A contract that comes into force between the two reads of a search is priced without its hotel's rule. Cancellation policies
  leak between hotels as restrictions do. A cross rate leaves no row of `fx_application`. ECB rates count from midnight.
* A supplier's rate that a search sees before the content sync has its hotel is not observed for mapping.
* One rate of zero makes a rate sync fail with its whole batch. The FX lock divides without the exponents of minor units
  (`booking-fx-rate-math.ts:34`); `LocksReversible` is about what is returned in the same unit.
* Admin writes and their `admin_audit_log` rows are statements of their own: a failure between leaves a change without a row.
* Refunds are neither capped by the price nor compared with those before them (`booking-fx-lock.applier.ts:171-197`).
* A supplier default may be superseded by one of another supplier or hotel: both come from the body and neither is compared with the
  old row (`direct-contracts.service.ts:1140-1203`, `1420-1481`). The old supplier and hotel are left without a default in force, although
  `cancellation-policy.repository.ts:130-132` says that the new row inherits the scope, and ADR-023 that `superseded_by_id` chains to the
  newer version. `ChainsEndInForce` allows just that.
* A content sync whose page has no total is done (`live-client.ts:371-381`), with the rest of the hotels never asked for.
* A webhook entry whose transaction failed is acknowledged and never comes again; events delivered out of order leave the status of the
  one applied last.

## 6. Correspondence

`PROJECT.json`, "map", names for each definition the file, the lines and the symbol it stands
for; names follow the code: `MarkConfirmed` is `BookingRepository.markConfirmed` with the branch
of `confirm` on its result, and so on. Definitions marked external (Postgres locks, the
sweeper, outside flows, Auth0's side) are modelled from how the code uses them.

## 7. Plan

Done: every part listed in section 2, model-checked, and a proof of each of its safety properties. What is left, in this order:

1. An abstract specification of a search, between `ever` and `always`, and `Selling` shown to implement it: the theorems about answers say
   what it would promise, one property at a time.
2. The lemmas about `Pricing` that no property of a run needs: a quote rounded once, and precedence as a total order.
3. The `admin_audit_log` row that each handler of `direct-contracts.service.ts` writes after its statement.
