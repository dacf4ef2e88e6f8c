---------------------------- MODULE BookingStore ----------------------------
(***************************************************************************)
(* The Postgres side of a booking, as the three booking services of        *)
(* apps/api see it: the committed tables (booking_booking, its             *)
(* booking-time snapshots, booking_fx_lock, audit_log, the live offer      *)
(* snapshots) and the transactions that API requests hold open.            *)
(*                                                                         *)
(* Postgres runs these transactions at READ COMMITTED.  A statement sees   *)
(* the committed tables plus what its own transaction staged; an UPDATE of *)
(* a row, or an INSERT of a unique value, that another open transaction    *)
(* holds waits until that transaction ends and then sees its outcome.  A   *)
(* failed statement aborts its transaction: every later one fails too.     *)
(* A statement that only writes rows no other request can see or wait for  *)
(* yet (a lock, an audit event) is taken in one step with the one before.  *)
(*                                                                         *)
(* One tenant is modelled: the two unique indexes and the lookups by key   *)
(* and by offer are per tenant, and nothing reads across tenants.          *)
(***************************************************************************)
EXTENDS Naturals, FiniteSets

CONSTANTS
  Ids,            \* booking ids (ULIDs), drawn fresh by intake
  Legacy,         \* ids of rows that were there before the intake slice
  Keys,           \* idempotency keys
  Refs,           \* BB-YYYY-NNNNN references
  Offers,         \* sourced offer snapshots
  Workers,        \* API requests that can run at the same time
  ExternalMoves,  \* <<from, to>>: status changes made outside this code
  NoId, NoKey, NoRef, NoOffer

Open == {"INITIATED", "PENDING_PAYMENT"}

Terminal == {"CANCELLED", "FAILED", "REFUNDED"}

(* "ABSENT" stands for: there is no such row. *)
Statuses == Open \cup Terminal \cup {"CONFIRMED", "ABSENT"}

ASSUME LegacyAssumption == Legacy \subseteq Ids

ASSUME NullAssumption ==
  NoId \notin Ids /\ NoKey \notin Keys /\ NoRef \notin Refs /\ NoOffer \notin Offers

(* Nothing in the repository writes PENDING_PAYMENT or a terminal status   *)
(* yet; payment and cancellation flows (external) are taken never to       *)
(* reopen, confirm or delete a booking.                                    *)
ASSUME ExternalMovesAssumption ==
  ExternalMoves \subseteq (Open \X ({"PENDING_PAYMENT"} \cup Terminal))
                          \cup (({"CONFIRMED"} \cup Terminal) \X Terminal)

LockKinds == {"STRIPE_FX_QUOTE", "SNAPSHOT_REFERENCE"}

(* What BookingFxLockResolver.resolve may decide, and the service itself   *)
(* when the currencies are the same.  NO_LOCK_AVAILABLE: Stripe failed and *)
(* there is no usable OXR snapshot; the booking is confirmed all the same. *)
Decisions == LockKinds \cup {"NO_LOCK_NEEDED", "NO_LOCK_AVAILABLE"}

Events == {"BOOKING_CREATED", "BOOKING_CONFIRMED", "BOOKING_SUPPLIER_BOOKED"}

(* A booking_booking row.  priced: sell amount, currency and supplier_ref  *)
(* are set, which intake alone does.  supplier: supplier_confirmation_ref  *)
(* IS NOT NULL.                                                            *)
Row == [key : Keys \cup {NoKey}, ref : Refs \cup {NoRef}, offer : Offers \cup {NoOffer},
        status : Statuses, priced : BOOLEAN, supplier : BOOLEAN]

NoRow == [key |-> NoKey, ref |-> NoRef, offer |-> NoOffer,
          status |-> "ABSENT", priced |-> FALSE, supplier |-> FALSE]

(* The booking-time truth of a confirmed booking: the header copied from   *)
(* an offer snapshot, and whether the price components (with their tax and *)
(* fee rows) and the cancellation policy were found and copied with it.    *)
Pin == [offer : Offers \cup {NoOffer}, components : BOOLEAN, policy : BOOLEAN]

NoPin == [offer |-> NoOffer, components |-> FALSE, policy |-> FALSE]

(* A request's open transaction: the row version, pin, lock and audit event *)
(* it staged.  A staged row is also the row lock it holds on that booking. *)
Tx == [state : {"none", "open", "aborted"}, row : Row, pin : Pin,
       lock : LockKinds \cup {"NONE"}, event : Events \cup {"NONE"}]

NoTx == [state |-> "none", row |-> NoRow, pin |-> NoPin, lock |-> "NONE", event |-> "NONE"]

IntakeSteps == {"intake_insert", "intake_commit", "intake_reread"}

ConfirmSteps == {"fx_decide", "mark_confirmed", "pin_offer", "pin_components", "pin_policy",
                 "confirm_commit"}

SupplierSteps == {"resolve_ingredients", "adapter_book", "record_supplier",
                  "supplier_commit", "supplier_reread"}

Steps == {"idle"} \cup IntakeSteps \cup ConfirmSteps \cup SupplierSteps

(* What a request holds in its local variables between two awaits.         *)
Request == [id : Ids \cup {NoId}, key : Keys \cup {NoKey}, offer : Offers \cup {NoOffer},
            decision : Decisions]

NoRequest == [id |-> NoId, key |-> NoKey, offer |-> NoOffer, decision |-> "NO_LOCK_NEEDED"]

Outcomes == {"NONE", "CREATED", "REPLAYED", "CONFIRMED", "ALREADY_CONFIRMED",
             "SUPPLIER_BOOKED", "SUPPLIER_REPLAYED", "NOT_FOUND", "REFUSED", "CONFLICT",
             "ERROR"}

(* The HTTP answer of a worker's last request.  fx: the fxOutcome of a     *)
(* confirmation.                                                           *)
Answer == [outcome : Outcomes, id : Ids \cup {NoId}, key : Keys \cup {NoKey}, fx : Decisions]

NoAnswer == [outcome |-> "NONE", id |-> NoId, key |-> NoKey, fx |-> "NO_LOCK_NEEDED"]
-----------------------------------------------------------------------------
VARIABLES
  bookings,  \* booking_booking
  pins,      \* booking_sourced_offer_snapshot and the tables that hang from it
  fxLocks,   \* the CONFIRMATION rows of booking_fx_lock
  audit,     \* audit_log: how often each event was written for a booking
  offers,    \* the offer snapshots still there, with their components and policy
  reserved,  \* bookings the supplier holds a reservation for (external)
  pc,        \* where each worker's request is
  req,       \* its local variables
  tx,        \* its transaction
  answer     \* the answer it gave last

tables == <<bookings, pins, fxLocks, audit>>

outside == <<offers, reserved>>

vars == <<bookings, pins, fxLocks, audit, offers, reserved, pc, req, tx, answer>>

TypeOK ==
  /\ bookings \in [Ids -> Row]
  /\ pins \in [Ids -> Pin]
  /\ fxLocks \in [Ids -> LockKinds \cup {"NONE"}]
  /\ audit \in [Ids -> [Events -> Nat]]
  /\ offers \subseteq Offers
  /\ reserved \subseteq Ids
  /\ pc \in [Workers -> Steps]
  /\ req \in [Workers -> Request]
  /\ tx \in [Workers -> Tx]
  /\ answer \in [Workers -> Answer]

(* Before intake existed a booking carried none of the columns it added.   *)
LegacyRow(s) == [NoRow EXCEPT !.status = s]

Init ==
  /\ bookings \in {f \in [Ids -> {NoRow} \cup {LegacyRow(s) : s \in {"INITIATED", "CONFIRMED"}}] :
                     \A b \in Ids : f[b] = NoRow <=> b \notin Legacy}
  /\ pins = [b \in Ids |-> NoPin]
  /\ fxLocks = [b \in Ids |-> "NONE"]
  /\ audit = [b \in Ids |-> [e \in Events |-> 0]]
  /\ offers = Offers
  /\ reserved = {}
  /\ pc = [w \in Workers |-> "idle"]
  /\ req = [w \in Workers |-> NoRequest]
  /\ tx = [w \in Workers |-> NoTx]
  /\ answer = [w \in Workers |-> NoAnswer]
-----------------------------------------------------------------------------
Exists(b) == bookings[b].status # "ABSENT"

(* Another open transaction staged a version of b's row.                   *)
RowLocked(b) == \E v \in Workers : tx[v].row # NoRow /\ req[v].id = b

(* An insert waits for another that is not yet committed and carries the   *)
(* same idempotency key or reference.                                      *)
InsertPending(k, r) ==
  \E v \in Workers : /\ tx[v].row # NoRow
                     /\ ~Exists(req[v].id)
                     /\ tx[v].row.key = k \/ tx[v].row.ref = r

KeyTaken(k) == \E b \in Ids : Exists(b) /\ bookings[b].key = k

RefTaken(r) == \E b \in Ids : Exists(b) /\ bookings[b].ref = r

(* The request goes on with step s.                                        *)
Goto(w, s) == pc' = [pc EXCEPT ![w] = s]

Stage(w, t) == tx' = [tx EXCEPT ![w] = t]

(* The request ends with answer a; an open transaction is rolled back or,  *)
(* where the action also applies it to the tables, committed.              *)
Reply(w, a) ==
  /\ Goto(w, "idle")
  /\ answer' = [answer EXCEPT ![w] = a]
  /\ req' = [req EXCEPT ![w] = NoRequest]
  /\ Stage(w, NoTx)

(* An answer that names booking b, and one that names none.                *)
Success(w, o, b) == [outcome |-> o, id |-> b, key |-> req[w].key, fx |-> req[w].decision]

Refusal(o) == [NoAnswer EXCEPT !.outcome = o]

(* A request that was answered by its very first read.                     *)
ReplyAtOnce(w, a) ==
  /\ answer' = [answer EXCEPT ![w] = a]
  /\ UNCHANGED <<pc, req, tx>>

(* A request that its first read lets through to step s.                   *)
Begin(w, s, r) ==
  /\ Goto(w, s)
  /\ req' = [req EXCEPT ![w] = r]
  /\ answer' = [answer EXCEPT ![w] = NoAnswer]
  /\ UNCHANGED tx

(* Mutant of Commit: the event is emitted after COMMIT, and is lost when   *)
(* the acknowledgement is.                                                 *)
CommitThenAudit(w, o, ack) ==
  LET b == req[w].id IN
  /\ bookings' = [bookings EXCEPT ![b] = tx[w].row]
  /\ pins' = IF tx[w].pin = NoPin THEN pins ELSE [pins EXCEPT ![b] = tx[w].pin]
  /\ fxLocks' = IF tx[w].lock = "NONE" THEN fxLocks ELSE [fxLocks EXCEPT ![b] = tx[w].lock]
  /\ audit' = IF ack THEN [audit EXCEPT ![b][tx[w].event] = @ + 1] ELSE audit
  /\ Reply(w, IF ack THEN Success(w, o, b) ELSE Refusal("ERROR"))
  /\ UNCHANGED outside

(* COMMIT applies all that the transaction staged, at once.  ack = FALSE:  *)
(* it committed, but the connection broke before the service heard of it;  *)
(* the catch block answers with the error.                                 *)
Commit(w, o, ack) ==
  LET b == req[w].id IN
  /\ bookings' = [bookings EXCEPT ![b] = tx[w].row]
  /\ pins' = IF tx[w].pin = NoPin THEN pins ELSE [pins EXCEPT ![b] = tx[w].pin]
  /\ fxLocks' = IF tx[w].lock = "NONE" THEN fxLocks ELSE [fxLocks EXCEPT ![b] = tx[w].lock]
  /\ audit' = [audit EXCEPT ![b][tx[w].event] = @ + 1]
  /\ Reply(w, IF ack THEN Success(w, o, b) ELSE Refusal("ERROR"))
  /\ UNCHANGED outside

(* Mutant of RequestFails: the catch block forgets the ROLLBACK, and the   *)
(* client goes back to the pool inside its transaction.                    *)
FailWithoutRollback(w) ==
  /\ pc[w] # "idle"
  /\ tx[w].state # "aborted"
  /\ Goto(w, "idle")
  /\ answer' = [answer EXCEPT ![w] = Refusal("ERROR")]
  /\ UNCHANGED <<tables, outside, req, tx>>

(* A statement, a call or the process fails: whatever the request had      *)
(* staged is rolled back, by its catch block or by the server.             *)
RequestFails(w) ==
  /\ pc[w] # "idle"
  /\ tx[w].state # "aborted"
  /\ Reply(w, Refusal("ERROR"))
  /\ UNCHANGED <<tables, outside>>

(* The TTL sweeper the offer tables are indexed for deletes an offer       *)
(* snapshot; its components and policy go with it (ON DELETE CASCADE).     *)
PruneOffer(o) ==
  /\ o \in offers
  /\ offers' = offers \ {o}
  /\ UNCHANGED <<tables, reserved, pc, req, tx, answer>>

(* A payment, cancellation or refund flow outside this code moves a        *)
(* booking's status; it waits for a row lock like any other UPDATE.        *)
MoveStatus(b, s) ==
  /\ <<bookings[b].status, s>> \in ExternalMoves
  /\ bookings[b].status # s
  /\ ~RowLocked(b)
  /\ bookings' = [bookings EXCEPT ![b].status = s]
  /\ UNCHANGED <<pins, fxLocks, audit, outside, pc, req, tx, answer>>
=============================================================================
