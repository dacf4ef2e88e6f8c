-------------------------- MODULE BookingLifecycle --------------------------
(***************************************************************************)
(* The three booking services over the same tables: any mix of intake,     *)
(* confirm and supplier-book requests, each at its own await, with         *)
(* failures, lost acknowledgements, offer pruning and outside status       *)
(* changes between any two of their steps.                                 *)
(***************************************************************************)
EXTENDS BookingIntake, BookingConfirm, BookingSupplier

(* A worker takes the next request.                                        *)
Arrive(w) ==
  \/ \E k \in Keys, o \in Offers : IntakeLookup(w, k, o)
  \/ \E b \in Ids : ConfirmLoad(w, b)
  \/ \E b \in Ids : SupplierLoad(w, b)

(* The request a worker has in hand goes on.                               *)
Proceed(w) == IntakeStep(w) \/ ConfirmStep(w) \/ SupplierStep(w)

Outside ==
  \/ \E o \in Offers : PruneOffer(o)
  \/ \E b \in Ids, s \in Terminal \cup {"PENDING_PAYMENT"} : MoveStatus(b, s)

Next == (\E w \in Workers : Arrive(w) \/ Proceed(w) \/ RequestFails(w)) \/ Outside

Spec == Init /\ [][Next]_vars

(* The statements that wait for another transaction.                       *)
Waits(w) ==
  \/ \E r \in Refs : InsertInitiated(w, r) \/ IdempotencyRaceLost(w, r)
  \/ MarkConfirmed(w)
  \/ RecordSupplierBooking(w)

(* The event loop runs every continuation that is ready, and the database  *)
(* and the outbound calls answer or time out.  A statement that waits is   *)
(* queued: Postgres hands a row lock to its waiters in turn, so one that   *)
(* is free again and again is not missed for ever.                         *)
Fairness == \A w \in Workers : WF_vars(Proceed(w)) /\ SF_vars(Waits(w))

FairSpec == Spec /\ Fairness
-----------------------------------------------------------------------------
(* A booking intake made is CONFIRMED only with the header of the very     *)
(* offer it was made from, and with all of that offer's components and its *)
(* policy unless the offer was pruned; whatever was pinned or locked       *)
(* belongs to a booking that is, or was, CONFIRMED.                        *)
ConfirmedTruth ==
  \A b \in Ids \ Legacy :
    /\ bookings[b].status = "CONFIRMED" => pins[b] # NoPin
    /\ pins[b] # NoPin =>
         /\ pins[b].offer = bookings[b].offer
         /\ pins[b].offer \in offers => pins[b].components /\ pins[b].policy
         /\ bookings[b].status \notin Open \cup {"ABSENT"}
    /\ fxLocks[b] # "NONE" => pins[b] # NoPin

(* The audit log has each event exactly once, and has it exactly when the  *)
(* tables show what it reports.                                            *)
AuditExactlyOnce ==
  \A b \in Ids :
    /\ audit[b]["BOOKING_CREATED"] = IF Exists(b) /\ b \notin Legacy THEN 1 ELSE 0
    /\ audit[b]["BOOKING_CONFIRMED"] = IF pins[b] # NoPin THEN 1 ELSE 0
    /\ audit[b]["BOOKING_SUPPLIER_BOOKED"] = IF bookings[b].supplier THEN 1 ELSE 0

(* However many POSTs carry an idempotency key, and however their          *)
(* transactions interleave, one booking comes of it, under a reference of  *)
(* its own.                                                                *)
OneBookingPerKey ==
  \A b, c \in Ids \ Legacy :
    Exists(b) /\ Exists(c) /\ b # c =>
      bookings[b].key # bookings[c].key /\ bookings[b].ref # bookings[c].ref

(* A booking carries a supplier reference only if the supplier holds the   *)
(* reservation.                                                            *)
SupplierRefIsReal == \A b \in Ids : bookings[b].supplier => b \in reserved

(* An answer keeps telling the truth after it is given, whatever other     *)
(* requests and outside flows do: the booking it names is there under the  *)
(* key that was posted, was pinned, or carries its supplier reference.     *)
AnswersAreDurable ==
  \A w \in Workers :
    LET a == answer[w] IN
    /\ a.outcome \in {"CREATED", "REPLAYED"} => Exists(a.id) /\ bookings[a.id].key = a.key
    /\ a.outcome = "CONFIRMED" => pins[a.id] # NoPin
    /\ a.outcome = "ALREADY_CONFIRMED" => pins[a.id] # NoPin \/ a.id \in Legacy
    /\ a.outcome \in {"SUPPLIER_BOOKED", "SUPPLIER_REPLAYED"} => bookings[a.id].supplier

(* The fxOutcome a confirmation was answered with is the lock that is      *)
(* stored: a confirm that lost the race never reports its own decision,    *)
(* and the winner's is not overwritten.                                    *)
LockMatchesAnswer ==
  \A w \in Workers :
    answer[w].outcome = "CONFIRMED" =>
      fxLocks[answer[w].id] = LockRow(answer[w].fx)

(* Of the requests that raced to create, confirm or supplier-book a        *)
(* booking, at most one is told that it did.                               *)
OneWinner ==
  \A v, w \in Workers :
    /\ v # w /\ answer[v].outcome = answer[w].outcome /\ answer[v].id = answer[w].id
    => answer[v].outcome \notin {"CREATED", "CONFIRMED", "SUPPLIER_BOOKED"}

(* What was pinned, locked or audited is never changed or taken back; a    *)
(* booking is never deleted, and keeps its offer, key and reference.       *)
WriteOnce ==
  \A b \in Ids :
    /\ pins[b] # NoPin => pins'[b] = pins[b] /\ fxLocks'[b] = fxLocks[b]
    /\ \A e \in Events : audit'[b][e] >= audit[b][e]
    /\ Exists(b) => /\ Exists(b)'
                    /\ bookings'[b].key = bookings[b].key
                    /\ bookings'[b].ref = bookings[b].ref
                    /\ bookings'[b].offer = bookings[b].offer
    /\ bookings[b].supplier => bookings'[b].supplier

TruthIsWriteOnce == [][WriteOnce]_vars

(* No request waits for ever: whatever row locks and pending inserts it    *)
(* meets, it is answered.                                                  *)
EveryRequestAnswered == \A w \in Workers : pc[w] # "idle" ~> pc[w] = "idle"

(* The whole of it implements the abstract specification.                  *)
Truth == INSTANCE BookingTruth
           WITH bookings <- bookings, pins <- pins, fxLocks <- fxLocks, audit <- audit

ImplementsTruth == Truth!Spec
-----------------------------------------------------------------------------
(* What the repository says of this code and a run refutes.                *)

(* BookingRepository.insertInitiated: on a reference collision "the        *)
(* service retries with a fresh reference".                                *)
ReferenceCollisionIsRetried ==
  [][\A w \in Workers : tx[w].state = "aborted" => answer'[w].outcome # "ERROR"]_vars
=============================================================================
