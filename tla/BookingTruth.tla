---------------------------- MODULE BookingTruth ----------------------------
(***************************************************************************)
(* What the booking services promise together, with no request, lock or    *)
(* transaction in sight: each of the four tables changes only in one of    *)
(* four whole steps.  A confirmation is indivisible: status, booking-time  *)
(* pin, FX lock and audit event appear together or not at all.             *)
(***************************************************************************)
EXTENDS Naturals

CONSTANTS Ids, Legacy, Keys, Refs, Offers, NoKey, NoRef, NoOffer

VARIABLES bookings, pins, fxLocks, audit

vars == <<bookings, pins, fxLocks, audit>>

Open == {"INITIATED", "PENDING_PAYMENT"}

Absent == [key |-> NoKey, ref |-> NoRef, offer |-> NoOffer,
           status |-> "ABSENT", priced |-> FALSE, supplier |-> FALSE]

Unpinned == [offer |-> NoOffer, components |-> FALSE, policy |-> FALSE]

Init ==
  /\ bookings \in [Ids -> {Absent} \cup
                          {[Absent EXCEPT !.status = s] : s \in {"INITIATED", "CONFIRMED"}}]
  /\ \A b \in Ids : bookings[b] = Absent <=> b \notin Legacy
  /\ pins = [b \in Ids |-> Unpinned]
  /\ fxLocks = [b \in Ids |-> "NONE"]
  /\ audit = [b \in Ids |-> [e \in {"BOOKING_CREATED", "BOOKING_CONFIRMED",
                                    "BOOKING_SUPPLIER_BOOKED"} |-> 0]]

(* An event is recorded by the step it reports, and was not before.        *)
Record(b, e) == audit[b][e] = 0 /\ audit' = [audit EXCEPT ![b][e] = 1]

(* Neither the key nor the reference is any other booking's.               *)
Create(b) ==
  /\ bookings[b] = Absent
  /\ Record(b, "BOOKING_CREATED")
  /\ \E k \in Keys, r \in Refs, o \in Offers :
       /\ \A c \in Ids : bookings[c].key # k /\ bookings[c].ref # r
       /\ bookings' = [bookings EXCEPT ![b] = [key |-> k, ref |-> r, offer |-> o,
                                               status |-> "INITIATED", priced |-> TRUE,
                                               supplier |-> FALSE]]
  /\ UNCHANGED <<pins, fxLocks>>

(* A priced open booking is confirmed once, with the header of the offer   *)
(* it was made from and at most one lock.                                  *)
Confirm(b) ==
  /\ bookings[b].status \in Open /\ bookings[b].priced
  /\ pins[b] = Unpinned /\ fxLocks[b] = "NONE"
  /\ Record(b, "BOOKING_CONFIRMED")
  /\ bookings' = [bookings EXCEPT ![b].status = "CONFIRMED"]
  /\ \E c, p \in BOOLEAN :
       pins' = [pins EXCEPT ![b] = [offer |-> bookings[b].offer, components |-> c, policy |-> p]]
  /\ \E lock \in {"NONE", "STRIPE_FX_QUOTE", "SNAPSHOT_REFERENCE"} :
       fxLocks' = [fxLocks EXCEPT ![b] = lock]

RecordSupplier(b) ==
  /\ bookings[b].priced /\ ~bookings[b].supplier
  /\ bookings[b].status \in Open \cup {"CONFIRMED"}
  /\ Record(b, "BOOKING_SUPPLIER_BOOKED")
  /\ bookings' = [bookings EXCEPT ![b].supplier = TRUE]
  /\ UNCHANGED <<pins, fxLocks>>

(* Outside flows never reopen, confirm, create or delete.                  *)
MoveStatus(b) ==
  /\ bookings[b].status # "ABSENT"
  /\ \E s \in {"PENDING_PAYMENT", "CANCELLED", "FAILED", "REFUNDED"} :
       /\ s = "PENDING_PAYMENT" => bookings[b].status \in Open
       /\ bookings' = [bookings EXCEPT ![b].status = s]
  /\ UNCHANGED <<pins, fxLocks, audit>>

Next == \E b \in Ids : Create(b) \/ Confirm(b) \/ RecordSupplier(b) \/ MoveStatus(b)

Spec == Init /\ [][Next]_vars
=============================================================================
