-------------------------- MODULE BookingInvariant --------------------------
(***************************************************************************)
(* The inductive invariant of BookingLifecycle: what a request at each of  *)
(* its awaits may rely on in the tables, and what keeps two requests out   *)
(* of each other's way.                                                    *)
(***************************************************************************)
EXTENDS BookingLifecycle

(* A request between its UPDATE or INSERT and its COMMIT.                  *)
HoldsRow(w) ==
  pc[w] \in {"intake_commit", "pin_offer", "pin_components", "pin_policy", "confirm_commit",
             "supplier_commit"}

Pinning(w) == pc[w] \in {"pin_offer", "pin_components", "pin_policy", "confirm_commit"}

(* A row is either legacy, and carries none of the intake columns, or was  *)
(* written by intake, and carries them all.                                *)
RowInv(b) ==
  /\ b \in Legacy => /\ bookings[b] = LegacyRow(bookings[b].status)
                     /\ Exists(b)
                     /\ pins[b] = NoPin
  /\ b \notin Legacy => \/ bookings[b] = NoRow
                        \/ /\ Exists(b) /\ bookings[b].priced
                           /\ bookings[b].key \in Keys
                           /\ bookings[b].ref \in Refs
                           /\ bookings[b].offer \in Offers

(* The transaction a request has open, if any.                             *)
TxInv(w) ==
  /\ ~HoldsRow(w) => \/ tx[w] = NoTx
                     \/ pc[w] = "intake_insert" /\ tx[w] = [NoTx EXCEPT !.state = "aborted"]
  /\ HoldsRow(w) => tx[w].state = "open"
  /\ pc[w] \in {"intake_commit", "supplier_commit"} => tx[w].pin = NoPin /\ tx[w].lock = "NONE"

(* An intake: its id is still free, and at COMMIT so are key and reference.*)
IntakeInv(w) ==
  LET b == req[w].id IN
  /\ pc[w] \in IntakeSteps => /\ bookings[b] = NoRow
                              /\ req[w].key \in Keys
                              /\ req[w].offer \in Offers
  /\ pc[w] = "intake_commit" => /\ tx[w].event = "BOOKING_CREATED"
                                /\ ~KeyTaken(req[w].key)
                                /\ tx[w].row.ref \in Refs
                                /\ ~RefTaken(tx[w].row.ref)
                                /\ tx[w].row = InitiatedRow(w, tx[w].row.ref)

(* A confirmation: from its UPDATE to its COMMIT the booking stays open,   *)
(* and what it staged is the booking's own offer.                          *)
ConfirmInv(w) ==
  LET b == req[w].id IN
  /\ pc[w] \in ConfirmSteps => bookings[b].priced /\ req[w].offer = bookings[b].offer
  /\ Pinning(w) => /\ bookings[b].status \in Open
                   /\ tx[w].row = [bookings[b] EXCEPT !.status = "CONFIRMED"]
  /\ pc[w] = "pin_offer" => tx[w].pin = NoPin
  /\ pc[w] \in {"pin_components", "pin_policy", "confirm_commit"} =>
       tx[w].pin.offer = req[w].offer
  /\ pc[w] \in {"pin_policy", "confirm_commit"} =>
       (req[w].offer \in offers => tx[w].pin.components)
  /\ pc[w] = "confirm_commit" => /\ req[w].offer \in offers => tx[w].pin.policy
                                 /\ tx[w].lock = LockRow(req[w].decision)
                                 /\ tx[w].event = "BOOKING_CONFIRMED"

(* A supplier booking: the reservation is made before it is recorded.      *)
SupplierInv(w) ==
  LET b == req[w].id IN
  /\ pc[w] \in SupplierSteps => bookings[b].priced
  /\ pc[w] \in {"record_supplier", "supplier_commit"} => b \in reserved
  /\ pc[w] = "supplier_commit" => /\ tx[w].event = "BOOKING_SUPPLIER_BOOKED"
                                  /\ ~bookings[b].supplier
                                  /\ bookings[b].status \notin Terminal
                                  /\ tx[w].row = [bookings[b] EXCEPT !.supplier = TRUE]

RequestInv(w) ==
  /\ pc[w] = "idle" => req[w] = NoRequest
  /\ pc[w] # "idle" => req[w].id \in Ids /\ answer[w] = NoAnswer
  /\ TxInv(w) /\ IntakeInv(w) /\ ConfirmInv(w) /\ SupplierInv(w)

(* A fresh id is drawn once; one transaction holds a row; two inserts in   *)
(* flight differ in key and reference.                                     *)
Exclusive(v, w) ==
  /\ pc[v] \in IntakeSteps => req[v].id # req[w].id
  /\ HoldsRow(v) /\ HoldsRow(w) => req[v].id # req[w].id
  /\ pc[v] = "intake_commit" /\ pc[w] = "intake_commit" =>
       tx[v].row.key # tx[w].row.key /\ tx[v].row.ref # tx[w].row.ref

(* All of it together is inductive: what the tables, the audit log and the *)
(* answers show holds because of what every request in flight relies on.   *)
Inductive ==
  /\ TypeOK
  /\ \A b \in Ids : RowInv(b)
  /\ \A w \in Workers : RequestInv(w)
  /\ \A v, w \in Workers : v # w => Exclusive(v, w)
  /\ ConfirmedTruth
  /\ AuditExactlyOnce
  /\ OneBookingPerKey
  /\ SupplierRefIsReal
=============================================================================
