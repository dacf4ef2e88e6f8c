-------------------------- MODULE BookingSupplier ---------------------------
(***************************************************************************)
(* BookingSupplierService.supplierBook: reserve with the supplier, then    *)
(* record its reference on the booking.                                    *)
(***************************************************************************)
EXTENDS BookingStore

SupplierLoad(w, b) ==
  LET row == bookings[b] IN
  /\ pc[w] = "idle"
  /\ \/ /\ row.status = "ABSENT"
        /\ ReplyAtOnce(w, Refusal("NOT_FOUND"))
     \/ /\ row.supplier
        /\ ReplyAtOnce(w, [NoAnswer EXCEPT !.outcome = "SUPPLIER_REPLAYED", !.id = b])
     \/ /\ row.status # "ABSENT" /\ ~row.supplier
        /\ row.status \in Terminal \/ ~row.priced
        /\ ReplyAtOnce(w, Refusal("REFUSED"))
     \/ /\ row.status \notin Terminal /\ ~row.supplier /\ row.priced
        /\ Begin(w, "resolve_ingredients", [NoRequest EXCEPT !.id = b, !.offer = row.offer])
  /\ UNCHANGED <<tables, outside>>

(* The hotel and rate to reserve come from the pinned offer, or, before    *)
(* confirmation, from the live one.                                        *)
ResolveIngredients(w) ==
  /\ pc[w] = "resolve_ingredients"
  /\ \/ /\ pins[req[w].id] # NoPin \/ req[w].offer \in offers
        /\ Goto(w, "adapter_book")
        /\ UNCHANGED <<req, tx, answer>>
     \/ /\ pins[req[w].id] = NoPin /\ req[w].offer \notin offers
        /\ Reply(w, Refusal("REFUSED"))
  /\ UNCHANGED <<tables, outside>>

(* Mutant of AdapterBook: an adapter that books nothing is taken at its    *)
(* word.                                                                   *)
AdapterBookSkipped(w) ==
  /\ pc[w] = "adapter_book"
  /\ Goto(w, "record_supplier")
  /\ UNCHANGED <<tables, outside, req, tx, answer>>

(* The outbound call, before any transaction.  Its idempotency key is the  *)
(* booking's, so a repeated call reaches the same reservation.             *)
AdapterBook(w) ==
  /\ pc[w] = "adapter_book"
  /\ reserved' = reserved \cup {req[w].id}
  /\ Goto(w, "record_supplier")
  /\ UNCHANGED <<tables, offers, req, tx, answer>>

(* Mutant of RecordSupplierBooking: the UPDATE does not ask whether a      *)
(* reference is there already.                                             *)
RecordAgain(w) ==
  LET row == bookings[req[w].id] IN
  /\ pc[w] = "record_supplier"
  /\ ~RowLocked(req[w].id)
  /\ row.status \notin Terminal
  /\ Stage(w, [NoTx EXCEPT !.state = "open", !.row = [row EXCEPT !.supplier = TRUE],
                           !.event = "BOOKING_SUPPLIER_BOOKED"])
  /\ Goto(w, "supplier_commit")
  /\ UNCHANGED <<tables, outside, req, answer>>

(* Mutant of RecordSupplierBooking: the status read before the supplier    *)
(* call is trusted.                                                        *)
RecordOnTerminal(w) ==
  LET row == bookings[req[w].id] IN
  /\ pc[w] = "record_supplier"
  /\ ~RowLocked(req[w].id)
  /\ ~row.supplier
  /\ Stage(w, [NoTx EXCEPT !.state = "open", !.row = [row EXCEPT !.supplier = TRUE],
                           !.event = "BOOKING_SUPPLIER_BOOKED"])
  /\ Goto(w, "supplier_commit")
  /\ UNCHANGED <<tables, outside, req, answer>>

(* BEGIN, the conditional UPDATE and the audit event.  The status stays as *)
(* it is.  When the booking is terminal or has its reference by now, no    *)
(* row matches and the transaction is rolled back.                         *)
RecordSupplierBooking(w) ==
  LET row == bookings[req[w].id] IN
  /\ pc[w] = "record_supplier"
  /\ ~RowLocked(req[w].id)
  /\ \/ /\ row.status \notin Terminal /\ ~row.supplier
        /\ Stage(w, [NoTx EXCEPT !.state = "open", !.row = [row EXCEPT !.supplier = TRUE],
                                 !.event = "BOOKING_SUPPLIER_BOOKED"])
        /\ Goto(w, "supplier_commit")
     \/ /\ row.status \in Terminal \/ row.supplier
        /\ Goto(w, "supplier_reread")
        /\ UNCHANGED tx
  /\ UNCHANGED <<tables, outside, req, answer>>

(* Mutant of RereadSupplier: zero rows updated can only mean a replay.     *)
RereadAssumed(w) ==
  /\ pc[w] = "supplier_reread"
  /\ Reply(w, Success(w, "SUPPLIER_REPLAYED", req[w].id))
  /\ UNCHANGED <<tables, outside>>

RereadSupplier(w) ==
  /\ pc[w] = "supplier_reread"
  /\ Reply(w, IF bookings[req[w].id].supplier
              THEN Success(w, "SUPPLIER_REPLAYED", req[w].id) ELSE Refusal("CONFLICT"))
  /\ UNCHANGED <<tables, outside>>

(* COMMIT, then the re-read that builds the answer.                        *)
CommitSupplier(w) ==
  pc[w] = "supplier_commit" /\ \E ack \in BOOLEAN : Commit(w, "SUPPLIER_BOOKED", ack)

SupplierStep(w) ==
  \/ ResolveIngredients(w)
  \/ AdapterBook(w)
  \/ RecordSupplierBooking(w)
  \/ RereadSupplier(w)
  \/ CommitSupplier(w)
=============================================================================
