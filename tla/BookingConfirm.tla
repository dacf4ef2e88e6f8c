--------------------------- MODULE BookingConfirm ---------------------------
(***************************************************************************)
(* BookingService.confirm: decide on an FX lock, then, in one transaction, *)
(* flip the status, pin the booking-time truth, store the lock and write   *)
(* the audit event.                                                        *)
(***************************************************************************)
EXTENDS BookingStore

(* The first read.  The columns a confirmation needs never change once     *)
(* set, so of all it read the request keeps the offer.                     *)
ConfirmLoad(w, b) ==
  LET row == bookings[b] IN
  /\ pc[w] = "idle"
  /\ \/ /\ row.status = "ABSENT"
        /\ ReplyAtOnce(w, Refusal("NOT_FOUND"))
     \/ /\ row.status = "CONFIRMED"
        /\ ReplyAtOnce(w, [NoAnswer EXCEPT !.outcome = "ALREADY_CONFIRMED", !.id = b])
     \/ /\ row.status \in Terminal \/ (row.status \in Open /\ (~row.priced \/ row.offer = NoOffer))
        /\ ReplyAtOnce(w, Refusal("REFUSED"))
     \/ /\ row.status \in Open /\ row.priced /\ row.offer # NoOffer
        /\ Begin(w, "fx_decide", [NoRequest EXCEPT !.id = b, !.offer = row.offer])
  /\ UNCHANGED <<tables, outside>>

(* Same currency, a Stripe FX quote, or a reference-rate snapshot; taken   *)
(* before BEGIN, since resolving may call Stripe.                          *)
FxDecide(w) ==
  /\ pc[w] = "fx_decide"
  /\ \E d \in Decisions : req' = [req EXCEPT ![w].decision = d]
  /\ Goto(w, "mark_confirmed")
  /\ UNCHANGED <<tables, outside, tx, answer>>

(* Mutant of MarkConfirmed: zero rows updated is taken for success.        *)
MarkConfirmedUnchecked(w) ==
  LET b == req[w].id IN
  /\ pc[w] = "mark_confirmed"
  /\ ~RowLocked(b)
  /\ IF bookings[b].status \in Open
     THEN /\ Stage(w, [NoTx EXCEPT !.state = "open",
                                   !.row = [bookings[b] EXCEPT !.status = "CONFIRMED"]])
          /\ Goto(w, "pin_offer")
          /\ UNCHANGED <<req, answer>>
     ELSE Reply(w, Success(w, "CONFIRMED", b))
  /\ UNCHANGED <<tables, outside>>

(* Mutant of MarkConfirmed: an unconditional UPDATE.                       *)
MarkConfirmedBlindly(w) ==
  /\ pc[w] = "mark_confirmed"
  /\ ~RowLocked(req[w].id)
  /\ Stage(w, [NoTx EXCEPT !.state = "open",
                           !.row = [bookings[req[w].id] EXCEPT !.status = "CONFIRMED"]])
  /\ Goto(w, "pin_offer")
  /\ UNCHANGED <<tables, outside, req, answer>>

(* BEGIN and the conditional UPDATE; no row matches a status that moved on.*)
MarkConfirmed(w) ==
  LET b == req[w].id IN
  /\ pc[w] = "mark_confirmed"
  /\ ~RowLocked(b)
  /\ \/ /\ bookings[b].status \in Open
        /\ Stage(w, [NoTx EXCEPT !.state = "open",
                                 !.row = [bookings[b] EXCEPT !.status = "CONFIRMED"]])
        /\ Goto(w, "pin_offer")
        /\ UNCHANGED <<req, answer>>
     \/ /\ bookings[b].status \notin Open
        /\ Reply(w, Refusal("CONFLICT"))
  /\ UNCHANGED <<tables, outside>>

(* Mutant of PinOffer: confirms although the offer is gone.                *)
PinOfferIfFound(w) ==
  /\ pc[w] = "pin_offer"
  /\ Stage(w, IF req[w].offer \in offers
              THEN [tx[w] EXCEPT !.pin.offer = req[w].offer] ELSE tx[w])
  /\ Goto(w, "pin_components")
  /\ UNCHANGED <<tables, outside, req, answer>>

(* Read the live offer snapshot and copy its header; without it roll back. *)
PinOffer(w) ==
  /\ pc[w] = "pin_offer"
  /\ \/ /\ req[w].offer \in offers
        /\ Stage(w, [tx[w] EXCEPT !.pin.offer = req[w].offer])
        /\ Goto(w, "pin_components")
        /\ UNCHANGED <<req, answer>>
     \/ /\ req[w].offer \notin offers
        /\ Reply(w, Refusal("CONFLICT"))
  /\ UNCHANGED <<tables, outside>>

(* A lock row is written only for a decision that commits to a rate.       *)
LockRow(d) == IF d \in LockKinds THEN d ELSE "NONE"

(* Each of the next two statements reads the offer's children afresh, and  *)
(* finding none is no error.                                               *)
PinComponents(w) ==
  /\ pc[w] = "pin_components"
  /\ Stage(w, [tx[w] EXCEPT !.pin.components = req[w].offer \in offers])
  /\ Goto(w, "pin_policy")
  /\ UNCHANGED <<tables, outside, req, answer>>

(* The policy, then the lock that was decided on, then the audit event.    *)
PinPolicyAndLock(w) ==
  /\ pc[w] = "pin_policy"
  /\ Stage(w, [tx[w] EXCEPT !.pin.policy = req[w].offer \in offers,
                            !.lock = LockRow(req[w].decision),
                            !.event = "BOOKING_CONFIRMED"])
  /\ Goto(w, "confirm_commit")
  /\ UNCHANGED <<tables, outside, req, answer>>

CommitConfirm(w) == pc[w] = "confirm_commit" /\ \E ack \in BOOLEAN : Commit(w, "CONFIRMED", ack)

ConfirmStep(w) ==
  \/ FxDecide(w)
  \/ MarkConfirmed(w)
  \/ PinOffer(w)
  \/ PinComponents(w)
  \/ PinPolicyAndLock(w)
  \/ CommitConfirm(w)
=============================================================================
