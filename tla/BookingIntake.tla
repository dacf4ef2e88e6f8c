--------------------------- MODULE BookingIntake ----------------------------
(***************************************************************************)
(* BookingIntakeService.create: POST a priced offer, get an INITIATED      *)
(* booking, or the one an earlier POST with the same idempotency key made. *)
(***************************************************************************)
EXTENDS BookingStore

(* An id no row has and no request has drawn: ULIDs do not repeat.         *)
Fresh(b) == ~Exists(b) /\ \A v \in Workers : req[v].id # b

(* The idempotency lookup, on the pool, before any transaction.  A key     *)
(* found is answered with its booking whatever the new body says.  The id  *)
(* is drawn here once; the code draws one per attempt, and an attempt that *)
(* fails leaves none behind.                                               *)
IntakeLookup(w, k, o) ==
  /\ pc[w] = "idle"
  /\ IF KeyTaken(k)
     THEN \E b \in Ids : /\ Exists(b) /\ bookings[b].key = k
                         /\ ReplyAtOnce(w, [NoAnswer EXCEPT !.outcome = "REPLAYED", !.id = b,
                                                            !.key = k])
     ELSE \E b \in Ids :
            /\ Fresh(b)
            /\ Begin(w, "intake_insert", [NoRequest EXCEPT !.id = b, !.key = k, !.offer = o])
  /\ UNCHANGED <<tables, outside>>

InitiatedRow(w, r) ==
  [key |-> req[w].key, ref |-> r, offer |-> req[w].offer,
   status |-> "INITIATED", priced |-> TRUE, supplier |-> FALSE]

(* Mutant of InsertInitiated: no unique index on the idempotency key, the  *)
(* lookup alone is relied on.                                              *)
InsertUnindexed(w, r) ==
  /\ pc[w] = "intake_insert" /\ tx[w].state = "none"
  /\ ~RefTaken(r)
  /\ Stage(w, [NoTx EXCEPT !.state = "open", !.row = InitiatedRow(w, r),
                           !.event = "BOOKING_CREATED"])
  /\ Goto(w, "intake_commit")
  /\ UNCHANGED <<tables, outside, req, answer>>

(* BEGIN, INSERT and the audit event.  Postgres checks the unique index on *)
(* the reference before the one on the key, in the order of their creation.*)
InsertInitiated(w, r) ==
  /\ pc[w] = "intake_insert" /\ tx[w].state = "none"
  /\ ~InsertPending(req[w].key, r)
  /\ ~RefTaken(r) /\ ~KeyTaken(req[w].key)
  /\ Stage(w, [NoTx EXCEPT !.state = "open", !.row = InitiatedRow(w, r),
                           !.event = "BOOKING_CREATED"])
  /\ Goto(w, "intake_commit")
  /\ UNCHANGED <<tables, outside, req, answer>>

(* The reference is another booking's: the INSERT fails, which aborts the  *)
(* transaction, and the loop goes round for another attempt.               *)
ReferenceCollision(w, r) ==
  /\ pc[w] = "intake_insert" /\ tx[w].state = "none"
  /\ RefTaken(r)
  /\ Stage(w, [NoTx EXCEPT !.state = "aborted"])
  /\ UNCHANGED <<tables, outside, pc, req, answer>>

(* The next attempt has a fresh reference, but the same transaction: the   *)
(* server refuses the INSERT (25P02), which is no unique violation, so the *)
(* catch block rolls back and the request fails.  Attempts three to five,  *)
(* and the error that gives up after them, are never reached.              *)
RetryInsert(w) ==
  /\ pc[w] = "intake_insert" /\ tx[w].state = "aborted"
  /\ Reply(w, Refusal("ERROR"))
  /\ UNCHANGED <<tables, outside>>

(* A concurrent intake with this key committed first.  ROLLBACK, then look *)
(* the winner up.                                                          *)
IdempotencyRaceLost(w, r) ==
  /\ pc[w] = "intake_insert" /\ tx[w].state = "none"
  /\ ~InsertPending(req[w].key, r)
  /\ ~RefTaken(r) /\ KeyTaken(req[w].key)
  /\ Goto(w, "intake_reread")
  /\ UNCHANGED <<tables, outside, req, tx, answer>>

(* The winner is there: no row is ever deleted.                            *)
RereadWinner(w) ==
  /\ pc[w] = "intake_reread"
  /\ \E b \in Ids : /\ Exists(b) /\ bookings[b].key = req[w].key
                 /\ Reply(w, Success(w, "REPLAYED", b))
  /\ UNCHANGED <<tables, outside>>

CommitIntake(w) == pc[w] = "intake_commit" /\ \E ack \in BOOLEAN : Commit(w, "CREATED", ack)

IntakeStep(w) ==
  \/ \E r \in Refs : InsertInitiated(w, r) \/ ReferenceCollision(w, r) \/ IdempotencyRaceLost(w, r)
  \/ RetryInsert(w)
  \/ RereadWinner(w)
  \/ CommitIntake(w)
=============================================================================
