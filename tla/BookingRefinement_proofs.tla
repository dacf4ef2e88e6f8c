---------------------- MODULE BookingRefinement_proofs ----------------------
(***************************************************************************)
(* What a request was told stays true: the tables are written once, and    *)
(* the answers only name what was written.  And each step of the booking   *)
(* services is, on the four tables, one step of BookingTruth or none.      *)
(***************************************************************************)
EXTENDS BookingLifecycle_proofs

LEMMA CommitWritesOnce ==
  ASSUME Inductive, NEW w \in Workers, Committing(w), NEW o, NEW ack, Commit(w, o, ack)
  PROVE  WriteOnce
<1> DEFINE b == req[w].id
           row == tx[w].row
           e == tx[w].event
<1>1. /\ b \in Ids /\ e \in Events
      /\ bookings'[b] = row
      /\ pins'[b] = IF tx[w].pin = NoPin THEN pins[b] ELSE tx[w].pin
      /\ fxLocks'[b] = IF tx[w].lock = "NONE" THEN fxLocks[b] ELSE tx[w].lock
      /\ audit'[b][e] = audit[b][e] + 1
      /\ \A f \in Events \ {e} : audit'[b][f] = audit[b][f]
      /\ \A c \in Ids \ {b} : /\ bookings'[c] = bookings[c] /\ pins'[c] = pins[c]
                            /\ fxLocks'[c] = fxLocks[c] /\ audit'[c] = audit[c]
  BY CommitEffect
<1>2. /\ row.status # "ABSENT"
      /\ pc[w] = "intake_commit" => bookings[b] = NoRow
      /\ pc[w] # "intake_commit" => /\ row.key = bookings[b].key
                                    /\ row.ref = bookings[b].ref
                                    /\ row.offer = bookings[b].offer
  BY CommittedRow
<1>3. /\ pc[w] = "intake_commit" => pins[b] = NoPin
      /\ pc[w] = "confirm_commit" => pins[b] = NoPin /\ row.supplier = bookings[b].supplier
      /\ pc[w] = "supplier_commit" => /\ tx[w].pin = NoPin /\ tx[w].lock = "NONE"
                                      /\ row.supplier
  BY CommitKinds
<1>4. \A c \in Ids, f \in Events : audit[c][f] \in Nat
  BY DEF Inductive, TypeOK
<1>5. pc[w] \in {"intake_commit", "confirm_commit", "supplier_commit"}
  BY DEF Committing
<1> HIDE DEF b, row, e
<1> SUFFICES ASSUME NEW c \in Ids
             PROVE  /\ pins[c] # NoPin => pins'[c] = pins[c] /\ fxLocks'[c] = fxLocks[c]
                    /\ \A f \in Events : audit'[c][f] >= audit[c][f]
                    /\ bookings[c].status # "ABSENT" =>
                         /\ bookings'[c].status # "ABSENT"
                         /\ bookings'[c].key = bookings[c].key
                         /\ bookings'[c].ref = bookings[c].ref
                         /\ bookings'[c].offer = bookings[c].offer
                    /\ bookings[c].supplier => bookings'[c].supplier
  BY DEF WriteOnce, Exists
<1>6. \A f \in Events : audit'[c][f] >= audit[c][f]
  BY <1>1, <1>4
<1>7. CASE c # b
  BY <1>1, <1>6, <1>7
<1>8. CASE c = b
  BY <1>1, <1>2, <1>3, <1>5, <1>6, <1>8 DEF NoRow
<1> QED
  BY <1>7, <1>8

LEMMA QuietWritesOnce ==
  ASSUME Inductive, UNCHANGED tables
  PROVE  WriteOnce
<1>1. \A c \in Ids, f \in Events : audit[c][f] \in Nat
  BY DEF Inductive, TypeOK
<1> QED
  BY <1>1 DEF tables, WriteOnce, Exists

LEMMA MoveWritesOnce ==
  ASSUME Inductive, NEW b \in Ids, NEW s \in Terminal \cup {"PENDING_PAYMENT"}, MoveStatus(b, s)
  PROVE  WriteOnce
<1> DEFINE row == [bookings[b] EXCEPT !.status = s]
<1>1. TypeOK /\ bookings[b] \in Row
  BY DEF Inductive, TypeOK
<1>2. bookings' = [bookings EXCEPT ![b] = row] /\ UNCHANGED <<pins, fxLocks, audit>>
  BY DEF MoveStatus
<1>3. /\ row.status # "ABSENT" /\ row.key = bookings[b].key /\ row.ref = bookings[b].ref
      /\ row.offer = bookings[b].offer /\ row.supplier = bookings[b].supplier
  BY <1>1 DEF Row, Terminal
<1> HIDE DEF row
<1>4. bookings'[b] = row /\ \A c \in Ids \ {b} : bookings'[c] = bookings[c]
  BY <1>1, <1>2 DEF TypeOK
<1>5. \A c \in Ids, f \in Events : audit[c][f] \in Nat
  BY <1>1 DEF TypeOK
<1> QED
  BY <1>2, <1>3, <1>4, <1>5 DEF WriteOnce, Exists

(* The steps that do not commit leave the tables alone.                    *)
LEMMA QuietProceed ==
  ASSUME NEW w \in Workers, Proceed(w),
         ~CommitIntake(w), ~CommitConfirm(w), ~CommitSupplier(w)
  PROVE  UNCHANGED tables
BY DEF Proceed, IntakeStep, ConfirmStep, SupplierStep, InsertInitiated, ReferenceCollision,
   IdempotencyRaceLost, RetryInsert, RereadWinner, FxDecide, MarkConfirmed, PinOffer,
   PinComponents, PinPolicyAndLock, ResolveIngredients, AdapterBook, RecordSupplierBooking,
   RereadSupplier

LEMMA NextWritesOnce == Inductive /\ [Next]_vars => WriteOnce
<1> SUFFICES ASSUME Inductive, [Next]_vars PROVE WriteOnce
  OBVIOUS
<1>1. ASSUME NEW w \in Workers, Proceed(w) PROVE WriteOnce
  <2>1. CASE CommitIntake(w) \/ CommitConfirm(w) \/ CommitSupplier(w)
    BY <2>1, CommitWritesOnce DEF CommitIntake, CommitConfirm, CommitSupplier, Committing
  <2>2. CASE ~CommitIntake(w) /\ ~CommitConfirm(w) /\ ~CommitSupplier(w)
    BY <1>1, <2>2, QuietProceed, QuietWritesOnce
  <2> QED
    BY <2>1, <2>2
<1>2. ASSUME NEW w \in Workers, Arrive(w) \/ RequestFails(w) PROVE WriteOnce
  <2>1. UNCHANGED tables
    BY <1>2 DEF Arrive, IntakeLookup, ConfirmLoad, SupplierLoad, RequestFails
  <2> QED
    BY <2>1, QuietWritesOnce
<1>3. ASSUME NEW o \in Offers, PruneOffer(o) PROVE WriteOnce
  BY <1>3, QuietWritesOnce DEF PruneOffer
<1>4. CASE Outside
  BY <1>3, <1>4, MoveWritesOnce DEF Outside
<1>5. CASE UNCHANGED vars
  BY <1>5, QuietWritesOnce DEF vars, tables
<1> QED
  BY <1>1, <1>2, <1>4, <1>5 DEF Next

(* No step of any request, failure or outside flow rewrites a pin, a lock  *)
(* or an audit event, or gives a booking another key, reference or offer.  *)
THEOREM TruthIsImmutable == Spec => TruthIsWriteOnce
<1>1. Spec => []Inductive
  BY InductiveInvariant
<1> QED
  BY <1>1, NextWritesOnce, PTL DEF Spec, TruthIsWriteOnce
-----------------------------------------------------------------------------
(* The answers of which only one request may be told, and all that name a  *)
(* booking.                                                                *)
Winning == {"CREATED", "CONFIRMED", "SUPPLIER_BOOKED"}

Naming == Winning \cup {"REPLAYED", "ALREADY_CONFIRMED", "SUPPLIER_REPLAYED"}

AnswerInv(w) ==
  LET a == answer[w] IN
  /\ a.outcome \in Naming => a.id \in Ids
  /\ a.outcome \in {"CREATED", "REPLAYED"} => Exists(a.id) /\ bookings[a.id].key = a.key
  /\ a.outcome = "CONFIRMED" => pins[a.id] # NoPin /\ fxLocks[a.id] = LockRow(a.fx)
  /\ a.outcome = "ALREADY_CONFIRMED" => pins[a.id] # NoPin \/ a.id \in Legacy
  /\ a.outcome \in {"SUPPLIER_BOOKED", "SUPPLIER_REPLAYED"} => bookings[a.id].supplier

Answered == OneWinner /\ \A w \in Workers : AnswerInv(w)

(* An answer given earlier is not undone by a step that writes once.       *)
LEMMA AnswerKept ==
  ASSUME WriteOnce, NEW v \in Workers, AnswerInv(v), answer'[v] = answer[v]
  PROVE  AnswerInv(v)'
<1>1. answer[v].outcome \in Naming => answer[v].id \in Ids
  BY DEF AnswerInv
<1> QED
  BY <1>1 DEF AnswerInv, WriteOnce, Naming, Winning

(* A request is told something that is true already, or is refused.        *)
LEMMA TellStep ==
  ASSUME WriteOnce, Answered, TypeOK, NEW w \in Workers, NEW a,
         answer' = [answer EXCEPT ![w] = a],
         a.outcome \notin Winning,
         a.outcome \in Naming => a.id \in Ids,
         a.outcome = "REPLAYED" => Exists(a.id) /\ bookings[a.id].key = a.key,
         a.outcome = "ALREADY_CONFIRMED" => pins[a.id] # NoPin \/ a.id \in Legacy,
         a.outcome = "SUPPLIER_REPLAYED" => bookings[a.id].supplier
  PROVE  Answered'
<1>1. answer'[w] = a /\ \A v \in Workers : v # w => answer'[v] = answer[v]
  BY DEF TypeOK
<1>2. AnswerInv(w)'
  BY <1>1 DEF AnswerInv, WriteOnce, Naming, Winning
<1>3. \A v \in Workers : AnswerInv(v)'
  BY <1>1, <1>2, AnswerKept DEF Answered
<1>4. OneWinner'
  BY <1>1 DEF Answered, OneWinner, Winning
<1> QED
  BY <1>3, <1>4 DEF Answered

LEMMA SilentStep ==
  ASSUME WriteOnce, Answered, UNCHANGED answer
  PROVE  Answered'
BY AnswerKept DEF Answered, OneWinner

LEMMA RefuseStep ==
  ASSUME WriteOnce, Answered, TypeOK, NEW w \in Workers,
         NEW o \in {"NONE", "NOT_FOUND", "REFUSED", "CONFLICT", "ERROR"},
         answer' = [answer EXCEPT ![w] = Refusal(o)]
  PROVE  Answered'
<1>1. Refusal(o).outcome = o
  BY DEF Refusal, NoAnswer
<1> QED
  BY <1>1, TellStep DEF Winning, Naming

LEMMA SuccessAnswer ==
  ASSUME NEW w \in Workers, NEW o, NEW b
  PROVE  LET a == Success(w, o, b) IN
         a.outcome = o /\ a.id = b /\ a.key = req[w].key /\ a.fx = req[w].decision
BY DEF Success

LEMMA ArriveAnswers ==
  ASSUME Inductive, WriteOnce, Answered, NEW w \in Workers, Arrive(w)
  PROVE  Answered'
<1>1. TypeOK /\ ConfirmedTruth
  BY DEF Inductive
<1>2. ASSUME NEW s, NEW r, Begin(w, s, r) PROVE Answered'
  <2>1. Refusal("NONE") = NoAnswer
    BY DEF Refusal, NoAnswer
  <2> QED
    BY <1>1, <1>2, <2>1, RefuseStep DEF Begin
<1>3. ASSUME NEW o \in {"NOT_FOUND", "REFUSED"}, ReplyAtOnce(w, Refusal(o)) PROVE Answered'
  BY <1>1, <1>3, RefuseStep DEF ReplyAtOnce
<1>4. ASSUME NEW k \in Keys, NEW b \in Ids, Exists(b), bookings[b].key = k,
             ReplyAtOnce(w, [NoAnswer EXCEPT !.outcome = "REPLAYED", !.id = b, !.key = k])
      PROVE  Answered'
  <2> DEFINE a == [NoAnswer EXCEPT !.outcome = "REPLAYED", !.id = b, !.key = k]
  <2>1. a.outcome = "REPLAYED" /\ a.id = b /\ a.key = k
    BY DEF NoAnswer
  <2>2. answer' = [answer EXCEPT ![w] = a]
    BY <1>4 DEF ReplyAtOnce
  <2> HIDE DEF a
  <2> QED
    BY <1>1, <1>4, <2>1, <2>2, TellStep DEF Winning
<1>5. ASSUME NEW b \in Ids, bookings[b].status = "CONFIRMED",
             ReplyAtOnce(w, [NoAnswer EXCEPT !.outcome = "ALREADY_CONFIRMED", !.id = b])
      PROVE  Answered'
  <2> DEFINE a == [NoAnswer EXCEPT !.outcome = "ALREADY_CONFIRMED", !.id = b]
  <2>1. a.outcome = "ALREADY_CONFIRMED" /\ a.id = b
    BY DEF NoAnswer
  <2>2. answer' = [answer EXCEPT ![w] = a]
    BY <1>5 DEF ReplyAtOnce
  <2>3. pins[b] # NoPin \/ b \in Legacy
    BY <1>1, <1>5 DEF ConfirmedTruth
  <2> HIDE DEF a
  <2> QED
    BY <1>1, <2>1, <2>2, <2>3, TellStep DEF Winning
<1>6. ASSUME NEW b \in Ids, bookings[b].supplier,
             ReplyAtOnce(w, [NoAnswer EXCEPT !.outcome = "SUPPLIER_REPLAYED", !.id = b])
      PROVE  Answered'
  <2> DEFINE a == [NoAnswer EXCEPT !.outcome = "SUPPLIER_REPLAYED", !.id = b]
  <2>1. a.outcome = "SUPPLIER_REPLAYED" /\ a.id = b
    BY DEF NoAnswer
  <2>2. answer' = [answer EXCEPT ![w] = a]
    BY <1>6 DEF ReplyAtOnce
  <2> HIDE DEF a
  <2> QED
    BY <1>1, <1>6, <2>1, <2>2, TellStep DEF Winning
<1>7. ASSUME NEW k \in Keys, NEW o \in Offers, IntakeLookup(w, k, o) PROVE Answered'
  BY <1>2, <1>4, <1>7 DEF IntakeLookup
<1>8. ASSUME NEW b \in Ids, ConfirmLoad(w, b) PROVE Answered'
  BY <1>2, <1>3, <1>5, <1>8 DEF ConfirmLoad
<1>9. ASSUME NEW b \in Ids, SupplierLoad(w, b) PROVE Answered'
  BY <1>2, <1>3, <1>6, <1>9 DEF SupplierLoad
<1> QED
  BY <1>7, <1>8, <1>9 DEF Arrive

LEMMA ProceedAnswers ==
  ASSUME Inductive, WriteOnce, Answered, NEW w \in Workers, Proceed(w),
         ~CommitIntake(w), ~CommitConfirm(w), ~CommitSupplier(w)
  PROVE  Answered'
<1>1. TypeOK /\ RequestInv(w)
  BY DEF Inductive
<1>2. ASSUME NEW o \in {"REFUSED", "CONFLICT", "ERROR"}, Reply(w, Refusal(o)) PROVE Answered'
  BY <1>1, <1>2, RefuseStep DEF Reply
<1>3. CASE UNCHANGED answer
  BY <1>3, SilentStep
<1>4. CASE RereadWinner(w)
  <2>1. PICK b \in Ids : /\ Exists(b) /\ bookings[b].key = req[w].key
                         /\ Reply(w, Success(w, "REPLAYED", b))
    BY <1>4 DEF RereadWinner
  <2> DEFINE a == Success(w, "REPLAYED", b)
  <2>2. a.outcome = "REPLAYED" /\ a.id = b /\ a.key = req[w].key
    BY SuccessAnswer
  <2>3. answer' = [answer EXCEPT ![w] = a]
    BY <2>1 DEF Reply
  <2> HIDE DEF a
  <2> QED
    BY <1>1, <2>1, <2>2, <2>3, TellStep DEF Winning
<1>5. CASE RereadSupplier(w)
  <2> DEFINE a == Success(w, "SUPPLIER_REPLAYED", req[w].id)
  <2>1. a.outcome = "SUPPLIER_REPLAYED" /\ a.id = req[w].id
    BY SuccessAnswer
  <2>2. req[w].id \in Ids
    BY <1>1, <1>5 DEF RequestInv, RereadSupplier
  <2>3. CASE bookings[req[w].id].supplier
    <3>1. answer' = [answer EXCEPT ![w] = a]
      BY <1>5, <2>3 DEF RereadSupplier, Reply
    <3> HIDE DEF a
    <3> QED
      BY <1>1, <2>1, <2>2, <2>3, <3>1, TellStep DEF Winning
  <2>4. CASE ~bookings[req[w].id].supplier
    BY <1>2, <1>5, <2>4 DEF RereadSupplier
  <2> QED
    BY <2>3, <2>4
<1>6. CASE IntakeStep(w) /\ ~RereadWinner(w)
  BY <1>2, <1>3, <1>6 DEF IntakeStep, InsertInitiated, ReferenceCollision, IdempotencyRaceLost,
     RetryInsert
<1>7. CASE ConfirmStep(w)
  BY <1>2, <1>3, <1>7 DEF ConfirmStep, FxDecide, MarkConfirmed, PinOffer, PinComponents,
     PinPolicyAndLock
<1>8. CASE SupplierStep(w) /\ ~RereadSupplier(w)
  BY <1>2, <1>3, <1>8 DEF SupplierStep, ResolveIngredients, AdapterBook, RecordSupplierBooking
<1> QED
  BY <1>4, <1>5, <1>6, <1>7, <1>8 DEF Proceed

(* A COMMIT that is acknowledged names its booking; before it, nobody had  *)
(* been told to have done the same.                                        *)
LEMMA CommitAnswers ==
  ASSUME Inductive, WriteOnce, Answered, NEW w \in Workers, NEW ack \in BOOLEAN,
         NEW o, Commit(w, o, ack),
         \/ pc[w] = "intake_commit" /\ o = "CREATED"
         \/ pc[w] = "confirm_commit" /\ o = "CONFIRMED"
         \/ pc[w] = "supplier_commit" /\ o = "SUPPLIER_BOOKED"
  PROVE  Answered'
<1> DEFINE b == req[w].id
           row == tx[w].row
           a == Success(w, o, b)
<1>1. Committing(w)
  BY DEF Committing
<1>2. /\ bookings'[b] = row /\ row.status # "ABSENT" /\ b \in Ids
      /\ pins'[b] = IF tx[w].pin = NoPin THEN pins[b] ELSE tx[w].pin
      /\ fxLocks'[b] = IF tx[w].lock = "NONE" THEN fxLocks[b] ELSE tx[w].lock
  BY <1>1, CommitEffect, CommittedRow
<1>3. /\ pc[w] = "intake_commit" => bookings[b] = NoRow
      /\ pc[w] = "confirm_commit" => tx[w].pin # NoPin /\ pins[b] = NoPin /\ fxLocks[b] = "NONE"
      /\ pc[w] = "supplier_commit" => row.supplier /\ ~bookings[b].supplier
  BY <1>1, CommitKinds
<1>4. /\ TypeOK
      /\ pc[w] = "intake_commit" => row = InitiatedRow(w, row.ref)
      /\ pc[w] = "confirm_commit" => tx[w].lock = LockRow(req[w].decision)
  BY DEF Inductive, RequestInv, IntakeInv, ConfirmInv
<1>5. pc[w] = "intake_commit" => row.key = req[w].key
  BY <1>4 DEF InitiatedRow
<1>6. a.outcome = o /\ a.id = b /\ a.key = req[w].key /\ a.fx = req[w].decision
  BY SuccessAnswer
<1>7. answer' = [answer EXCEPT ![w] = IF ack THEN a ELSE Refusal("ERROR")]
  BY DEF Commit, Reply
<1> HIDE DEF a, b, row
<1>8. CASE ~ack
  BY <1>4, <1>7, <1>8, RefuseStep
<1>9. CASE ack
  <2>1. answer'[w] = a /\ \A v \in Workers : v # w => answer'[v] = answer[v]
    BY <1>4, <1>7, <1>9 DEF TypeOK
  <2>2. AnswerInv(w)'
    <3>1. CASE o = "CREATED" /\ pc[w] = "intake_commit"
      BY <1>2, <1>5, <1>6, <2>1, <3>1 DEF AnswerInv, Exists
    <3>2. CASE o = "CONFIRMED" /\ pc[w] = "confirm_commit"
      BY <1>2, <1>3, <1>4, <1>6, <2>1, <3>2 DEF AnswerInv
    <3>3. CASE o = "SUPPLIER_BOOKED" /\ pc[w] = "supplier_commit"
      BY <1>2, <1>3, <1>6, <2>1, <3>3 DEF AnswerInv
    <3> QED
      BY <3>1, <3>2, <3>3
  <2>3. \A v \in Workers : AnswerInv(v)'
    BY <2>1, <2>2, AnswerKept DEF Answered
  <2>4. ASSUME NEW v \in Workers, answer[v].id = b PROVE answer[v].outcome # o
    <3>1. AnswerInv(v)
      BY DEF Answered
    <3>2. o = "CREATED" => ~Exists(b)
      BY <1>3 DEF Exists, NoRow
    <3> QED
      BY <1>3, <2>4, <3>1, <3>2 DEF AnswerInv
  <2>5. OneWinner'
    <3> SUFFICES ASSUME NEW u \in Workers, NEW v \in Workers, u # v,
                        answer'[u].outcome = answer'[v].outcome, answer'[u].id = answer'[v].id
                 PROVE  answer'[u].outcome \notin {"CREATED", "CONFIRMED", "SUPPLIER_BOOKED"}
      BY DEF OneWinner
    <3>1. CASE u = w \/ v = w
      BY <1>6, <2>1, <2>4, <3>1
    <3>2. CASE u # w /\ v # w
      BY <2>1, <3>2 DEF Answered, OneWinner
    <3> QED
      BY <3>1, <3>2
  <2> QED
    BY <2>3, <2>5 DEF Answered
<1> QED
  BY <1>8, <1>9

LEMMA NextAnswers == Inductive /\ Answered /\ [Next]_vars => Answered'
<1> SUFFICES ASSUME Inductive, Answered, [Next]_vars PROVE Answered'
  OBVIOUS
<1>1. WriteOnce /\ TypeOK
  BY NextWritesOnce DEF Inductive
<1>2. ASSUME NEW w \in Workers, Arrive(w) PROVE Answered'
  BY <1>1, <1>2, ArriveAnswers
<1>3. ASSUME NEW w \in Workers, Proceed(w) PROVE Answered'
  <2>1. CASE CommitIntake(w) \/ CommitConfirm(w) \/ CommitSupplier(w)
    BY <1>1, <2>1, CommitAnswers DEF CommitIntake, CommitConfirm, CommitSupplier
  <2>2. CASE ~CommitIntake(w) /\ ~CommitConfirm(w) /\ ~CommitSupplier(w)
    BY <1>1, <1>3, <2>2, ProceedAnswers
  <2> QED
    BY <2>1, <2>2
<1>4. ASSUME NEW w \in Workers, RequestFails(w) PROVE Answered'
  BY <1>1, <1>4, RefuseStep DEF RequestFails, Reply
<1>5. CASE Outside \/ UNCHANGED vars
  BY <1>1, <1>5, SilentStep DEF Outside, PruneOffer, MoveStatus, vars
<1> QED
  BY <1>2, <1>3, <1>4, <1>5 DEF Next

LEMMA AnsweredInvariant == Spec => []Answered
<1>1. Init => Answered
  BY DEF Init, Answered, OneWinner, AnswerInv, NoAnswer, Naming, Winning
<1>2. Spec => []Inductive
  BY InductiveInvariant
<1> QED
  BY <1>1, <1>2, NextAnswers, PTL DEF Spec

(* The booking a request was told of is there, pinned or reserved as it    *)
(* was told, whatever happens afterwards.                                  *)
THEOREM AnswersStayTrue == Spec => []AnswersAreDurable
<1>1. Answered => AnswersAreDurable
  BY DEF Answered, AnswerInv, AnswersAreDurable
<1> QED
  BY <1>1, AnsweredInvariant, PTL

(* The FX outcome a confirmation reports is the one that was stored,       *)
(* however many confirmations raced with their own decisions.              *)
THEOREM LockIsTheAnswered == Spec => []LockMatchesAnswer
<1>1. Answered => LockMatchesAnswer
  BY DEF Answered, AnswerInv, LockMatchesAnswer
<1> QED
  BY <1>1, AnsweredInvariant, PTL

(* Two requests are never both told that they created, confirmed or        *)
(* supplier-booked the same booking.                                       *)
THEOREM OnlyOneWinner == Spec => []OneWinner
<1>1. Answered => OneWinner
  BY DEF Answered
<1> QED
  BY <1>1, AnsweredInvariant, PTL
-----------------------------------------------------------------------------
LEMMA InitRefines == Init => Truth!Init
BY DEF Init, Truth!Init, Truth!Absent, Truth!Unpinned, NoRow, NoPin, LegacyRow, Events

(* A COMMIT is one of the three whole steps of the abstract specification. *)
LEMMA CommitRefines ==
  ASSUME Inductive, NEW w \in Workers, Committing(w), NEW o, NEW ack, Commit(w, o, ack)
  PROVE  Truth!Next
<1> DEFINE b == req[w].id
           row == tx[w].row
           pin == tx[w].pin
           e == tx[w].event
<1>1. /\ b \in Ids \ Legacy
      /\ row.key \in Keys /\ row.ref \in Refs /\ row.offer \in Offers
      /\ pc[w] = "intake_commit" => row = InitiatedRow(w, row.ref) /\ ~KeyTaken(row.key)
                                     /\ ~RefTaken(row.ref)
      /\ pc[w] # "intake_commit" => /\ Exists(b) /\ bookings[b].priced
                                    /\ row.offer = bookings[b].offer
  BY CommittedRow
<1>2. /\ pc[w] = "intake_commit" =>
           /\ e = "BOOKING_CREATED" /\ pin = NoPin /\ tx[w].lock = "NONE"
           /\ bookings[b] = NoRow
      /\ pc[w] = "confirm_commit" =>
           /\ e = "BOOKING_CONFIRMED" /\ pin # NoPin
           /\ pins[b] = NoPin /\ fxLocks[b] = "NONE" /\ pin.offer = row.offer
      /\ pc[w] = "supplier_commit" =>
           /\ e = "BOOKING_SUPPLIER_BOOKED" /\ pin = NoPin /\ tx[w].lock = "NONE"
           /\ ~bookings[b].supplier
  BY CommitKinds
<1>3. /\ bookings' = [bookings EXCEPT ![b] = row]
      /\ pins' = IF pin = NoPin THEN pins ELSE [pins EXCEPT ![b] = pin]
      /\ fxLocks' = IF tx[w].lock = "NONE" THEN fxLocks ELSE [fxLocks EXCEPT ![b] = tx[w].lock]
      /\ audit' = [audit EXCEPT ![b][e] = @ + 1]
  BY DEF Commit
<1>4. TypeOK /\ AuditExactlyOnce /\ RequestInv(w) /\ \A c \in Ids : RowInv(c)
  BY DEF Inductive
<1>5. pin \in Pin /\ tx[w].lock \in LockKinds \cup {"NONE"} /\ bookings[b] \in Row
  BY <1>1, <1>4 DEF TypeOK, Tx
<1>6. /\ audit[b]["BOOKING_CREATED"] = IF Exists(b) THEN 1 ELSE 0
      /\ audit[b]["BOOKING_CONFIRMED"] = IF pins[b] # NoPin THEN 1 ELSE 0
      /\ audit[b]["BOOKING_SUPPLIER_BOOKED"] = IF bookings[b].supplier THEN 1 ELSE 0
  BY <1>1, <1>4 DEF AuditExactlyOnce
<1>7. ASSUME audit[b][e] = 0 PROVE Truth!Record(b, e)
  BY <1>3, <1>7 DEF Truth!Record
<1>8. CASE pc[w] = "intake_commit"
  <2>1. row = InitiatedRow(w, row.ref) /\ row.key = req[w].key /\ row.offer = req[w].offer
    BY <1>1, <1>8 DEF InitiatedRow
  <2>2. \A c \in Ids : bookings[c].key # row.key /\ bookings[c].ref # row.ref
    BY <1>1, <1>4, <1>8, NullAssumption DEF RowInv, KeyTaken, RefTaken, NoRow
  <2>3. bookings[b] = Truth!Absent /\ audit[b][e] = 0
    BY <1>2, <1>6, <1>8 DEF NoRow, Exists, Truth!Absent
  <2>4. row = [key |-> row.key, ref |-> row.ref, offer |-> row.offer, status |-> "INITIATED",
               priced |-> TRUE, supplier |-> FALSE]
    BY <2>1 DEF InitiatedRow
  <2>5. UNCHANGED <<pins, fxLocks>>
    BY <1>2, <1>3, <1>8
  <2> HIDE DEF b, row, pin, e
  <2>6. Truth!Create(b)
    BY <1>1, <1>2, <1>3, <1>7, <1>8, <2>2, <2>3, <2>4, <2>5 DEF Truth!Create
  <2> QED
    BY <1>1, <2>6 DEF Truth!Next
<1>9. CASE pc[w] = "confirm_commit"
  <2>1. /\ bookings[b].status \in Open /\ row = [bookings[b] EXCEPT !.status = "CONFIRMED"]
    BY <1>4, <1>9 DEF RequestInv, ConfirmInv, Pinning
  <2>2. bookings' = [bookings EXCEPT ![b].status = "CONFIRMED"]
    BY <1>3, <2>1
  <2> HIDE DEF b, row, pin, e
  <2>3. pin = [offer |-> bookings[b].offer, components |-> pin.components, policy |-> pin.policy]
        /\ pin.components \in BOOLEAN /\ pin.policy \in BOOLEAN
    <3>1. bookings[b].status # "ABSENT" /\ pin.offer = bookings[b].offer
      BY <1>1, <1>2, <1>9 DEF Exists
    <3> QED
      BY <1>5, <3>1 DEF Pin
  <2>4. pins' = [pins EXCEPT ![b] = pin]
    BY <1>2, <1>3, <1>9
  <2>5. \E lock \in {"NONE", "STRIPE_FX_QUOTE", "SNAPSHOT_REFERENCE"} :
          fxLocks' = [fxLocks EXCEPT ![b] = lock]
    <3>1. CASE tx[w].lock = "NONE"
      <4>1. fxLocks' = [fxLocks EXCEPT ![b] = "NONE"]
        BY <1>1, <1>2, <1>3, <1>4, <1>9, <3>1 DEF TypeOK
      <4> QED
        BY <4>1
    <3>2. CASE tx[w].lock # "NONE"
      BY <1>3, <1>5, <3>2 DEF LockKinds
    <3> QED
      BY <3>1, <3>2
  <2>6. Truth!Record(b, "BOOKING_CONFIRMED")
    BY <1>2, <1>6, <1>7, <1>9
  <2>7. pins[b] = Truth!Unpinned /\ fxLocks[b] = "NONE"
    BY <1>2, <1>9 DEF Truth!Unpinned, NoPin
  <2>8. \E c, p \in BOOLEAN :
          pins' = [pins EXCEPT ![b] = [offer |-> bookings[b].offer, components |-> c, policy |-> p]]
    BY <2>3, <2>4
  <2>9. bookings[b].status \in Truth!Open /\ bookings[b].priced
    BY <1>1, <1>9, <2>1 DEF Open, Truth!Open
  <2>10. Truth!Confirm(b)
    BY <2>2, <2>5, <2>6, <2>7, <2>8, <2>9 DEF Truth!Confirm
  <2> QED
    BY <1>1, <2>10 DEF Truth!Next
<1>10. CASE pc[w] = "supplier_commit"
  <2>1. /\ bookings[b].status \notin Terminal /\ row = [bookings[b] EXCEPT !.supplier = TRUE]
    BY <1>4, <1>10 DEF RequestInv, SupplierInv
  <2>2. bookings' = [bookings EXCEPT ![b].supplier = TRUE]
    BY <1>3, <2>1
  <2> HIDE DEF b, row, pin, e
  <2>3. bookings[b].status \in Truth!Open \cup {"CONFIRMED"}
    BY <1>1, <1>5, <1>10, <2>1 DEF Exists, Row, Statuses, Open, Truth!Open
  <2>4. UNCHANGED <<pins, fxLocks>>
    BY <1>2, <1>3, <1>10
  <2>5. Truth!Record(b, "BOOKING_SUPPLIER_BOOKED")
    BY <1>2, <1>6, <1>7, <1>10
  <2>6. bookings[b].priced /\ ~bookings[b].supplier
    BY <1>1, <1>2, <1>10
  <2>7. Truth!RecordSupplier(b)
    BY <2>2, <2>3, <2>4, <2>5, <2>6 DEF Truth!RecordSupplier
  <2> QED
    BY <1>1, <2>7 DEF Truth!Next
<1> QED
  BY <1>8, <1>9, <1>10 DEF Committing

LEMMA MoveRefines ==
  ASSUME NEW b \in Ids, NEW s \in Terminal \cup {"PENDING_PAYMENT"}, MoveStatus(b, s)
  PROVE  Truth!Next
<1>1. /\ <<bookings[b].status, s>> \in ExternalMoves
      /\ bookings' = [bookings EXCEPT ![b].status = s]
      /\ UNCHANGED <<pins, fxLocks, audit>>
  BY DEF MoveStatus
<1>2. bookings[b].status # "ABSENT"
      /\ (s = "PENDING_PAYMENT" => bookings[b].status \in Truth!Open)
  BY <1>1, ExternalMovesAssumption DEF Open, Terminal, Truth!Open
<1>3. s \in {"PENDING_PAYMENT", "CANCELLED", "FAILED", "REFUNDED"}
  BY DEF Terminal
<1>4. Truth!MoveStatus(b)
  BY <1>1, <1>2, <1>3 DEF Truth!MoveStatus
<1> QED
  BY <1>4 DEF Truth!Next

LEMMA NextRefines == Inductive /\ [Next]_vars => [Truth!Next]_(Truth!vars)
<1> SUFFICES ASSUME Inductive, [Next]_vars PROVE Truth!Next \/ UNCHANGED tables
  BY DEF Truth!vars, tables
<1>1. ASSUME NEW w \in Workers, Proceed(w) PROVE Truth!Next \/ UNCHANGED tables
  <2>1. CASE CommitIntake(w) \/ CommitConfirm(w) \/ CommitSupplier(w)
    BY <2>1, CommitRefines DEF CommitIntake, CommitConfirm, CommitSupplier, Committing
  <2>2. CASE ~CommitIntake(w) /\ ~CommitConfirm(w) /\ ~CommitSupplier(w)
    BY <1>1, <2>2, QuietProceed
  <2> QED
    BY <2>1, <2>2
<1>2. ASSUME NEW w \in Workers, Arrive(w) \/ RequestFails(w) PROVE UNCHANGED tables
  BY <1>2 DEF Arrive, IntakeLookup, ConfirmLoad, SupplierLoad, RequestFails
<1>3. CASE Outside
  BY <1>3, MoveRefines DEF Outside, PruneOffer
<1>4. CASE UNCHANGED vars
  BY <1>4 DEF vars, tables
<1> QED
  BY <1>1, <1>2, <1>3, <1>4 DEF Next

(* The three services, with all their awaits, locks, failures and lost     *)
(* acknowledgements, are an implementation of BookingTruth: a confirmation *)
(* shows in the tables as one indivisible step.                            *)
THEOREM ServicesImplementTruth == Spec => ImplementsTruth
<1>1. Spec => []Inductive
  BY InductiveInvariant
<1> QED
  BY <1>1, InitRefines, NextRefines, PTL DEF Spec, ImplementsTruth, Truth!Spec
=============================================================================
