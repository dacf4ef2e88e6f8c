---------------------- MODULE BookingLifecycle_proofs -----------------------
(***************************************************************************)
(* Type correctness of BookingLifecycle, and the invariant of              *)
(* BookingInvariant, which is inductive: so what it says of the tables,    *)
(* the audit log and the answers holds for every value of the constants.   *)
(***************************************************************************)
EXTENDS BookingInvariant, TLAPS

(* A request in hand is about a booking.                                   *)
InHand == \A w \in Workers : pc[w] # "idle" => req[w].id \in Ids

Typed == TypeOK /\ InHand

(* The records that stand for nothing are of their types.                  *)
LEMMA Nothings ==
  NoRow \in Row /\ NoPin \in Pin /\ NoTx \in Tx /\ NoRequest \in Request /\ NoAnswer \in Answer
<1>1. NoRow \in Row
  BY DEF NoRow, Row, Statuses
<1>2. NoPin \in Pin
  BY DEF NoPin, Pin
<1> QED
  BY <1>1, <1>2 DEF NoTx, Tx, NoRequest, Request, NoAnswer, Answer, Decisions, Outcomes

LEMMA InitType == Init => Typed
<1> SUFFICES ASSUME Init PROVE Typed
  OBVIOUS
<1>1. ASSUME NEW s \in {"INITIATED", "CONFIRMED"} PROVE LegacyRow(s) \in Row
  BY DEF LegacyRow, NoRow, Row, Statuses, Open
<1>2. bookings \in [Ids -> Row]
  BY <1>1, Nothings DEF Init
<1> QED
  BY <1>2, Nothings DEF Init, Typed, TypeOK, InHand, Steps

(* The answers a request can end with.                                     *)
LEMMA RefusalType == ASSUME NEW o \in Outcomes PROVE Refusal(o) \in Answer
BY Nothings DEF Refusal, NoAnswer, Answer

LEMMA SuccessType ==
  ASSUME Typed, NEW w \in Workers, NEW o \in Outcomes, NEW b \in Ids
  PROVE  Success(w, o, b) \in Answer
BY DEF Typed, TypeOK, Success, Answer, Request

(* The types of what a request holds, apart from the tables.               *)
LocalTyped ==
  /\ pc \in [Workers -> Steps]
  /\ req \in [Workers -> Request]
  /\ tx \in [Workers -> Tx]
  /\ answer \in [Workers -> Answer]
  /\ InHand

LEMMA Locally ==
  ASSUME Typed, LocalTyped', UNCHANGED <<tables, outside>>
  PROVE  Typed'
BY DEF Typed, TypeOK, LocalTyped, tables, outside

LEMMA ReplyType ==
  ASSUME Typed, NEW w \in Workers, NEW a \in Answer, Reply(w, a)
  PROVE  LocalTyped'
BY Nothings DEF Typed, TypeOK, InHand, LocalTyped, Reply, Goto, Stage, Steps

LEMMA ReplyAtOnceType ==
  ASSUME Typed, NEW w \in Workers, NEW a \in Answer, ReplyAtOnce(w, a)
  PROVE  LocalTyped'
BY DEF Typed, TypeOK, InHand, LocalTyped, ReplyAtOnce

LEMMA BeginType ==
  ASSUME Typed, NEW w \in Workers, NEW s \in Steps, NEW r \in Request, r.id \in Ids,
         Begin(w, s, r)
  PROVE  LocalTyped'
BY Nothings DEF Typed, TypeOK, InHand, LocalTyped, Begin, Goto

(* A request that goes on with the same booking, staging t or nothing.     *)
LEMMA GoOnType ==
  ASSUME Typed, NEW w \in Workers, NEW s \in Steps, NEW t \in Tx, pc[w] # "idle",
         Goto(w, s) \/ UNCHANGED pc, Stage(w, t) \/ UNCHANGED tx, UNCHANGED <<req, answer>>
  PROVE  LocalTyped'
BY DEF Typed, TypeOK, InHand, LocalTyped, Goto, Stage

(* Counting one more of an event.                                          *)
LEMMA BumpType ==
  ASSUME NEW f \in [Events -> Nat], NEW e
  PROVE  [f EXCEPT ![e] = @ + 1] \in [Events -> Nat]
<1>1. CASE e \in Events
  <2>1. f[e] + 1 \in Nat
    BY <1>1
  <2> DEFINE n == f[e] + 1
  <2>2. [f EXCEPT ![e] = n] \in [Events -> Nat]
    <3> HIDE DEF n
    <3> QED
      BY <1>1, <2>1 DEF n
  <2> QED
    BY <2>2
<1>2. CASE e \notin Events
  BY <1>2
<1> QED
  BY <1>1, <1>2

LEMMA CommitType ==
  ASSUME Typed, NEW w \in Workers, pc[w] # "idle", NEW o \in Outcomes, NEW ack \in BOOLEAN,
         Commit(w, o, ack)
  PROVE  Typed'
<1> DEFINE b == req[w].id
           a == IF ack THEN Success(w, o, b) ELSE Refusal("ERROR")
<1>1. tx[w] \in Tx /\ b \in Ids
  BY DEF Typed, TypeOK, InHand
<1>2. a \in Answer
  <2>1. Success(w, o, b) \in Answer
    BY <1>1, SuccessType
  <2>2. Refusal("ERROR") \in Answer
    BY RefusalType DEF Outcomes
  <2> QED
    BY <2>1, <2>2
<1>3. Reply(w, a)
  BY DEF Commit
<1>4. bookings' \in [Ids -> Row]
  BY <1>1 DEF Typed, TypeOK, Commit, Tx
<1>5. pins' \in [Ids -> Pin]
  BY <1>1 DEF Typed, TypeOK, Commit, Tx
<1>6. fxLocks' \in [Ids -> LockKinds \cup {"NONE"}]
  BY <1>1 DEF Typed, TypeOK, Commit, Tx
<1>7. audit' \in [Ids -> [Events -> Nat]]
  <2> DEFINE log == [audit[b] EXCEPT ![tx[w].event] = @ + 1]
  <2>1. audit' = [audit EXCEPT ![b] = log]
    BY DEF Commit
  <2>2. log \in [Events -> Nat]
    BY <1>1, BumpType DEF Typed, TypeOK
  <2> HIDE DEF log
  <2> QED
    BY <1>1, <2>1, <2>2 DEF Typed, TypeOK
<1>8. LocalTyped'
  <2> HIDE DEF a
  <2> QED
    BY <1>2, <1>3, ReplyType
<1> QED
  BY <1>4, <1>5, <1>6, <1>7, <1>8 DEF Typed, TypeOK, LocalTyped, Commit, outside

LEMMA ArriveType ==
  ASSUME Typed, NEW w \in Workers, Arrive(w)
  PROVE  Typed'
<1>1. ASSUME NEW k \in Keys, NEW o \in Offers, IntakeLookup(w, k, o) PROVE Typed'
  <2>1. CASE KeyTaken(k)
    <3>1. PICK b \in Ids :
            ReplyAtOnce(w, [NoAnswer EXCEPT !.outcome = "REPLAYED", !.id = b, !.key = k])
      BY <1>1, <2>1 DEF IntakeLookup
    <3>2. [NoAnswer EXCEPT !.outcome = "REPLAYED", !.id = b, !.key = k] \in Answer
      BY DEF NoAnswer, Answer, Outcomes, Decisions
    <3> QED
      BY <1>1, <3>1, <3>2, ReplyAtOnceType, Locally DEF IntakeLookup
  <2>2. CASE ~KeyTaken(k)
    <3> DEFINE r(b) == [NoRequest EXCEPT !.id = b, !.key = k, !.offer = o]
    <3>1. PICK b \in Ids : Begin(w, "intake_insert", r(b))
      BY <1>1, <2>2 DEF IntakeLookup
    <3>2. r(b) \in Request /\ r(b).id \in Ids
      BY DEF NoRequest, Request, Decisions
    <3> HIDE DEF r
    <3>3. LocalTyped'
      BY <3>1, <3>2, BeginType DEF Steps, IntakeSteps
    <3> QED
      BY <1>1, <3>3, Locally DEF IntakeLookup
  <2> QED
    BY <2>1, <2>2
<1>2. ASSUME NEW b \in Ids, ConfirmLoad(w, b) \/ SupplierLoad(w, b) PROVE Typed'
  <2> DEFINE r == [NoRequest EXCEPT !.id = b, !.offer = bookings[b].offer]
             done(o) == [NoAnswer EXCEPT !.outcome = o, !.id = b]
  <2>1. r \in Request /\ r.id \in Ids
    <3>1. bookings[b] \in Row
      BY DEF Typed, TypeOK
    <3> QED
      BY <3>1 DEF NoRequest, Request, Row, Decisions
  <2>2. done("ALREADY_CONFIRMED") \in Answer /\ done("SUPPLIER_REPLAYED") \in Answer
    BY DEF NoAnswer, Answer, Outcomes, Decisions
  <2>3. Refusal("NOT_FOUND") \in Answer /\ Refusal("REFUSED") \in Answer
    BY RefusalType DEF Outcomes
  <2>4. \/ ReplyAtOnce(w, Refusal("NOT_FOUND")) \/ ReplyAtOnce(w, Refusal("REFUSED"))
        \/ ReplyAtOnce(w, done("ALREADY_CONFIRMED")) \/ ReplyAtOnce(w, done("SUPPLIER_REPLAYED"))
        \/ Begin(w, "fx_decide", r) \/ Begin(w, "resolve_ingredients", r)
    BY <1>2 DEF ConfirmLoad, SupplierLoad
  <2>5. UNCHANGED <<tables, outside>>
    BY <1>2 DEF ConfirmLoad, SupplierLoad
  <2> HIDE DEF r, done
  <2>6. LocalTyped'
    BY <2>1, <2>2, <2>3, <2>4, ReplyAtOnceType, BeginType DEF Steps, ConfirmSteps, SupplierSteps
  <2> QED
    BY <2>5, <2>6, Locally
<1> QED
  BY <1>1, <1>2 DEF Arrive

LEMMA IntakeType ==
  ASSUME Typed, NEW w \in Workers, IntakeStep(w)
  PROVE  Typed'
<1>1. ASSUME NEW r \in Refs, InsertInitiated(w, r) PROVE Typed'
  <2> DEFINE t == [NoTx EXCEPT !.state = "open", !.row = InitiatedRow(w, r),
                               !.event = "BOOKING_CREATED"]
  <2>1. InitiatedRow(w, r) \in Row
    BY DEF Typed, TypeOK, InitiatedRow, Row, Request, Statuses, Open
  <2>2. t \in Tx
    BY <2>1, Nothings DEF Tx, NoTx, Events
  <2>3. Stage(w, t)
    BY <1>1 DEF InsertInitiated
  <2> HIDE DEF t
  <2>4. LocalTyped'
    BY <1>1, <2>2, <2>3, GoOnType DEF InsertInitiated, Steps, IntakeSteps
  <2> QED
    BY <1>1, <2>4, Locally DEF InsertInitiated
<1>2. ASSUME NEW r \in Refs, ReferenceCollision(w, r) PROVE Typed'
  <2>1. [NoTx EXCEPT !.state = "aborted"] \in Tx
    BY Nothings DEF Tx, NoTx
  <2>2. LocalTyped'
    BY <1>2, <2>1, GoOnType DEF ReferenceCollision, Steps
  <2> QED
    BY <1>2, <2>2, Locally DEF ReferenceCollision
<1>3. ASSUME NEW r \in Refs, IdempotencyRaceLost(w, r) PROVE Typed'
  <2>1. LocalTyped'
    BY <1>3, Nothings, GoOnType DEF IdempotencyRaceLost, Steps, IntakeSteps
  <2> QED
    BY <1>3, <2>1, Locally DEF IdempotencyRaceLost
<1>4. CASE RetryInsert(w)
  <2>1. Refusal("ERROR") \in Answer
    BY RefusalType DEF Outcomes
  <2> QED
    BY <1>4, <2>1, ReplyType, Locally DEF RetryInsert
<1>5. CASE RereadWinner(w)
  <2>1. PICK b \in Ids : Reply(w, Success(w, "REPLAYED", b))
    BY <1>5 DEF RereadWinner
  <2>2. Success(w, "REPLAYED", b) \in Answer
    BY SuccessType DEF Outcomes
  <2> QED
    BY <1>5, <2>1, <2>2, ReplyType, Locally DEF RereadWinner
<1>6. CASE CommitIntake(w)
  <2>1. PICK ack \in BOOLEAN : Commit(w, "CREATED", ack)
    BY <1>6 DEF CommitIntake
  <2> QED
    BY <1>6, <2>1, CommitType DEF CommitIntake, Outcomes
<1> QED
  BY <1>1, <1>2, <1>3, <1>4, <1>5, <1>6 DEF IntakeStep

LEMMA ConfirmType ==
  ASSUME Typed, NEW w \in Workers, ConfirmStep(w)
  PROVE  Typed'
<1>1. Refusal("CONFLICT") \in Answer
  BY RefusalType DEF Outcomes
<1>2. tx[w] \in Tx /\ req[w] \in Request
  BY DEF Typed, TypeOK
<1>3. CASE FxDecide(w)
  <2> DEFINE r(d) == [req[w] EXCEPT !.decision = d]
  <2>1. PICK d \in Decisions : req' = [req EXCEPT ![w] = r(d)]
    BY <1>3 DEF FxDecide
  <2>2. r(d) \in Request /\ r(d).id = req[w].id
    BY <1>2 DEF Request
  <2> HIDE DEF r
  <2>3. LocalTyped'
    BY <1>3, <2>1, <2>2 DEF FxDecide, Typed, TypeOK, InHand, LocalTyped, Goto, Steps, ConfirmSteps
  <2> QED
    BY <1>3, <2>3, Locally DEF FxDecide
<1>4. CASE MarkConfirmed(w)
  <2> DEFINE row == [bookings[req[w].id] EXCEPT !.status = "CONFIRMED"]
             t == [NoTx EXCEPT !.state = "open", !.row = row]
  <2>1. bookings[req[w].id] \in Row /\ pc[w] # "idle"
    BY <1>4 DEF Typed, TypeOK, InHand, MarkConfirmed
  <2>2. row \in Row
    BY <2>1 DEF Row, Statuses
  <2> HIDE DEF row
  <2>3. t \in Tx
    BY <2>2, Nothings DEF Tx, NoTx
  <2> HIDE DEF t
  <2>4. \/ Stage(w, t) /\ Goto(w, "pin_offer") /\ UNCHANGED <<req, answer>>
        \/ Reply(w, Refusal("CONFLICT"))
    BY <1>4 DEF MarkConfirmed, t, row
  <2>5. LocalTyped'
    BY <1>1, <2>1, <2>3, <2>4, GoOnType, ReplyType DEF Steps, ConfirmSteps
  <2> QED
    BY <1>4, <2>5, Locally DEF MarkConfirmed
<1>5. CASE PinOffer(w)
  <2> DEFINE t == [tx[w] EXCEPT !.pin.offer = req[w].offer]
  <2>1. t \in Tx
    BY <1>2 DEF Tx, Pin, Request
  <2>2. \/ Stage(w, t) /\ Goto(w, "pin_components") /\ UNCHANGED <<req, answer>>
        \/ Reply(w, Refusal("CONFLICT"))
    BY <1>5 DEF PinOffer
  <2> HIDE DEF t
  <2>3. LocalTyped'
    BY <1>1, <1>5, <2>1, <2>2, GoOnType, ReplyType DEF PinOffer, Steps, ConfirmSteps
  <2> QED
    BY <1>5, <2>3, Locally DEF PinOffer
<1>6. CASE PinComponents(w)
  <2> DEFINE found == req[w].offer \in offers
             t == [tx[w] EXCEPT !.pin.components = found]
  <2>1. found \in BOOLEAN
    OBVIOUS
  <2>2. Stage(w, t)
    BY <1>6 DEF PinComponents
  <2> HIDE DEF found
  <2>3. t \in Tx
    BY <1>2, <2>1 DEF Tx, Pin
  <2> HIDE DEF t
  <2>4. LocalTyped'
    BY <1>6, <2>2, <2>3, GoOnType DEF PinComponents, Steps, ConfirmSteps
  <2> QED
    BY <1>6, <2>4, Locally DEF PinComponents
<1>7. CASE PinPolicyAndLock(w)
  <2> DEFINE found == req[w].offer \in offers
             t == [tx[w] EXCEPT !.pin.policy = found,
                                !.lock = LockRow(req[w].decision),
                                !.event = "BOOKING_CONFIRMED"]
  <2>1. found \in BOOLEAN
    OBVIOUS
  <2>2. Stage(w, t)
    BY <1>7 DEF PinPolicyAndLock
  <2> HIDE DEF found
  <2>3. t \in Tx
    BY <1>2, <2>1 DEF Tx, Pin, LockRow, Events
  <2> HIDE DEF t
  <2>4. LocalTyped'
    BY <1>7, <2>2, <2>3, GoOnType DEF PinPolicyAndLock, Steps, ConfirmSteps
  <2> QED
    BY <1>7, <2>4, Locally DEF PinPolicyAndLock
<1>8. CASE CommitConfirm(w)
  <2>1. PICK ack \in BOOLEAN : Commit(w, "CONFIRMED", ack)
    BY <1>8 DEF CommitConfirm
  <2> QED
    BY <1>8, <2>1, CommitType DEF CommitConfirm, Outcomes
<1> QED
  BY <1>3, <1>4, <1>5, <1>6, <1>7, <1>8 DEF ConfirmStep

LEMMA SupplierType ==
  ASSUME Typed, NEW w \in Workers, SupplierStep(w)
  PROVE  Typed'
<1>1. Refusal("CONFLICT") \in Answer /\ Refusal("REFUSED") \in Answer
  BY RefusalType DEF Outcomes
<1>2. pc[w] # "idle"
  BY DEF SupplierStep, ResolveIngredients, AdapterBook, RecordSupplierBooking, RereadSupplier,
         CommitSupplier
<1>3. req[w].id \in Ids /\ tx[w] \in Tx
  BY <1>2 DEF Typed, TypeOK, InHand
<1>4. CASE ResolveIngredients(w)
  <2>1. \/ Goto(w, "adapter_book") /\ UNCHANGED <<req, tx, answer>>
        \/ Reply(w, Refusal("REFUSED"))
    BY <1>4 DEF ResolveIngredients
  <2>2. LocalTyped'
    BY <1>1, <1>2, <1>3, <2>1, GoOnType, ReplyType DEF Steps, SupplierSteps
  <2> QED
    BY <1>4, <2>2, Locally DEF ResolveIngredients
<1>5. CASE AdapterBook(w)
  <2>1. LocalTyped'
    BY <1>2, <1>3, <1>5, GoOnType DEF AdapterBook, Steps, SupplierSteps
  <2> QED
    BY <1>3, <1>5, <2>1 DEF AdapterBook, Typed, TypeOK, LocalTyped, tables
<1>6. CASE RecordSupplierBooking(w)
  <2> DEFINE row == [bookings[req[w].id] EXCEPT !.supplier = TRUE]
             t == [NoTx EXCEPT !.state = "open", !.row = row, !.event = "BOOKING_SUPPLIER_BOOKED"]
  <2>1. bookings[req[w].id] \in Row
    BY <1>3 DEF Typed, TypeOK
  <2>2. row \in Row
    BY <2>1 DEF Row
  <2> HIDE DEF row
  <2>3. t \in Tx
    BY <2>2, Nothings DEF Tx, NoTx, Events
  <2> HIDE DEF t
  <2>4. /\ \/ Stage(w, t) /\ Goto(w, "supplier_commit")
           \/ Goto(w, "supplier_reread") /\ UNCHANGED tx
        /\ UNCHANGED <<req, answer>>
    BY <1>6 DEF RecordSupplierBooking, t, row
  <2>5. LocalTyped'
    BY <1>2, <2>3, <2>4, GoOnType DEF Steps, SupplierSteps
  <2> QED
    BY <1>6, <2>5, Locally DEF RecordSupplierBooking
<1>7. CASE RereadSupplier(w)
  <2>1. Success(w, "SUPPLIER_REPLAYED", req[w].id) \in Answer
    BY <1>3, SuccessType DEF Outcomes
  <2>2. LocalTyped'
    BY <1>1, <1>7, <2>1, ReplyType DEF RereadSupplier
  <2> QED
    BY <1>7, <2>2, Locally DEF RereadSupplier
<1>8. CASE CommitSupplier(w)
  <2>1. PICK ack \in BOOLEAN : Commit(w, "SUPPLIER_BOOKED", ack)
    BY <1>8 DEF CommitSupplier
  <2> QED
    BY <1>2, <2>1, CommitType DEF Outcomes
<1> QED
  BY <1>4, <1>5, <1>6, <1>7, <1>8 DEF SupplierStep

LEMMA OutsideType ==
  ASSUME Typed, Outside
  PROVE  Typed'
<1>1. ASSUME NEW o \in Offers, PruneOffer(o) PROVE Typed'
  BY <1>1 DEF PruneOffer, Typed, TypeOK, InHand, tables
<1>2. ASSUME NEW b \in Ids, NEW s \in Terminal \cup {"PENDING_PAYMENT"}, MoveStatus(b, s)
      PROVE  Typed'
  <2> DEFINE row == [bookings[b] EXCEPT !.status = s]
  <2>1. bookings[b] \in Row
    BY DEF Typed, TypeOK
  <2>2. row \in Row
    BY <2>1 DEF Row, Statuses, Open
  <2>3. bookings' = [bookings EXCEPT ![b] = row]
    BY <1>2 DEF MoveStatus
  <2> HIDE DEF row
  <2>4. bookings' \in [Ids -> Row]
    BY <2>2, <2>3 DEF Typed, TypeOK
  <2> QED
    BY <1>2, <2>4 DEF MoveStatus, Typed, TypeOK, InHand, outside
<1> QED
  BY <1>1, <1>2 DEF Outside

(* Every step keeps the types.                                             *)
LEMMA NextType == Typed /\ [Next]_vars => Typed'
<1> SUFFICES ASSUME Typed, [Next]_vars PROVE Typed'
  OBVIOUS
<1>1. ASSUME NEW w \in Workers, Arrive(w) PROVE Typed'
  BY <1>1, ArriveType
<1>2. ASSUME NEW w \in Workers, Proceed(w) PROVE Typed'
  BY <1>2, IntakeType, ConfirmType, SupplierType DEF Proceed
<1>3. ASSUME NEW w \in Workers, RequestFails(w) PROVE Typed'
  <2>1. Refusal("ERROR") \in Answer
    BY RefusalType DEF Outcomes
  <2> QED
    BY <1>3, <2>1, ReplyType, Locally DEF RequestFails
<1>4. CASE Outside
  BY <1>4, OutsideType
<1>5. CASE UNCHANGED vars
  BY <1>5 DEF vars, Typed, TypeOK, InHand
<1> QED
  BY <1>1, <1>2, <1>3, <1>4, <1>5 DEF Next

(* The state of the booking services is always of its type: every row a    *)
(* commit writes, every lock kind, every answer.                           *)
THEOREM TypeCorrect == Spec => []TypeOK
<1>1. Spec => []Typed
  BY InitType, NextType, PTL DEF Spec
<1>2. Typed => TypeOK
  BY DEF Typed
<1> QED
  BY <1>1, <1>2, PTL
-----------------------------------------------------------------------------
(* The inductive invariant.                                                *)
LEMMA InductiveTyped == Inductive => Typed
BY DEF Inductive, Typed, InHand, RequestInv

(* The other requests: v does nothing, and what the step does to the       *)
(* tables leaves alone what v relies on.                                   *)
LEMMA Bystander ==
  ASSUME Inductive, NEW v \in Workers,
         pc'[v] = pc[v], req'[v] = req[v], tx'[v] = tx[v], answer'[v] = answer[v],
         offers' \subseteq offers, reserved \subseteq reserved',
         pc[v] # "idle" => /\ bookings'[req[v].id].priced = bookings[req[v].id].priced
                           /\ bookings'[req[v].id].offer = bookings[req[v].id].offer,
         pc[v] \in IntakeSteps \/ HoldsRow(v) =>
           bookings'[req[v].id] = bookings[req[v].id],
         pc[v] = "intake_commit" =>
           \A b \in Ids : bookings'[b].status # "ABSENT" =>
             bookings'[b].key # req[v].key /\ bookings'[b].ref # tx[v].row.ref
  PROVE  RequestInv(v)'
<1>1. RequestInv(v)
  BY DEF Inductive
<1>2. (pc[v] = "idle" => req[v] = NoRequest)'
  BY <1>1 DEF RequestInv
<1>3. (pc[v] # "idle" => req[v].id \in Ids /\ answer[v] = NoAnswer)'
  BY <1>1 DEF RequestInv
<1>4. TxInv(v)'
  BY <1>1 DEF RequestInv, TxInv, HoldsRow
<1>5. IntakeInv(v)'
  BY <1>1 DEF RequestInv, IntakeInv, IntakeSteps, InitiatedRow, KeyTaken, RefTaken, Exists
<1>6. ConfirmInv(v)'
  BY <1>1 DEF RequestInv, ConfirmInv, ConfirmSteps, Pinning, HoldsRow, LockRow
<1>7. SupplierInv(v)'
  <2>1. (pc[v] \in SupplierSteps => bookings[req[v].id].priced)'
    BY <1>1 DEF RequestInv, SupplierInv, SupplierSteps
  <2>2. (pc[v] \in {"record_supplier", "supplier_commit"} => req[v].id \in reserved)'
    BY <1>1 DEF RequestInv, SupplierInv
  <2>3. pc[v] = "supplier_commit" => bookings'[req[v].id] = bookings[req[v].id]
    BY DEF HoldsRow
  <2>4. (pc[v] = "supplier_commit" => /\ tx[v].event = "BOOKING_SUPPLIER_BOOKED"
                                      /\ ~bookings[req[v].id].supplier
                                      /\ bookings[req[v].id].status \notin Terminal
                                      /\ tx[v].row = [bookings[req[v].id] EXCEPT !.supplier = TRUE])'
    BY <1>1, <2>3 DEF RequestInv, SupplierInv
  <2> QED
    BY <2>1, <2>2, <2>4 DEF SupplierInv
<1> QED
  BY <1>2, <1>3, <1>4, <1>5, <1>6, <1>7 DEF RequestInv

(* The row a request holds is one that another can only wait for.          *)
LEMMA RowHeld ==
  ASSUME Inductive, NEW w \in Workers
  PROVE  HoldsRow(w) <=> tx[w].row # NoRow
<1>1. RequestInv(w) /\ TypeOK
  BY DEF Inductive
<1>2. ASSUME ~HoldsRow(w) PROVE tx[w].row = NoRow
  BY <1>1, <1>2 DEF RequestInv, TxInv, NoTx
<1>3. ASSUME pc[w] = "intake_commit" PROVE tx[w].row.status = "INITIATED"
  BY <1>1, <1>3 DEF RequestInv, IntakeInv, InitiatedRow
<1>4. ASSUME Pinning(w) PROVE tx[w].row.status = "CONFIRMED"
  <2>1. bookings[req[w].id] \in Row
    BY <1>1, <1>4 DEF TypeOK, RequestInv, Pinning
  <2> QED
    BY <1>1, <1>4, <2>1 DEF RequestInv, ConfirmInv, Row
<1>5. ASSUME pc[w] = "supplier_commit" PROVE tx[w].row.supplier
  <2>1. bookings[req[w].id] \in Row
    BY <1>1, <1>5 DEF TypeOK, RequestInv
  <2> QED
    BY <1>1, <1>5, <2>1 DEF RequestInv, SupplierInv, Row
<1> QED
  BY <1>2, <1>3, <1>4, <1>5 DEF HoldsRow, Pinning, NoRow

(* A step that leaves the tables alone: it is enough to look at w.         *)
LEMMA LocalStep ==
  ASSUME Inductive, NEW w \in Workers, Typed', UNCHANGED tables,
         \A v \in Workers \ {w} : /\ pc'[v] = pc[v] /\ req'[v] = req[v]
                                  /\ tx'[v] = tx[v] /\ answer'[v] = answer[v],
         offers' = offers, reserved \subseteq reserved',
         RequestInv(w)',
         \A v \in Workers \ {w} : Exclusive(v, w)' /\ Exclusive(w, v)'
  PROVE  Inductive'
<1> USE DEF tables
<1>1. \A b \in Ids : RowInv(b)'
  BY DEF Inductive, RowInv, LegacyRow, Exists
<1>2. ASSUME NEW v \in Workers, v # w PROVE RequestInv(v)'
  <2>1. RequestInv(v)
    BY DEF Inductive
  <2>2. pc[v] = "intake_commit" =>
          \A b \in Ids : bookings'[b].status # "ABSENT" =>
            bookings'[b].key # req[v].key /\ bookings'[b].ref # tx[v].row.ref
    BY <2>1 DEF RequestInv, IntakeInv, KeyTaken, RefTaken, Exists
  <2> QED
    BY <1>2, <2>2, Bystander
<1>3. ASSUME NEW u \in Workers, NEW v \in Workers, u # v PROVE Exclusive(u, v)'
  <2>1. CASE u = w \/ v = w
    BY <1>3, <2>1
  <2>2. CASE u # w /\ v # w
    BY <1>3, <2>2 DEF Inductive, Exclusive, HoldsRow
  <2> QED
    BY <2>1, <2>2
<1>4. ConfirmedTruth' /\ AuditExactlyOnce' /\ OneBookingPerKey' /\ SupplierRefIsReal'
  BY DEF Inductive, ConfirmedTruth, AuditExactlyOnce, OneBookingPerKey, SupplierRefIsReal, Exists
<1> QED
  BY <1>1, <1>2, <1>3, <1>4 DEF Inductive, Typed

(* A request ends, whatever it is told, without having changed a table.    *)
LEMMA EndStep ==
  ASSUME Inductive, NEW w \in Workers, NEW a, Reply(w, a), Typed', UNCHANGED <<tables, outside>>
  PROVE  Inductive'
<1> USE DEF Reply, Goto, Stage
<1>1. \A v \in Workers : v # w => /\ pc'[v] = pc[v] /\ req'[v] = req[v]
                                 /\ tx'[v] = tx[v] /\ answer'[v] = answer[v]
  BY DEF Inductive, TypeOK
<1>2. pc'[w] = "idle" /\ req'[w] = NoRequest /\ tx'[w] = NoTx
  BY DEF Inductive, TypeOK
<1>3. RequestInv(w)'
  BY <1>2 DEF RequestInv, TxInv, IntakeInv, ConfirmInv, SupplierInv, HoldsRow, Pinning,
     IntakeSteps, ConfirmSteps, SupplierSteps
<1>4. ASSUME NEW v \in Workers, v # w PROVE Exclusive(v, w)' /\ Exclusive(w, v)'
  <2>1. pc[v] \in IntakeSteps => req[v].id # NoId
    BY NullAssumption DEF Inductive, RequestInv, IntakeSteps
  <2> QED
    BY <1>1, <1>2, <1>4, <2>1 DEF Exclusive, HoldsRow, IntakeSteps, NoRequest
<1> QED
  BY <1>1, <1>3, <1>4, LocalStep DEF outside

(* A request that its first read answers.                                  *)
LEMMA AtOnceStep ==
  ASSUME Inductive, NEW w \in Workers, NEW a, pc[w] = "idle", ReplyAtOnce(w, a), Typed',
         UNCHANGED <<tables, outside>>
  PROVE  Inductive'
<1>1. \A v \in Workers : v # w => answer'[v] = answer[v]
  BY DEF ReplyAtOnce, Inductive, TypeOK
<1>2. RequestInv(w)'
  BY DEF ReplyAtOnce, Inductive, RequestInv, TxInv, IntakeInv, ConfirmInv, SupplierInv, HoldsRow,
     Pinning, IntakeSteps, ConfirmSteps, SupplierSteps
<1>3. ASSUME NEW v \in Workers, v # w PROVE Exclusive(v, w)' /\ Exclusive(w, v)'
  BY <1>3 DEF ReplyAtOnce, Inductive, Exclusive, HoldsRow
<1> QED
  BY <1>1, <1>2, <1>3, LocalStep DEF outside, ReplyAtOnce

LEMMA ArriveStep ==
  ASSUME Inductive, NEW w \in Workers, Arrive(w)
  PROVE  Inductive'
<1>1. Typed'
  BY InductiveTyped, ArriveType
<1>2. pc[w] = "idle" /\ UNCHANGED <<tables, outside>>
  BY DEF Arrive, IntakeLookup, ConfirmLoad, SupplierLoad
<1>3. tx[w] = NoTx
  BY <1>2 DEF Inductive, RequestInv, TxInv, HoldsRow
<1>4. ASSUME NEW a, ReplyAtOnce(w, a) PROVE Inductive'
  BY <1>1, <1>2, <1>4, AtOnceStep
<1>5. ASSUME NEW s, NEW r, Begin(w, s, r) 
      PROVE  /\ pc'[w] = s /\ req'[w] = r /\ tx'[w] = NoTx /\ answer'[w] = NoAnswer
             /\ \A v \in Workers : v # w => /\ pc'[v] = pc[v] /\ req'[v] = req[v]
                                          /\ tx'[v] = tx[v] /\ answer'[v] = answer[v]
  BY <1>3, <1>5 DEF Begin, Goto, Inductive, TypeOK
<1>6. ASSUME NEW k \in Keys, NEW o \in Offers, IntakeLookup(w, k, o), ~KeyTaken(k)
      PROVE  Inductive'
  <2> DEFINE r(b) == [NoRequest EXCEPT !.id = b, !.key = k, !.offer = o]
  <2>1. PICK b \in Ids : Fresh(b) /\ Begin(w, "intake_insert", r(b))
    BY <1>6 DEF IntakeLookup
  <2>2. r(b).id = b /\ r(b).key = k /\ r(b).offer = o
    BY DEF NoRequest
  <2> HIDE DEF r
  <2>3. bookings[b] = NoRow
    BY <2>1 DEF Fresh, Inductive, RowInv
  <2>4. RequestInv(w)'
    BY <1>2, <1>5, <2>1, <2>2, <2>3 DEF RequestInv, TxInv, IntakeInv, ConfirmInv, SupplierInv,
       HoldsRow, Pinning, IntakeSteps, ConfirmSteps, SupplierSteps, tables
  <2>5. ASSUME NEW v \in Workers, v # w PROVE Exclusive(v, w)' /\ Exclusive(w, v)'
    BY <1>5, <2>1, <2>2, <2>5 DEF Fresh, Exclusive, HoldsRow
  <2> QED
    BY <1>1, <1>2, <1>5, <2>1, <2>4, <2>5, LocalStep DEF outside
<1>7. ASSUME NEW b \in Ids, bookings[b].priced,
             NEW s \in {"fx_decide", "resolve_ingredients"},
             Begin(w, s, [NoRequest EXCEPT !.id = b, !.offer = bookings[b].offer])
      PROVE  Inductive'
  <2> DEFINE r == [NoRequest EXCEPT !.id = b, !.offer = bookings[b].offer]
  <2>1. r.id = b /\ r.offer = bookings[b].offer
    BY DEF NoRequest
  <2>2. Begin(w, s, r)
    BY <1>7
  <2> HIDE DEF r
  <2>3. bookings[b] # NoRow
    BY <1>7 DEF NoRow
  <2>4. RequestInv(w)'
    BY <1>2, <1>5, <1>7, <2>1, <2>2 DEF RequestInv, TxInv, IntakeInv, ConfirmInv, SupplierInv,
       HoldsRow, Pinning, IntakeSteps, ConfirmSteps, SupplierSteps, tables
  <2>5. ASSUME NEW v \in Workers, v # w PROVE Exclusive(v, w)' /\ Exclusive(w, v)'
    <3>1. pc[v] \in IntakeSteps => req[v].id # b
      BY <2>3 DEF Inductive, RequestInv, IntakeInv
    <3> QED
      BY <1>5, <2>1, <2>2, <2>5, <3>1 DEF Exclusive, HoldsRow, IntakeSteps
  <2> QED
    BY <1>1, <1>2, <1>5, <2>2, <2>4, <2>5, LocalStep DEF outside
<1>8. ASSUME NEW k \in Keys, NEW o \in Offers, IntakeLookup(w, k, o) PROVE Inductive'
  BY <1>4, <1>6, <1>8 DEF IntakeLookup
<1>9. ASSUME NEW b \in Ids, ConfirmLoad(w, b) PROVE Inductive'
  BY <1>4, <1>7, <1>9 DEF ConfirmLoad
<1>10. ASSUME NEW b \in Ids, SupplierLoad(w, b) PROVE Inductive'
  BY <1>4, <1>7, <1>10 DEF SupplierLoad
<1> QED
  BY <1>8, <1>9, <1>10 DEF Arrive

(* A request goes on to step s, its transaction now being t.               *)
LEMMA GoOn ==
  ASSUME Inductive, NEW w \in Workers, NEW s, NEW t,
         Goto(w, s), Stage(w, t), UNCHANGED <<req, answer>>
  PROVE  /\ pc'[w] = s /\ tx'[w] = t /\ req'[w] = req[w] /\ answer'[w] = answer[w]
         /\ \A v \in Workers : v # w => /\ pc'[v] = pc[v] /\ req'[v] = req[v]
                                      /\ tx'[v] = tx[v] /\ answer'[v] = answer[v]
BY DEF Goto, Stage, Inductive, TypeOK

(* Staying where it was in the exclusions, it disturbs none of them.       *)
LEMMA StillExclusive ==
  ASSUME Inductive, NEW w \in Workers,
         \A v \in Workers : req'[v] = req[v],
         \A v \in Workers : v # w => pc'[v] = pc[v] /\ tx'[v] = tx[v],
         pc'[w] # "intake_commit",
         pc'[w] \in IntakeSteps => pc[w] \in IntakeSteps,
         HoldsRow(w)' => HoldsRow(w)
  PROVE  \A v \in Workers \ {w} : Exclusive(v, w)' /\ Exclusive(w, v)'
BY DEF Inductive, Exclusive, HoldsRow

LEMMA IntakeInductive ==
  ASSUME Inductive, NEW w \in Workers, IntakeStep(w), ~CommitIntake(w)
  PROVE  Inductive'
<1>1. Typed'
  BY InductiveTyped, IntakeType
<1>2. RequestInv(w) /\ TypeOK
  BY DEF Inductive
<1>3. ASSUME NEW r \in Refs, InsertInitiated(w, r) PROVE Inductive'
  <2> DEFINE t == [NoTx EXCEPT !.state = "open", !.row = InitiatedRow(w, r),
                               !.event = "BOOKING_CREATED"]
  <2>1. /\ t.state = "open" /\ t.row = InitiatedRow(w, r) /\ t.event = "BOOKING_CREATED"
        /\ t.pin = NoPin /\ t.lock = "NONE"
    BY DEF NoTx
  <2>2. Goto(w, "intake_commit") /\ Stage(w, t) /\ UNCHANGED <<tables, outside, req, answer>>
    BY <1>3 DEF InsertInitiated
  <2> HIDE DEF t
  <2>3. /\ pc'[w] = "intake_commit" /\ tx'[w] = t /\ req'[w] = req[w] /\ answer'[w] = answer[w]
        /\ \A v \in Workers : v # w => /\ pc'[v] = pc[v] /\ req'[v] = req[v]
                                     /\ tx'[v] = tx[v] /\ answer'[v] = answer[v]
    BY <2>2, GoOn
  <2>4. /\ pc[w] = "intake_insert" /\ ~InsertPending(req[w].key, r)
        /\ ~RefTaken(r) /\ ~KeyTaken(req[w].key)
    BY <1>3 DEF InsertInitiated
  <2>5. t.row.ref = r /\ t.row.key = req[w].key
    BY <2>1 DEF InitiatedRow
  <2>6. RequestInv(w)'
    BY <1>2, <2>1, <2>2, <2>3, <2>4, <2>5 DEF RequestInv, TxInv, IntakeInv, ConfirmInv,
       SupplierInv, HoldsRow, Pinning, IntakeSteps, ConfirmSteps, SupplierSteps, InitiatedRow,
       KeyTaken, RefTaken, Exists, tables
  <2>7. ASSUME NEW v \in Workers, v # w PROVE Exclusive(v, w)' /\ Exclusive(w, v)'
    <3>1. req[v].id # req[w].id
      BY <2>4, <2>7 DEF Inductive, Exclusive, IntakeSteps
    <3>2. pc[v] = "intake_commit" => tx[v].row.key # t.row.key /\ tx[v].row.ref # t.row.ref
      <4>1. pc[v] = "intake_commit" => tx[v].row # NoRow
        BY RowHeld DEF HoldsRow
      <4>2. pc[v] = "intake_commit" => ~Exists(req[v].id)
        BY DEF Inductive, RequestInv, IntakeInv, IntakeSteps, Exists, NoRow
      <4> QED
        BY <2>4, <2>5, <4>1, <4>2 DEF InsertPending
    <3> QED
      BY <2>3, <2>7, <3>1, <3>2 DEF Exclusive
  <2> QED
    BY <1>1, <2>2, <2>3, <2>6, <2>7, LocalStep DEF outside
<1>4. ASSUME NEW r \in Refs, ReferenceCollision(w, r) PROVE Inductive'
  <2> DEFINE t == [NoTx EXCEPT !.state = "aborted"]
  <2>1. /\ pc[w] = "intake_insert" /\ Stage(w, t) /\ UNCHANGED <<tables, outside, pc, req, answer>>
    BY <1>4 DEF ReferenceCollision
  <2> HIDE DEF t
  <2>2. /\ tx'[w] = t /\ \A v \in Workers : v # w => tx'[v] = tx[v]
    BY <1>2, <2>1 DEF Stage, TypeOK
  <2>3. RequestInv(w)'
    BY <1>2, <2>1, <2>2 DEF RequestInv, TxInv, IntakeInv, ConfirmInv, SupplierInv, HoldsRow, t,
       Pinning, IntakeSteps, ConfirmSteps, SupplierSteps, tables
  <2>4. \A v \in Workers \ {w} : Exclusive(v, w)' /\ Exclusive(w, v)'
    BY <2>1, <2>2, StillExclusive DEF HoldsRow
  <2> QED
    BY <1>1, <2>1, <2>2, <2>3, <2>4, LocalStep DEF outside
<1>5. ASSUME NEW r \in Refs, IdempotencyRaceLost(w, r) PROVE Inductive'
  <2>1. /\ pc[w] = "intake_insert" /\ tx[w].state = "none"
        /\ Goto(w, "intake_reread") /\ UNCHANGED <<tables, outside, req, tx, answer>>
    BY <1>5 DEF IdempotencyRaceLost
  <2>2. pc'[w] = "intake_reread" /\ \A v \in Workers : v # w => pc'[v] = pc[v]
    BY <1>2, <2>1 DEF Goto, TypeOK
  <2>3. tx[w] = NoTx
    BY <1>2, <2>1 DEF RequestInv, TxInv, HoldsRow, NoTx
  <2>4. RequestInv(w)'
    BY <1>2, <2>1, <2>2, <2>3 DEF RequestInv, TxInv, IntakeInv, ConfirmInv, SupplierInv, HoldsRow,
       Pinning, IntakeSteps, ConfirmSteps, SupplierSteps, tables
  <2>5. \A v \in Workers \ {w} : Exclusive(v, w)' /\ Exclusive(w, v)'
    BY <2>1, <2>2, StillExclusive DEF HoldsRow, IntakeSteps
  <2> QED
    BY <1>1, <2>1, <2>2, <2>4, <2>5, LocalStep DEF outside
<1>6. CASE RetryInsert(w)
  BY <1>1, <1>6, EndStep DEF RetryInsert
<1>7. CASE RereadWinner(w)
  BY <1>1, <1>7, EndStep DEF RereadWinner
<1> QED
  BY <1>3, <1>4, <1>5, <1>6, <1>7 DEF IntakeStep

(* A request that is neither inserting nor holding a row takes the row     *)
(* lock on a booking that no other transaction holds.                      *)
LEMMA TakesRow ==
  ASSUME Inductive, NEW w \in Workers, ~RowLocked(req[w].id),
         pc[w] \in ConfirmSteps \cup SupplierSteps, 
         \A v \in Workers : req'[v] = req[v],
         \A v \in Workers : v # w => pc'[v] = pc[v] /\ tx'[v] = tx[v],
         pc'[w] \notin IntakeSteps
  PROVE  \A v \in Workers \ {w} : Exclusive(v, w)' /\ Exclusive(w, v)'
<1>1. \A v \in Workers : HoldsRow(v) => req[v].id # req[w].id
  BY RowHeld DEF RowLocked
<1> QED
  BY <1>1 DEF Inductive, Exclusive, HoldsRow, IntakeSteps

LEMMA ConfirmInductive ==
  ASSUME Inductive, NEW w \in Workers, ConfirmStep(w), ~CommitConfirm(w)
  PROVE  Inductive'
<1>1. Typed'
  BY InductiveTyped, ConfirmType
<1>2. RequestInv(w) /\ TypeOK
  BY DEF Inductive
<1>3. tx[w] \in Tx
  BY <1>2 DEF TypeOK
<1>4. CASE FxDecide(w)
  <2>1. PICK d \in Decisions : req' = [req EXCEPT ![w].decision = d]
    BY <1>4 DEF FxDecide
  <2>2. /\ req'[w].id = req[w].id /\ req'[w].offer = req[w].offer
        /\ \A v \in Workers : v # w => req'[v] = req[v]
    BY <1>2, <2>1 DEF TypeOK, Request
  <2>3. pc[w] = "fx_decide" /\ UNCHANGED <<tables, outside, tx, answer>>
    BY <1>4 DEF FxDecide
  <2>4. pc'[w] = "mark_confirmed" /\ \A v \in Workers : v # w => pc'[v] = pc[v]
    BY <1>2, <1>4 DEF FxDecide, Goto, TypeOK
  <2>5. RequestInv(w)'
    BY <1>2, <2>2, <2>3, <2>4 DEF RequestInv, TxInv, IntakeInv, ConfirmInv, SupplierInv, HoldsRow,
       Pinning, IntakeSteps, ConfirmSteps, SupplierSteps, tables
  <2>6. ASSUME NEW v \in Workers, v # w PROVE Exclusive(v, w)' /\ Exclusive(w, v)'
    BY <2>2, <2>3, <2>4, <2>6 DEF Inductive, Exclusive, HoldsRow, IntakeSteps
  <2> QED
    BY <1>1, <2>2, <2>3, <2>4, <2>5, <2>6, LocalStep DEF outside
<1>5. CASE MarkConfirmed(w)
  <2> DEFINE row == [bookings[req[w].id] EXCEPT !.status = "CONFIRMED"]
             t == [NoTx EXCEPT !.state = "open", !.row = row]
  <2>1. t.state = "open" /\ t.row = row /\ t.pin = NoPin /\ t.lock = "NONE"
    BY DEF NoTx
  <2>2. CASE Reply(w, Refusal("CONFLICT"))
    BY <1>1, <1>5, <2>2, EndStep DEF MarkConfirmed
  <2>3. CASE /\ bookings[req[w].id].status \in Open
             /\ Stage(w, t) /\ Goto(w, "pin_offer") /\ UNCHANGED <<req, answer>>
    <3> HIDE DEF t
    <3>1. /\ pc'[w] = "pin_offer" /\ tx'[w] = t /\ req'[w] = req[w] /\ answer'[w] = answer[w]
          /\ \A v \in Workers : v # w => /\ pc'[v] = pc[v] /\ req'[v] = req[v]
                                       /\ tx'[v] = tx[v] /\ answer'[v] = answer[v]
      BY <2>3, GoOn
    <3>2. pc[w] = "mark_confirmed" /\ ~RowLocked(req[w].id) /\ UNCHANGED <<tables, outside>>
      BY <1>5 DEF MarkConfirmed
    <3>3. RequestInv(w)'
      BY <1>2, <2>1, <2>3, <3>1, <3>2 DEF RequestInv, TxInv, IntakeInv, ConfirmInv, SupplierInv,
         HoldsRow, Pinning, IntakeSteps, ConfirmSteps, SupplierSteps, tables
    <3>4. \A v \in Workers \ {w} : Exclusive(v, w)' /\ Exclusive(w, v)'
      BY <3>1, <3>2, TakesRow DEF ConfirmSteps, IntakeSteps
    <3> QED
      BY <1>1, <3>1, <3>2, <3>3, <3>4, LocalStep DEF outside
  <2> QED
    BY <1>5, <2>2, <2>3 DEF MarkConfirmed
<1>6. CASE PinOffer(w)
  <2> DEFINE t == [tx[w] EXCEPT !.pin.offer = req[w].offer]
  <2>1. t.state = tx[w].state /\ t.row = tx[w].row /\ t.pin.offer = req[w].offer
    BY <1>3 DEF Tx, Pin
  <2>2. CASE Reply(w, Refusal("CONFLICT"))
    BY <1>1, <1>6, <2>2, EndStep DEF PinOffer
  <2>3. CASE Stage(w, t) /\ Goto(w, "pin_components") /\ UNCHANGED <<req, answer>>
    <3> HIDE DEF t
    <3>1. /\ pc'[w] = "pin_components" /\ tx'[w] = t /\ req'[w] = req[w] /\ answer'[w] = answer[w]
          /\ \A v \in Workers : v # w => /\ pc'[v] = pc[v] /\ req'[v] = req[v]
                                       /\ tx'[v] = tx[v] /\ answer'[v] = answer[v]
      BY <2>3, GoOn
    <3>2. pc[w] = "pin_offer" /\ UNCHANGED <<tables, outside>>
      BY <1>6 DEF PinOffer
    <3>3. RequestInv(w)'
      BY <1>2, <2>1, <3>1, <3>2 DEF RequestInv, TxInv, IntakeInv, ConfirmInv, SupplierInv,
         HoldsRow, Pinning, IntakeSteps, ConfirmSteps, SupplierSteps, tables
    <3>4. \A v \in Workers \ {w} : Exclusive(v, w)' /\ Exclusive(w, v)'
      BY <3>1, <3>2, StillExclusive DEF HoldsRow, IntakeSteps
    <3> QED
      BY <1>1, <3>1, <3>2, <3>3, <3>4, LocalStep DEF outside
  <2> QED
    BY <1>6, <2>2, <2>3 DEF PinOffer
<1>7. CASE PinComponents(w)
  <2> DEFINE t == [tx[w] EXCEPT !.pin.components = req[w].offer \in offers]
  <2>1. /\ t.state = tx[w].state /\ t.row = tx[w].row /\ t.pin.offer = tx[w].pin.offer
        /\ t.pin.components = (req[w].offer \in offers)
    BY <1>3 DEF Tx, Pin
  <2>2. /\ Stage(w, t) /\ Goto(w, "pin_policy") /\ UNCHANGED <<tables, outside, req, answer>>
        /\ pc[w] = "pin_components"
    BY <1>7 DEF PinComponents
  <2> HIDE DEF t
  <2>3. /\ pc'[w] = "pin_policy" /\ tx'[w] = t /\ req'[w] = req[w] /\ answer'[w] = answer[w]
        /\ \A v \in Workers : v # w => /\ pc'[v] = pc[v] /\ req'[v] = req[v]
                                     /\ tx'[v] = tx[v] /\ answer'[v] = answer[v]
    BY <2>2, GoOn
  <2>4. RequestInv(w)'
    BY <1>2, <2>1, <2>2, <2>3 DEF RequestInv, TxInv, IntakeInv, ConfirmInv, SupplierInv,
       HoldsRow, Pinning, IntakeSteps, ConfirmSteps, SupplierSteps, tables, outside
  <2>5. \A v \in Workers \ {w} : Exclusive(v, w)' /\ Exclusive(w, v)'
    BY <2>2, <2>3, StillExclusive DEF HoldsRow, IntakeSteps
  <2> QED
    BY <1>1, <2>2, <2>3, <2>4, <2>5, LocalStep DEF outside
<1>8. CASE PinPolicyAndLock(w)
  <2> DEFINE t == [tx[w] EXCEPT !.pin.policy = req[w].offer \in offers,
                                !.lock = LockRow(req[w].decision),
                                !.event = "BOOKING_CONFIRMED"]
  <2>1. /\ t.state = tx[w].state /\ t.row = tx[w].row /\ t.pin.offer = tx[w].pin.offer
        /\ t.pin.components = tx[w].pin.components
        /\ t.pin.policy = (req[w].offer \in offers)
        /\ t.lock = LockRow(req[w].decision) /\ t.event = "BOOKING_CONFIRMED"
    BY <1>3 DEF Tx, Pin
  <2>2. /\ Stage(w, t) /\ Goto(w, "confirm_commit") /\ UNCHANGED <<tables, outside, req, answer>>
        /\ pc[w] = "pin_policy"
    BY <1>8 DEF PinPolicyAndLock
  <2> HIDE DEF t
  <2>3. /\ pc'[w] = "confirm_commit" /\ tx'[w] = t /\ req'[w] = req[w] /\ answer'[w] = answer[w]
        /\ \A v \in Workers : v # w => /\ pc'[v] = pc[v] /\ req'[v] = req[v]
                                     /\ tx'[v] = tx[v] /\ answer'[v] = answer[v]
    BY <2>2, GoOn
  <2>4. RequestInv(w)'
    BY <1>2, <2>1, <2>2, <2>3 DEF RequestInv, TxInv, IntakeInv, ConfirmInv, SupplierInv,
       HoldsRow, Pinning, IntakeSteps, ConfirmSteps, SupplierSteps, tables, outside, LockRow
  <2>5. \A v \in Workers \ {w} : Exclusive(v, w)' /\ Exclusive(w, v)'
    BY <2>2, <2>3, StillExclusive DEF HoldsRow, IntakeSteps
  <2> QED
    BY <1>1, <2>2, <2>3, <2>4, <2>5, LocalStep DEF outside
<1> QED
  BY <1>4, <1>5, <1>6, <1>7, <1>8 DEF ConfirmStep

LEMMA SupplierInductive ==
  ASSUME Inductive, NEW w \in Workers, SupplierStep(w), ~CommitSupplier(w)
  PROVE  Inductive'
<1>1. Typed'
  BY InductiveTyped, SupplierType
<1>2. RequestInv(w) /\ TypeOK
  BY DEF Inductive
<1>3. CASE ResolveIngredients(w)
  <2>1. CASE Reply(w, Refusal("REFUSED"))
    BY <1>1, <1>3, <2>1, EndStep DEF ResolveIngredients
  <2>2. CASE Goto(w, "adapter_book") /\ UNCHANGED <<req, tx, answer>>
    <3>1. pc[w] = "resolve_ingredients" /\ UNCHANGED <<tables, outside>>
      BY <1>3 DEF ResolveIngredients
    <3>2. pc'[w] = "adapter_book" /\ \A v \in Workers : v # w => pc'[v] = pc[v]
      BY <1>2, <2>2 DEF Goto, TypeOK
    <3>3. RequestInv(w)'
      BY <1>2, <2>2, <3>1, <3>2 DEF RequestInv, TxInv, IntakeInv, ConfirmInv, SupplierInv,
         HoldsRow, Pinning, IntakeSteps, ConfirmSteps, SupplierSteps, tables
    <3>4. \A v \in Workers \ {w} : Exclusive(v, w)' /\ Exclusive(w, v)'
      BY <2>2, <3>1, <3>2, StillExclusive DEF HoldsRow, IntakeSteps
    <3> QED
      BY <1>1, <2>2, <3>1, <3>2, <3>3, <3>4, LocalStep DEF outside
  <2> QED
    BY <1>3, <2>1, <2>2 DEF ResolveIngredients
<1>4. CASE AdapterBook(w)
  <2>1. /\ pc[w] = "adapter_book" /\ reserved' = reserved \cup {req[w].id}
        /\ UNCHANGED <<tables, offers, req, tx, answer>>
    BY <1>4 DEF AdapterBook
  <2>2. pc'[w] = "record_supplier" /\ \A v \in Workers : v # w => pc'[v] = pc[v]
    BY <1>2, <1>4 DEF AdapterBook, Goto, TypeOK
  <2>3. RequestInv(w)'
    BY <1>2, <2>1, <2>2 DEF RequestInv, TxInv, IntakeInv, ConfirmInv, SupplierInv,
       HoldsRow, Pinning, IntakeSteps, ConfirmSteps, SupplierSteps, tables
  <2>4. \A v \in Workers \ {w} : Exclusive(v, w)' /\ Exclusive(w, v)'
    BY <2>1, <2>2, StillExclusive DEF HoldsRow, IntakeSteps
  <2> QED
    BY <1>1, <2>1, <2>2, <2>3, <2>4, LocalStep
<1>5. CASE RecordSupplierBooking(w)
  <2> DEFINE row == [bookings[req[w].id] EXCEPT !.supplier = TRUE]
             t == [NoTx EXCEPT !.state = "open", !.row = row, !.event = "BOOKING_SUPPLIER_BOOKED"]
  <2>1. /\ t.state = "open" /\ t.row = row /\ t.pin = NoPin /\ t.lock = "NONE"
        /\ t.event = "BOOKING_SUPPLIER_BOOKED"
    BY DEF NoTx
  <2>2. /\ pc[w] = "record_supplier" /\ ~RowLocked(req[w].id)
        /\ UNCHANGED <<tables, outside, req, answer>>
    BY <1>5 DEF RecordSupplierBooking
  <2>3. CASE /\ bookings[req[w].id].status \notin Terminal /\ ~bookings[req[w].id].supplier
             /\ Stage(w, t) /\ Goto(w, "supplier_commit")
    <3> HIDE DEF t
    <3>1. /\ pc'[w] = "supplier_commit" /\ tx'[w] = t /\ req'[w] = req[w] /\ answer'[w] = answer[w]
          /\ \A v \in Workers : v # w => /\ pc'[v] = pc[v] /\ req'[v] = req[v]
                                       /\ tx'[v] = tx[v] /\ answer'[v] = answer[v]
      BY <2>2, <2>3, GoOn
    <3>2. RequestInv(w)'
      BY <1>2, <2>1, <2>2, <2>3, <3>1 DEF RequestInv, TxInv, IntakeInv, ConfirmInv, SupplierInv,
         HoldsRow, Pinning, IntakeSteps, ConfirmSteps, SupplierSteps, tables, outside
    <3>3. \A v \in Workers \ {w} : Exclusive(v, w)' /\ Exclusive(w, v)'
      BY <2>2, <3>1, TakesRow DEF SupplierSteps, IntakeSteps
    <3> QED
      BY <1>1, <2>2, <3>1, <3>2, <3>3, LocalStep DEF outside
  <2>4. CASE Goto(w, "supplier_reread") /\ UNCHANGED tx
    <3>1. pc'[w] = "supplier_reread" /\ \A v \in Workers : v # w => pc'[v] = pc[v]
      BY <1>2, <2>4 DEF Goto, TypeOK
    <3>2. RequestInv(w)'
      BY <1>2, <2>2, <2>4, <3>1 DEF RequestInv, TxInv, IntakeInv, ConfirmInv, SupplierInv,
         HoldsRow, Pinning, IntakeSteps, ConfirmSteps, SupplierSteps, tables
    <3>3. \A v \in Workers \ {w} : Exclusive(v, w)' /\ Exclusive(w, v)'
      BY <2>2, <2>4, <3>1, StillExclusive DEF HoldsRow, IntakeSteps
    <3> QED
      BY <1>1, <2>2, <2>4, <3>1, <3>2, <3>3, LocalStep DEF outside
  <2> QED
    BY <1>5, <2>3, <2>4 DEF RecordSupplierBooking
<1>6. CASE RereadSupplier(w)
  BY <1>1, <1>6, EndStep DEF RereadSupplier
<1> QED
  BY <1>3, <1>4, <1>5, <1>6 DEF SupplierStep

(* A request whose next statement is COMMIT.                               *)
Committing(w) == pc[w] \in {"intake_commit", "confirm_commit", "supplier_commit"}

(* What COMMIT does to the tables, seen from each of them.                 *)
LEMMA CommitEffect ==
  ASSUME Inductive, NEW w \in Workers, Committing(w), NEW o, NEW ack, Commit(w, o, ack)
  PROVE  LET b == req[w].id
             e == tx[w].event IN
         /\ b \in Ids /\ e \in Events
         /\ bookings'[b] = tx[w].row
         /\ pins'[b] = IF tx[w].pin = NoPin THEN pins[b] ELSE tx[w].pin
         /\ fxLocks'[b] = IF tx[w].lock = "NONE" THEN fxLocks[b] ELSE tx[w].lock
         /\ audit'[b][e] = audit[b][e] + 1
         /\ \A f \in Events \ {e} : audit'[b][f] = audit[b][f]
         /\ \A c \in Ids \ {b} : /\ bookings'[c] = bookings[c] /\ pins'[c] = pins[c]
                               /\ fxLocks'[c] = fxLocks[c] /\ audit'[c] = audit[c]
         /\ offers' = offers /\ reserved' = reserved
         /\ pc'[w] = "idle" /\ req'[w] = NoRequest /\ tx'[w] = NoTx
         /\ \A v \in Workers \ {w} : /\ pc'[v] = pc[v] /\ req'[v] = req[v]
                                    /\ tx'[v] = tx[v] /\ answer'[v] = answer[v]
<1> DEFINE b == req[w].id
           e == tx[w].event
           a == IF ack THEN Success(w, o, b) ELSE Refusal("ERROR")
<1>1. RequestInv(w) /\ TypeOK
  BY DEF Inductive
<1>2. b \in Ids /\ e \in Events
  BY <1>1 DEF RequestInv, IntakeInv, ConfirmInv, SupplierInv, Committing, Events
<1>3. Reply(w, a)
  BY DEF Commit
<1>4. /\ bookings' = [bookings EXCEPT ![b] = tx[w].row]
      /\ pins' = IF tx[w].pin = NoPin THEN pins ELSE [pins EXCEPT ![b] = tx[w].pin]
      /\ fxLocks' = IF tx[w].lock = "NONE" THEN fxLocks ELSE [fxLocks EXCEPT ![b] = tx[w].lock]
      /\ audit' = [audit EXCEPT ![b][e] = @ + 1]
      /\ UNCHANGED outside
  BY DEF Commit
<1> HIDE DEF a, b, e
<1>5. audit[b] \in [Events -> Nat]
  BY <1>1, <1>2 DEF TypeOK
<1>6. /\ audit'[b][e] = audit[b][e] + 1
      /\ \A f \in Events \ {e} : audit'[b][f] = audit[b][f]
      /\ \A c \in Ids \ {b} : audit'[c] = audit[c]
  BY <1>1, <1>2, <1>4, <1>5 DEF TypeOK
<1>7. /\ pc'[w] = "idle" /\ req'[w] = NoRequest /\ tx'[w] = NoTx
      /\ \A v \in Workers \ {w} : /\ pc'[v] = pc[v] /\ req'[v] = req[v]
                                 /\ tx'[v] = tx[v] /\ answer'[v] = answer[v]
  BY <1>1, <1>3 DEF Reply, Goto, Stage, TypeOK
<1>8. /\ bookings'[b] = tx[w].row
      /\ pins'[b] = IF tx[w].pin = NoPin THEN pins[b] ELSE tx[w].pin
      /\ fxLocks'[b] = IF tx[w].lock = "NONE" THEN fxLocks[b] ELSE tx[w].lock
      /\ \A c \in Ids \ {b} : bookings'[c] = bookings[c] /\ pins'[c] = pins[c]
                            /\ fxLocks'[c] = fxLocks[c]
  BY <1>1, <1>2, <1>4 DEF TypeOK
<1> QED
  BY <1>2, <1>4, <1>6, <1>7, <1>8 DEF b, e, outside

(* The row that is committed: a new one, or the old one with its status or *)
(* its supplier reference changed.                                         *)
LEMMA CommittedRow ==
  ASSUME Inductive, NEW w \in Workers, Committing(w)
  PROVE  LET b == req[w].id
             row == tx[w].row IN
         /\ b \in Ids \ Legacy
         /\ row.status # "ABSENT" /\ row.priced
         /\ row.key \in Keys /\ row.ref \in Refs /\ row.offer \in Offers
         /\ pc[w] = "intake_commit" => /\ bookings[b] = NoRow
                                       /\ row = InitiatedRow(w, row.ref)
                                       /\ ~KeyTaken(row.key) /\ ~RefTaken(row.ref)
         /\ pc[w] # "intake_commit" => /\ Exists(b) /\ bookings[b].priced
                                       /\ row.key = bookings[b].key
                                       /\ row.ref = bookings[b].ref
                                       /\ row.offer = bookings[b].offer
<1> DEFINE b == req[w].id
           row == tx[w].row
<1>1. RequestInv(w) /\ TypeOK
  BY DEF Inductive
<1>2. b \in Ids
  BY <1>1 DEF RequestInv, Committing
<1>3. RowInv(b) /\ bookings[b] \in Row
  BY <1>1, <1>2 DEF Inductive, TypeOK
<1>4. CASE pc[w] = "intake_commit"
  <2>1. bookings[b] = NoRow /\ row = InitiatedRow(w, row.ref) /\ row.ref \in Refs
        /\ ~KeyTaken(req[w].key) /\ ~RefTaken(row.ref) /\ req[w].key \in Keys
        /\ req[w].offer \in Offers
    BY <1>1, <1>4 DEF RequestInv, IntakeInv, IntakeSteps
  <2> HIDE DEF row
  <2>2. /\ row.key = req[w].key /\ row.offer = req[w].offer /\ row.status = "INITIATED"
        /\ row.priced
    BY <2>1 DEF InitiatedRow
  <2>3. b \notin Legacy
    BY <1>3, <2>1 DEF RowInv, Exists, NoRow
  <2> QED
    BY <1>2, <1>4, <2>1, <2>2, <2>3 DEF row
<1>5. CASE pc[w] = "confirm_commit"
  <2>1. /\ bookings[b].priced /\ bookings[b].status \in Open
        /\ row = [bookings[b] EXCEPT !.status = "CONFIRMED"]
    BY <1>1, <1>5 DEF RequestInv, ConfirmInv, ConfirmSteps, Pinning
  <2> HIDE DEF row
  <2>2. /\ row.key = bookings[b].key /\ row.ref = bookings[b].ref
        /\ row.offer = bookings[b].offer /\ row.status = "CONFIRMED"
        /\ row.priced = bookings[b].priced
    BY <1>3, <2>1 DEF Row
  <2>3. b \notin Legacy /\ Exists(b)
    BY <1>3, <2>1 DEF RowInv, LegacyRow, NoRow, Exists
  <2>4. bookings[b].key \in Keys /\ bookings[b].ref \in Refs /\ bookings[b].offer \in Offers
    BY <1>3, <2>3 DEF RowInv, Exists, NoRow
  <2> QED
    BY <1>2, <1>5, <2>1, <2>2, <2>3, <2>4 DEF row
<1>6. CASE pc[w] = "supplier_commit"
  <2>1. bookings[b].priced /\ row = [bookings[b] EXCEPT !.supplier = TRUE]
    BY <1>1, <1>6 DEF RequestInv, SupplierInv, SupplierSteps
  <2> HIDE DEF row
  <2>2. /\ row.key = bookings[b].key /\ row.ref = bookings[b].ref
        /\ row.offer = bookings[b].offer /\ row.status = bookings[b].status
        /\ row.priced = bookings[b].priced
    BY <1>3, <2>1 DEF Row
  <2>3. b \notin Legacy /\ Exists(b)
    BY <1>3, <2>1 DEF RowInv, LegacyRow, NoRow, Exists
  <2>4. bookings[b].key \in Keys /\ bookings[b].ref \in Refs /\ bookings[b].offer \in Offers
    BY <1>3, <2>3 DEF RowInv, Exists, NoRow
  <2> QED
    BY <1>2, <1>6, <2>1, <2>2, <2>3, <2>4 DEF row, Exists
<1> QED
  BY <1>4, <1>5, <1>6 DEF Committing

(* The other requests do not notice a COMMIT.                              *)
LEMMA CommitOthers ==
  ASSUME Inductive, NEW w \in Workers, Committing(w), NEW o, NEW ack, Commit(w, o, ack)
  PROVE  /\ \A v \in Workers : RequestInv(v)'
         /\ \A u, v \in Workers : u # v => Exclusive(u, v)'
<1> DEFINE b == req[w].id
           row == tx[w].row
<1>1. /\ pc'[w] = "idle" /\ req'[w] = NoRequest /\ tx'[w] = NoTx
      /\ offers' = offers /\ reserved' = reserved
      /\ \A v \in Workers \ {w} : /\ pc'[v] = pc[v] /\ req'[v] = req[v]
                                 /\ tx'[v] = tx[v] /\ answer'[v] = answer[v]
  BY CommitEffect
<1>2. b \in Ids /\ bookings'[b] = row /\ \A c \in Ids \ {b} : bookings'[c] = bookings[c]
  BY CommitEffect
<1>3. RequestInv(w)'
  BY <1>1 DEF RequestInv, TxInv, IntakeInv, ConfirmInv, SupplierInv, HoldsRow, Pinning,
     IntakeSteps, ConfirmSteps, SupplierSteps
<1>4. ASSUME NEW v \in Workers, v # w PROVE RequestInv(v)'
  <2>1. RequestInv(v) /\ Exclusive(v, w) /\ Exclusive(w, v)
    BY <1>4 DEF Inductive
  <2>2. pc[v] \in IntakeSteps \/ HoldsRow(v) => req[v].id # b
    BY <2>1 DEF Exclusive, HoldsRow, Committing
  <2>3. pc[v] # "idle" => req[v].id \in Ids
    BY <2>1 DEF RequestInv
  <2>4. pc[v] \in IntakeSteps \/ HoldsRow(v) => bookings'[req[v].id] = bookings[req[v].id]
    BY <1>2, <2>2, <2>3 DEF IntakeSteps, HoldsRow
  <2>5. pc[v] # "idle" => /\ bookings'[req[v].id].priced = bookings[req[v].id].priced
                          /\ bookings'[req[v].id].offer = bookings[req[v].id].offer
    <3>1. CASE req[v].id = b
      <4>1. pc[w] # "intake_commit"
        BY <2>1, <3>1 DEF Exclusive, IntakeSteps
      <4>2. /\ row.offer = bookings[b].offer /\ row.priced /\ bookings[b].priced
        BY <4>1, CommittedRow
      <4>3. row \in Row /\ bookings[b] \in Row
        BY <1>2 DEF Inductive, TypeOK, Tx
      <4> HIDE DEF row, b
      <4>4. row.priced = bookings[b].priced
        BY <4>2, <4>3 DEF Row
      <4> QED
        BY <1>2, <3>1, <4>2, <4>4
    <3>2. CASE req[v].id # b
      BY <1>2, <2>3, <3>2
    <3> QED
      BY <3>1, <3>2
  <2>6. ASSUME pc[v] = "intake_commit", NEW c \in Ids, bookings'[c].status # "ABSENT"
        PROVE  bookings'[c].key # req[v].key /\ bookings'[c].ref # tx[v].row.ref
    <3>1. /\ ~KeyTaken(req[v].key) /\ ~RefTaken(tx[v].row.ref)
          /\ tx[v].row = InitiatedRow(v, tx[v].row.ref)
      BY <2>1, <2>6 DEF RequestInv, IntakeInv
    <3>2. CASE c # b
      BY <1>2, <2>6, <3>1, <3>2 DEF KeyTaken, RefTaken, Exists
    <3>3. CASE c = b /\ pc[w] # "intake_commit"
      <4>1. Exists(b) /\ row.key = bookings[b].key /\ row.ref = bookings[b].ref
        BY <3>3, CommittedRow
      <4> HIDE DEF row
      <4> QED
        BY <1>2, <3>1, <3>3, <4>1 DEF KeyTaken, RefTaken
    <3>4. CASE c = b /\ pc[w] = "intake_commit"
      <4>1. tx[v].row.key = req[v].key
        BY <3>1 DEF InitiatedRow
      <4>2. tx[v].row.key # row.key /\ tx[v].row.ref # row.ref
        BY <2>1, <2>6, <3>4 DEF Exclusive
      <4> HIDE DEF row
      <4> QED
        BY <1>2, <3>4, <4>1, <4>2
    <3> QED
      BY <3>2, <3>3, <3>4
  <2> HIDE DEF b, row
  <2> QED
    BY <1>1, <1>4, <2>4, <2>5, <2>6, Bystander
<1>5. ASSUME NEW u \in Workers, NEW v \in Workers, u # v PROVE Exclusive(u, v)'
  <2>1. Exclusive(u, v)
    BY <1>5 DEF Inductive
  <2>2. ASSUME NEW x \in Workers, pc[x] \in IntakeSteps PROVE req[x].id # NoId
    BY <2>2, NullAssumption DEF Inductive, RequestInv, IntakeSteps
  <2> QED
    BY <1>1, <1>5, <2>1, <2>2 DEF Exclusive, HoldsRow, IntakeSteps, NoRequest
<1> QED
  BY <1>3, <1>4, <1>5

(* What the three kinds of COMMIT have staged, and find in the tables.     *)
LEMMA CommitKinds ==
  ASSUME Inductive, NEW w \in Workers, Committing(w)
  PROVE  LET b == req[w].id
             row == tx[w].row
             pin == tx[w].pin IN
         /\ pc[w] = "intake_commit" =>
              /\ tx[w].event = "BOOKING_CREATED" /\ pin = NoPin /\ tx[w].lock = "NONE"
              /\ bookings[b] = NoRow /\ row.status = "INITIATED" /\ ~row.supplier
              /\ pins[b] = NoPin /\ fxLocks[b] = "NONE"
         /\ pc[w] = "confirm_commit" =>
              /\ tx[w].event = "BOOKING_CONFIRMED" /\ pin # NoPin
              /\ row.status = "CONFIRMED" /\ row.supplier = bookings[b].supplier
              /\ pins[b] = NoPin /\ fxLocks[b] = "NONE"
              /\ pin.offer = row.offer
              /\ pin.offer \in offers => pin.components /\ pin.policy
         /\ pc[w] = "supplier_commit" =>
              /\ tx[w].event = "BOOKING_SUPPLIER_BOOKED" /\ pin = NoPin /\ tx[w].lock = "NONE"
              /\ row.status = bookings[b].status
              /\ row.supplier /\ ~bookings[b].supplier /\ b \in reserved
<1> DEFINE b == req[w].id
           row == tx[w].row
           pin == tx[w].pin
<1>1. RequestInv(w) /\ TypeOK /\ ConfirmedTruth
  BY DEF Inductive
<1>2. b \in Ids \ Legacy
  BY CommittedRow
<1>3. bookings[b] \in Row
  BY <1>1, <1>2 DEF TypeOK
<1>4. bookings[b].status \in Open \cup {"ABSENT"} => pins[b] = NoPin /\ fxLocks[b] = "NONE"
  BY <1>1, <1>2 DEF ConfirmedTruth
<1>5. CASE pc[w] = "intake_commit"
  <2>1. /\ bookings[b] = NoRow /\ row = InitiatedRow(w, row.ref)
        /\ tx[w].event = "BOOKING_CREATED" /\ pin = NoPin /\ tx[w].lock = "NONE"
    BY <1>1, <1>5 DEF RequestInv, IntakeInv, IntakeSteps, TxInv
  <2> HIDE DEF b, row, pin
  <2>2. row.status = "INITIATED" /\ ~row.supplier
    BY <2>1 DEF InitiatedRow
  <2> QED
    BY <1>4, <1>5, <2>1, <2>2 DEF b, row, pin, NoRow
<1>6. CASE pc[w] = "confirm_commit"
  <2>1. /\ bookings[b].status \in Open /\ row = [bookings[b] EXCEPT !.status = "CONFIRMED"]
        /\ tx[w].event = "BOOKING_CONFIRMED"
        /\ pin.offer = req[w].offer /\ req[w].offer = bookings[b].offer
        /\ req[w].offer \in offers => pin.components /\ pin.policy
    BY <1>1, <1>6 DEF RequestInv, ConfirmInv, ConfirmSteps, Pinning
  <2>2. row.offer \in Offers
    BY CommittedRow
  <2> HIDE DEF b, row, pin
  <2>3. row.status = "CONFIRMED" /\ row.supplier = bookings[b].supplier
        /\ row.offer = bookings[b].offer
    BY <1>3, <2>1 DEF Row
  <2>4. pin # NoPin
    BY <2>1, <2>2, <2>3, NullAssumption DEF NoPin
  <2> QED
    BY <1>4, <1>6, <2>1, <2>3, <2>4 DEF b, row, pin
<1>7. CASE pc[w] = "supplier_commit"
  <2>1. /\ row = [bookings[b] EXCEPT !.supplier = TRUE] /\ ~bookings[b].supplier
        /\ tx[w].event = "BOOKING_SUPPLIER_BOOKED" /\ b \in reserved
        /\ pin = NoPin /\ tx[w].lock = "NONE"
    BY <1>1, <1>7 DEF RequestInv, SupplierInv, TxInv
  <2> HIDE DEF b, row, pin
  <2>2. row.status = bookings[b].status /\ row.supplier
    BY <1>3, <2>1 DEF Row
  <2> QED
    BY <1>7, <2>1, <2>2 DEF b, row, pin
<1> QED
  BY <1>5, <1>6, <1>7 DEF Committing

(* Every COMMIT leaves the tables as the invariant wants them.             *)
LEMMA CommitInductive ==
  ASSUME Inductive, NEW w \in Workers, Committing(w), NEW o, NEW ack, Commit(w, o, ack), Typed'
  PROVE  Inductive'
<1> DEFINE b == req[w].id
           row == tx[w].row
           pin == tx[w].pin
           e == tx[w].event
<1>1. /\ b \in Ids \ Legacy /\ e \in Events
      /\ bookings'[b] = row
      /\ pins'[b] = IF pin = NoPin THEN pins[b] ELSE pin
      /\ fxLocks'[b] = IF tx[w].lock = "NONE" THEN fxLocks[b] ELSE tx[w].lock
      /\ audit'[b][e] = audit[b][e] + 1
      /\ \A f \in Events \ {e} : audit'[b][f] = audit[b][f]
      /\ offers' = offers /\ reserved' = reserved
  BY CommitEffect, CommittedRow
<1>2. \A c \in Ids \ {b} : /\ bookings'[c] = bookings[c] /\ pins'[c] = pins[c]
                            /\ fxLocks'[c] = fxLocks[c] /\ audit'[c] = audit[c]
  BY CommitEffect
<1>3. /\ row.status # "ABSENT" /\ row.priced
      /\ row.key \in Keys /\ row.ref \in Refs /\ row.offer \in Offers
      /\ pc[w] = "intake_commit" => ~KeyTaken(row.key) /\ ~RefTaken(row.ref)
      /\ pc[w] # "intake_commit" => /\ Exists(b)
                                    /\ row.key = bookings[b].key
                                    /\ row.ref = bookings[b].ref
                                    /\ row.offer = bookings[b].offer
  BY CommittedRow
<1>4. /\ pc[w] = "intake_commit" =>
           /\ e = "BOOKING_CREATED" /\ pin = NoPin /\ tx[w].lock = "NONE"
           /\ bookings[b] = NoRow /\ row.status = "INITIATED" /\ ~row.supplier
           /\ pins[b] = NoPin /\ fxLocks[b] = "NONE"
      /\ pc[w] = "confirm_commit" =>
           /\ e = "BOOKING_CONFIRMED" /\ pin # NoPin
           /\ row.status = "CONFIRMED" /\ row.supplier = bookings[b].supplier
           /\ pins[b] = NoPin /\ fxLocks[b] = "NONE"
           /\ pin.offer = row.offer
           /\ pin.offer \in offers => pin.components /\ pin.policy
      /\ pc[w] = "supplier_commit" =>
           /\ e = "BOOKING_SUPPLIER_BOOKED" /\ pin = NoPin /\ tx[w].lock = "NONE"
           /\ row.status = bookings[b].status
           /\ row.supplier /\ ~bookings[b].supplier /\ b \in reserved
  BY CommitKinds
<1>5. pc[w] \in {"intake_commit", "confirm_commit", "supplier_commit"}
  BY DEF Committing
<1>6. /\ RowInv(b) /\ bookings[b] \in Row /\ \A f \in Events : audit[b][f] \in Nat
      /\ TypeOK /\ ConfirmedTruth /\ AuditExactlyOnce /\ OneBookingPerKey /\ SupplierRefIsReal
      /\ \A c \in Ids : RowInv(c)
  BY <1>1 DEF Inductive, TypeOK
<1> HIDE DEF b, row, pin, e
<1>7. ASSUME NEW c \in Ids PROVE RowInv(c)'
  <2>1. CASE c = b
    BY <1>1, <1>3, <2>1 DEF RowInv, Exists
  <2>2. CASE c # b
    BY <1>2, <1>6, <2>2 DEF RowInv, Exists, LegacyRow
  <2> QED
    BY <2>1, <2>2
<1>8. ConfirmedTruth'
  <2> SUFFICES ASSUME NEW c \in Ids \ Legacy
               PROVE  /\ bookings'[c].status = "CONFIRMED" => pins'[c] # NoPin
                      /\ pins'[c] # NoPin =>
                           /\ pins'[c].offer = bookings'[c].offer
                           /\ pins'[c].offer \in offers' => pins'[c].components /\ pins'[c].policy
                           /\ bookings'[c].status \notin Open \cup {"ABSENT"}
                      /\ fxLocks'[c] # "NONE" => pins'[c] # NoPin
    BY DEF ConfirmedTruth
  <2>1. CASE c # b
    BY <1>1, <1>2, <1>6, <2>1 DEF ConfirmedTruth
  <2>2. CASE c = b /\ pc[w] = "intake_commit"
    BY <1>1, <1>4, <2>2
  <2>3. CASE c = b /\ pc[w] = "confirm_commit"
    BY <1>1, <1>4, <2>3 DEF Open
  <2>4. CASE c = b /\ pc[w] = "supplier_commit"
    BY <1>1, <1>3, <1>4, <1>6, <2>4 DEF ConfirmedTruth
  <2> QED
    BY <1>5, <2>1, <2>2, <2>3, <2>4
<1>9. AuditExactlyOnce'
  <2> SUFFICES ASSUME NEW c \in Ids
               PROVE  /\ audit'[c]["BOOKING_CREATED"] =
                            IF bookings'[c].status # "ABSENT" /\ c \notin Legacy THEN 1 ELSE 0
                      /\ audit'[c]["BOOKING_CONFIRMED"] = IF pins'[c] # NoPin THEN 1 ELSE 0
                      /\ audit'[c]["BOOKING_SUPPLIER_BOOKED"] =
                            IF bookings'[c].supplier THEN 1 ELSE 0
    BY DEF AuditExactlyOnce, Exists
  <2>1. CASE c # b
    BY <1>2, <1>6, <2>1 DEF AuditExactlyOnce, Exists
  <2>2. /\ audit[b]["BOOKING_CREATED"] = IF Exists(b) THEN 1 ELSE 0
        /\ audit[b]["BOOKING_CONFIRMED"] = IF pins[b] # NoPin THEN 1 ELSE 0
        /\ audit[b]["BOOKING_SUPPLIER_BOOKED"] = IF bookings[b].supplier THEN 1 ELSE 0
    BY <1>1, <1>6 DEF AuditExactlyOnce
  <2>3. CASE c = b /\ pc[w] = "intake_commit"
    <3>1. ~Exists(b) /\ ~bookings[b].supplier
      BY <1>4, <2>3 DEF NoRow, Exists
    <3> QED
      BY <1>1, <1>3, <1>4, <2>2, <2>3, <3>1 DEF Events
  <2>4. CASE c = b /\ pc[w] = "confirm_commit"
    BY <1>1, <1>3, <1>4, <2>2, <2>4 DEF Events
  <2>5. CASE c = b /\ pc[w] = "supplier_commit"
    BY <1>1, <1>3, <1>4, <2>2, <2>5 DEF Events
  <2> QED
    BY <1>5, <2>1, <2>3, <2>4, <2>5
<1>10. OneBookingPerKey'
  <2>1. ASSUME NEW c \in Ids \ Legacy, c # b, bookings'[c].status # "ABSENT"
        PROVE  bookings'[c].key # row.key /\ bookings'[c].ref # row.ref
    <3>1. CASE pc[w] = "intake_commit"
      BY <1>2, <1>3, <2>1, <3>1 DEF KeyTaken, RefTaken, Exists
    <3>2. CASE pc[w] # "intake_commit"
      BY <1>1, <1>2, <1>3, <1>6, <2>1, <3>2 DEF OneBookingPerKey, Exists
    <3> QED
      BY <3>1, <3>2
  <2> SUFFICES ASSUME NEW c \in Ids \ Legacy, NEW d \in Ids \ Legacy, c # d,
                      bookings'[c].status # "ABSENT", bookings'[d].status # "ABSENT"
               PROVE  bookings'[c].key # bookings'[d].key /\ bookings'[c].ref # bookings'[d].ref
    BY DEF OneBookingPerKey, Exists
  <2>2. CASE c = b \/ d = b
    BY <1>1, <2>1, <2>2
  <2>3. CASE c # b /\ d # b
    BY <1>2, <1>6, <2>3 DEF OneBookingPerKey, Exists
  <2> QED
    BY <2>2, <2>3
<1>11. SupplierRefIsReal'
  BY <1>1, <1>2, <1>4, <1>5, <1>6 DEF SupplierRefIsReal
<1>12. /\ \A v \in Workers : RequestInv(v)'
       /\ \A u, v \in Workers : u # v => Exclusive(u, v)'
  BY CommitOthers
<1> QED
  BY <1>7, <1>8, <1>9, <1>10, <1>11, <1>12 DEF Inductive, Typed

LEMMA InitInductive == Init => Inductive
<1> SUFFICES ASSUME Init PROVE Inductive
  OBVIOUS
<1>1. TypeOK
  BY InitType DEF Typed
<1>2. ASSUME NEW b \in Ids
      PROVE  /\ pins[b] = NoPin /\ fxLocks[b] = "NONE" /\ ~bookings[b].supplier
             /\ \A e \in Events : audit[b][e] = 0
             /\ b \in Legacy => /\ Exists(b) /\ bookings[b] = LegacyRow(bookings[b].status)
             /\ b \notin Legacy => bookings[b] = NoRow
  <2>1. CASE b \notin Legacy
    BY <2>1 DEF Init, NoRow
  <2>2. CASE b \in Legacy
    <3>1. PICK s \in {"INITIATED", "CONFIRMED"} : bookings[b] = LegacyRow(s)
      BY <2>2 DEF Init
    <3>2. LegacyRow(s).status = s /\ ~LegacyRow(s).supplier
      BY DEF LegacyRow, NoRow
    <3> QED
      BY <2>2, <3>1, <3>2 DEF Init, Exists
  <2> QED
    BY <2>1, <2>2
<1>3. ASSUME NEW w \in Workers
      PROVE  pc[w] = "idle" /\ req[w] = NoRequest /\ tx[w] = NoTx
  BY DEF Init
<1>4. \A b \in Ids : RowInv(b)
  BY <1>2 DEF RowInv
<1>5. \A w \in Workers : RequestInv(w)
  BY <1>3 DEF RequestInv, TxInv, IntakeInv, ConfirmInv, SupplierInv, HoldsRow, Pinning,
     IntakeSteps, ConfirmSteps, SupplierSteps
<1>6. \A v, w \in Workers : v # w => Exclusive(v, w)
  BY <1>3 DEF Exclusive, HoldsRow, IntakeSteps
<1>7. \A b \in Ids \ Legacy : ~Exists(b)
  BY <1>2 DEF Exists, NoRow
<1>8. ConfirmedTruth
  BY <1>2, <1>7 DEF ConfirmedTruth, NoRow
<1>9. AuditExactlyOnce
  BY <1>2, <1>7 DEF AuditExactlyOnce, Events
<1>10. OneBookingPerKey /\ SupplierRefIsReal
  BY <1>2, <1>7 DEF OneBookingPerKey, SupplierRefIsReal
<1> QED
  BY <1>1, <1>4, <1>5, <1>6, <1>8, <1>9, <1>10 DEF Inductive

(* The sweeper and the outside flows: a pruned offer can only weaken what  *)
(* is asked of a pin, and a status only moves where no request holds it.   *)
LEMMA OutsideInductive ==
  ASSUME Inductive, Outside
  PROVE  Inductive'
<1>1. Typed'
  BY InductiveTyped, OutsideType
<1>2. /\ TypeOK /\ \A b \in Ids : RowInv(b)
      /\ ConfirmedTruth /\ AuditExactlyOnce /\ OneBookingPerKey /\ SupplierRefIsReal
      /\ \A u, v \in Workers : u # v => Exclusive(u, v)
  BY DEF Inductive
<1>3. ASSUME NEW o \in Offers, PruneOffer(o) PROVE Inductive'
  <2>1. offers' \subseteq offers /\ UNCHANGED <<tables, reserved, pc, req, tx, answer>>
    BY <1>3 DEF PruneOffer
  <2>2. \A b \in Ids : RowInv(b)'
    BY <1>2, <2>1 DEF RowInv, Exists, LegacyRow, tables
  <2>3. ASSUME NEW v \in Workers PROVE RequestInv(v)'
    <3>1. pc[v] = "intake_commit" =>
            \A b \in Ids : bookings[b].status # "ABSENT" =>
              bookings[b].key # req[v].key /\ bookings[b].ref # tx[v].row.ref
      BY DEF Inductive, RequestInv, IntakeInv, KeyTaken, RefTaken, Exists
    <3> QED
      BY <2>1, <3>1, Bystander DEF tables
  <2>4. \A u, v \in Workers : u # v => Exclusive(u, v)'
    BY <1>2, <2>1 DEF Exclusive, HoldsRow
  <2>5. ConfirmedTruth' /\ AuditExactlyOnce' /\ OneBookingPerKey' /\ SupplierRefIsReal'
    BY <1>2, <2>1 DEF ConfirmedTruth, AuditExactlyOnce, OneBookingPerKey, SupplierRefIsReal,
       Exists, tables
  <2> QED
    BY <1>1, <2>2, <2>3, <2>4, <2>5 DEF Inductive, Typed
<1>4. ASSUME NEW b \in Ids, NEW s \in Terminal \cup {"PENDING_PAYMENT"}, MoveStatus(b, s)
      PROVE  Inductive'
  <2>1. /\ <<bookings[b].status, s>> \in ExternalMoves
        /\ bookings' = [bookings EXCEPT ![b].status = s] /\ ~RowLocked(b)
        /\ UNCHANGED <<pins, fxLocks, audit, offers, reserved, pc, req, tx, answer>>
    BY <1>4 DEF MoveStatus, outside
  <2> DEFINE row == [bookings[b] EXCEPT !.status = s]
  <2>2. bookings[b] \in Row
    BY <1>2 DEF TypeOK
  <2>3. /\ row.status = s /\ row.key = bookings[b].key /\ row.ref = bookings[b].ref
        /\ row.offer = bookings[b].offer /\ row.priced = bookings[b].priced
        /\ row.supplier = bookings[b].supplier
    BY <2>2 DEF Row
  <2>4. bookings' = [bookings EXCEPT ![b] = row]
    BY <2>1
  <2>5. bookings[b] = LegacyRow(bookings[b].status) => row = LegacyRow(s)
    <3>1. ASSUME NEW t, bookings[b] = LegacyRow(t) PROVE row = LegacyRow(s)
      BY <3>1 DEF LegacyRow, NoRow
    <3> QED
      BY <3>1
  <2> HIDE DEF row
  <2>6. bookings'[b] = row /\ \A c \in Ids \ {b} : bookings'[c] = bookings[c]
    BY <1>2, <2>4 DEF TypeOK
  <2>7. /\ Exists(b) /\ s # "ABSENT" /\ s # "CONFIRMED"
        /\ bookings[b].status \notin Open => s \notin Open
    BY <2>1, ExternalMovesAssumption DEF Exists, Open, Terminal
  <2>8. ASSUME NEW c \in Ids
        PROVE  /\ bookings'[c].status # "ABSENT" <=> Exists(c)
               /\ bookings'[c].key = bookings[c].key /\ bookings'[c].ref = bookings[c].ref
               /\ bookings'[c].offer = bookings[c].offer
               /\ bookings'[c].priced = bookings[c].priced
               /\ bookings'[c].supplier = bookings[c].supplier
    BY <2>3, <2>6, <2>7 DEF Exists
  <2>9. ASSUME NEW c \in Ids PROVE RowInv(c)'
    <3>1. CASE c = b
      <4>1. bookings[b] # NoRow
        BY <2>7 DEF Exists, NoRow
      <4> QED
        BY <1>2, <2>1, <2>3, <2>5, <2>6, <2>7, <3>1, <4>1 DEF RowInv, Exists
    <3>2. CASE c # b
      BY <1>2, <2>1, <2>6, <3>2 DEF RowInv, Exists
    <3> QED
      BY <3>1, <3>2
  <2>10. ASSUME NEW v \in Workers PROVE RequestInv(v)'
    <3>1. RequestInv(v)
      BY DEF Inductive
    <3>2. pc[v] # "idle" => req[v].id \in Ids
      BY <3>1 DEF RequestInv
    <3>3. HoldsRow(v) => req[v].id # b
      BY <2>1, RowHeld DEF RowLocked
    <3>4. pc[v] \in IntakeSteps => req[v].id # b
      BY <2>7, <3>1 DEF RequestInv, IntakeInv, Exists, NoRow
    <3>5. pc[v] \in IntakeSteps \/ HoldsRow(v) => bookings'[req[v].id] = bookings[req[v].id]
      BY <2>6, <3>2, <3>3, <3>4 DEF HoldsRow, IntakeSteps
    <3>6. pc[v] = "intake_commit" =>
            \A c \in Ids : bookings'[c].status # "ABSENT" =>
              bookings'[c].key # req[v].key /\ bookings'[c].ref # tx[v].row.ref
      BY <2>8, <3>1 DEF RequestInv, IntakeInv, KeyTaken, RefTaken
    <3>7. pc[v] # "idle" => /\ bookings'[req[v].id].priced = bookings[req[v].id].priced
                            /\ bookings'[req[v].id].offer = bookings[req[v].id].offer
      BY <2>8, <3>2
    <3> QED
      BY <2>1, <3>5, <3>6, <3>7, Bystander
  <2>11. \A u, v \in Workers : u # v => Exclusive(u, v)'
    BY <1>2, <2>1 DEF Exclusive, HoldsRow
  <2>12. ConfirmedTruth'
    <3> SUFFICES ASSUME NEW c \in Ids \ Legacy
                 PROVE  /\ bookings'[c].status = "CONFIRMED" => pins[c] # NoPin
                        /\ pins[c] # NoPin =>
                             /\ pins[c].offer = bookings'[c].offer
                             /\ pins[c].offer \in offers => pins[c].components /\ pins[c].policy
                             /\ bookings'[c].status \notin Open \cup {"ABSENT"}
                        /\ fxLocks[c] # "NONE" => pins[c] # NoPin
      BY <2>1 DEF ConfirmedTruth
    <3>1. CASE c = b
      BY <1>2, <2>3, <2>6, <2>7, <2>8, <3>1 DEF ConfirmedTruth
    <3>2. CASE c # b
      BY <1>2, <2>6, <3>2 DEF ConfirmedTruth
    <3> QED
      BY <3>1, <3>2
  <2>13. AuditExactlyOnce'
    BY <1>2, <2>1, <2>8 DEF AuditExactlyOnce, Exists
  <2>14. OneBookingPerKey' /\ SupplierRefIsReal'
    BY <1>2, <2>1, <2>8 DEF OneBookingPerKey, SupplierRefIsReal, Exists
  <2> QED
    BY <1>1, <2>9, <2>10, <2>11, <2>12, <2>13, <2>14 DEF Inductive, Typed
<1> QED
  BY <1>3, <1>4 DEF Outside

LEMMA NextInductive == Inductive /\ [Next]_vars => Inductive'
<1> SUFFICES ASSUME Inductive, [Next]_vars PROVE Inductive'
  OBVIOUS
<1>1. Typed'
  BY InductiveTyped, NextType
<1>2. ASSUME NEW w \in Workers, Arrive(w) PROVE Inductive'
  BY <1>2, ArriveStep
<1>3. ASSUME NEW w \in Workers, NEW o, NEW ack \in BOOLEAN, Committing(w), Commit(w, o, ack)
      PROVE  Inductive'
  BY <1>1, <1>3, CommitInductive
<1>4. ASSUME NEW w \in Workers, Proceed(w) PROVE Inductive'
  <2>1. CASE CommitIntake(w) \/ CommitConfirm(w) \/ CommitSupplier(w)
    BY <1>3, <2>1 DEF CommitIntake, CommitConfirm, CommitSupplier, Committing
  <2>2. CASE ~CommitIntake(w) /\ ~CommitConfirm(w) /\ ~CommitSupplier(w)
    BY <1>4, <2>2, IntakeInductive, ConfirmInductive, SupplierInductive DEF Proceed
  <2> QED
    BY <2>1, <2>2
<1>5. ASSUME NEW w \in Workers, RequestFails(w) PROVE Inductive'
  BY <1>1, <1>5, EndStep DEF RequestFails
<1>6. CASE Outside
  BY <1>6, OutsideInductive
<1>7. CASE UNCHANGED vars
  <2>1. UNCHANGED <<tables, outside, pc, req, tx, answer>>
    BY <1>7 DEF vars, tables, outside
  <2>2. ASSUME NEW v \in Workers PROVE RequestInv(v)'
    <3>1. pc[v] = "intake_commit" =>
            \A b \in Ids : bookings[b].status # "ABSENT" =>
              bookings[b].key # req[v].key /\ bookings[b].ref # tx[v].row.ref
      BY DEF Inductive, RequestInv, IntakeInv, KeyTaken, RefTaken, Exists
    <3> QED
      BY <2>1, <3>1, Bystander DEF tables, outside
  <2>3. \A b \in Ids : RowInv(b)'
    BY <2>1 DEF Inductive, RowInv, Exists, LegacyRow, tables
  <2>4. \A u, v \in Workers : u # v => Exclusive(u, v)'
    BY <2>1 DEF Inductive, Exclusive, HoldsRow
  <2>5. ConfirmedTruth' /\ AuditExactlyOnce' /\ OneBookingPerKey' /\ SupplierRefIsReal'
    BY <2>1 DEF Inductive, ConfirmedTruth, AuditExactlyOnce, OneBookingPerKey,
       SupplierRefIsReal, Exists, tables, outside
  <2> QED
    BY <1>1, <2>2, <2>3, <2>4, <2>5 DEF Inductive, Typed
<1> QED
  BY <1>2, <1>4, <1>5, <1>6, <1>7 DEF Next

(* The invariant holds in every reachable state: what each request in      *)
(* flight relies on between two awaits is true.                            *)
THEOREM InductiveInvariant == Spec => []Inductive
BY InitInductive, NextInductive, PTL DEF Spec

(* Whatever confirms, fails and prunes at the same time, a booking intake  *)
(* made is CONFIRMED only with the header of its own offer pinned.         *)
THEOREM ConfirmedIsPinned == Spec => []ConfirmedTruth
<1>1. Inductive => ConfirmedTruth
  BY DEF Inductive
<1> QED
  BY <1>1, InductiveInvariant, PTL

(* The audit log reports every booking event once, and none that did not   *)
(* happen, even when the acknowledgement of a COMMIT is lost.              *)
THEOREM AuditIsExact == Spec => []AuditExactlyOnce
<1>1. Inductive => AuditExactlyOnce
  BY DEF Inductive
<1> QED
  BY <1>1, InductiveInvariant, PTL

(* An idempotency key never makes two bookings, nor does a reference.      *)
THEOREM KeysAreIdempotent == Spec => []OneBookingPerKey
<1>1. Inductive => OneBookingPerKey
  BY DEF Inductive
<1> QED
  BY <1>1, InductiveInvariant, PTL

(* A supplier reference is recorded only after the supplier's reservation. *)
THEOREM SupplierRefsAreReal == Spec => []SupplierRefIsReal
<1>1. Inductive => SupplierRefIsReal
  BY DEF Inductive
<1> QED
  BY <1>1, InductiveInvariant, PTL
=============================================================================
