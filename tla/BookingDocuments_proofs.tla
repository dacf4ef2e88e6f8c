----------------------- MODULE BookingDocuments_proofs -----------------------
(***************************************************************************)
(* For every set of bookings and workers: the documents are numbered       *)
(* without a gap, each has its bytes, and each is audited and answered     *)
(* once.  What a request relies on was read some awaits ago; it still      *)
(* holds because a pin is never changed (TruthGoesOn) and because whoever  *)
(* has taken a number holds the sequence row (OneNumberTaken).             *)
(***************************************************************************)
EXTENDS BookingDocuments, TLAPS

Pin == [offer : Offers \cup {NoOffer}, components : BOOLEAN, policy : BOOLEAN]

Statuses == {"ABSENT", "INITIATED", "PENDING_PAYMENT", "CONFIRMED", "CANCELLED", "FAILED",
             "REFUNDED"}

Row == [key : Keys \cup {NoKey}, ref : Refs \cup {NoRef}, offer : Offers \cup {NoOffer},
        status : Statuses, priced : BOOLEAN, supplier : BOOLEAN]

Events == {"BOOKING_CREATED", "BOOKING_CONFIRMED", "BOOKING_SUPPLIER_BOOKED"}

Confirmed(b) == audit[b]["BOOKING_CONFIRMED"] = 1

(* What the documents need to know of the bookings.                        *)
TruthOK ==
  /\ bookings \in [Ids -> Row]
  /\ pins \in [Ids -> Pin]
  /\ audit \in [Ids -> [Events -> Nat]]
  /\ \A b \in Ids : pins[b] # Truth!Unpinned => Confirmed(b)

PinsStay == \A b \in Ids : pins[b] # Truth!Unpinned \/ Confirmed(b) => pins'[b] = pins[b]

ConfirmationsStay == \A b \in Ids : Confirmed(b) => Confirmed(b)'

Rendered == {"allocate_number", "insert_issued", "issue_commit"}

Numbered == {"insert_issued", "issue_commit"}

(* What a request knows at each step.                                      *)
RequestKnows(w) ==
  /\ pc[w] # "idle" => req[w].id \in Ids
  /\ pc[w] \notin {"idle", "load_pinned"} => pins[req[w].id] # Truth!Unpinned
  /\ pc[w] \in Rendered => /\ req[w].content \in blobs
                           /\ req[w].content.id = req[w].id
                           /\ req[w].content.pin = pins[req[w].id]
  /\ tx[w].number = IF pc[w] \in Numbered THEN sequence + 1 ELSE 0
  /\ pc[w] = "issue_commit" =>
       /\ ~Issued(req[w].id)
       /\ tx[w].document = [number |-> tx[w].number, blob |-> req[w].content]
  /\ pc[w] = "issue_reread" => Issued(req[w].id)

OneNumberTaken ==
  \A v, w \in Workers : v # w => pc[v] \notin Numbered \/ pc[w] \notin Numbered

NumbersBounded == \A b \in Ids : Issued(b) => documents[b].number \in 1 .. sequence

NumbersCover == \A n \in 1 .. sequence : \E b \in Ids : Issued(b) /\ documents[b].number = n

NumbersDiffer == \A b, c \in Ids :
  Issued(b) /\ Issued(c) /\ b # c => documents[b].number # documents[c].number

AnswersNameBookings ==
  \A w \in Workers : answer[w].outcome \in {"ISSUED", "REPLAYED"} => answer[w].id \in Ids

Inductive ==
  /\ TypeOK /\ TruthOK
  /\ \A w \in Workers : RequestKnows(w)
  /\ OneNumberTaken
  /\ NumbersBounded /\ NumbersCover /\ NumbersDiffer
  /\ DocumentHasBytes /\ DocumentAuditedOnce
  /\ AnswersNameBookings /\ OneDocumentAnswered
-----------------------------------------------------------------------------
(* What the booking services make of a row.                                *)
LEMMA RowsChange ==
  ASSUME NEW r \in Row
  PROVE  /\ \A s \in Statuses : [r EXCEPT !.status = s] \in Row
         /\ [r EXCEPT !.supplier = TRUE] \in Row
         /\ r.offer \in Offers \cup {NoOffer} /\ r.supplier \in BOOLEAN
  BY DEF Row

(* No row is a row too, and so is an old one of which little is known.     *)
LEMMA RowsAtFirst == Truth!Absent \in Row
  BY DEF Row, Statuses, Truth!Absent

(* Nothing is issued at first, and no booking pinned.                      *)
LEMMA InitInductive == Init => Inductive
<1> SUFFICES ASSUME Init PROVE Inductive
  OBVIOUS
<1> USE DEF Init, NoRequest, NoContent, NoTx, NoAnswer, NoDocument, Issued
<1>1. TypeOK
  BY DEF TypeOK, Outcomes, IssueSteps
<1>2. TruthOK
  <2>1. {Truth!Absent} \cup {[Truth!Absent EXCEPT !.status = s] : s \in {"INITIATED", "CONFIRMED"}}
          \subseteq Row
    BY RowsAtFirst, RowsChange DEF Statuses
  <2>2. bookings \in [Ids -> Row]
    BY <2>1 DEF Truth!Init
  <2>3. pins \in [Ids -> Pin] /\ \A b \in Ids : pins[b] = Truth!Unpinned
    BY DEF Truth!Init, Truth!Unpinned, Pin
  <2>4. audit \in [Ids -> [Events -> Nat]]
    BY DEF Truth!Init, Events
  <2> QED
    BY <2>2, <2>3, <2>4 DEF TruthOK
<1>3. /\ \A w \in Workers : RequestKnows(w)
      /\ OneNumberTaken
  BY DEF RequestKnows, OneNumberTaken, Rendered, Numbered
<1>4. NumbersBounded /\ NumbersCover /\ NumbersDiffer
  BY DEF NumbersBounded, NumbersCover, NumbersDiffer
<1>5. /\ DocumentHasBytes /\ DocumentAuditedOnce
      /\ AnswersNameBookings /\ OneDocumentAnswered
  BY DEF DocumentHasBytes, DocumentAuditedOnce, AnswersNameBookings, OneDocumentAnswered
<1> QED
  BY <1>1, <1>2, <1>3, <1>4, <1>5 DEF Inductive

(* An event written for one booking.                                       *)
LEMMA EventRecorded ==
  ASSUME audit \in [Ids -> [Events -> Nat]], NEW b \in Ids, NEW e \in Events, Truth!Record(b, e)
  PROVE  /\ audit' \in [Ids -> [Events -> Nat]]
         /\ audit[b][e] = 0 /\ audit'[b][e] = 1
         /\ \A c \in Ids, d \in Events : audit[c][d] = 1 => audit'[c][d] = 1
<1>1. audit[b] \in [Events -> Nat]
  OBVIOUS
<1> QED
  BY <1>1 DEF Truth!Record

(* Whatever the booking services do, a pin stays as it is, and so does the *)
(* event of the confirmation that wrote it.                                *)
LEMMA TruthGoesOn ==
  ASSUME TruthOK, Truth!Next \/ UNCHANGED truth
  PROVE  /\ TruthOK'
         /\ PinsStay /\ ConfirmationsStay
<1>1. CASE UNCHANGED truth
  BY <1>1 DEF truth, TruthOK, Confirmed, PinsStay, ConfirmationsStay
<1>2. ASSUME NEW b \in Ids,
             Truth!Create(b) \/ Truth!Confirm(b) \/ Truth!RecordSupplier(b) \/ Truth!MoveStatus(b)
      PROVE  /\ TruthOK'
             /\ PinsStay /\ ConfirmationsStay
  <2>1. CASE Truth!Create(b)
    <3>1. bookings' \in [Ids -> Row]
      BY <2>1 DEF Truth!Create, TruthOK, Row, Statuses
    <3> QED
      BY <2>1, <3>1, EventRecorded DEF Truth!Create, TruthOK, Confirmed, PinsStay,
              ConfirmationsStay, Events
  <2>2. CASE Truth!Confirm(b)
    <3>1. bookings' \in [Ids -> Row]
      BY <2>2, RowsChange DEF Truth!Confirm, TruthOK, Statuses
    <3>2. PICK c, p \in BOOLEAN :
            pins' = [pins EXCEPT
                       ![b] = [offer |-> bookings[b].offer, components |-> c, policy |-> p]]
      BY <2>2 DEF Truth!Confirm
    <3>3. pins' \in [Ids -> Pin]
      <4>1. [offer |-> bookings[b].offer, components |-> c, policy |-> p] \in Pin
        BY RowsChange DEF TruthOK, Pin
      <4> QED
        BY <3>2, <4>1 DEF TruthOK
    <3>4. /\ pins[b] = Truth!Unpinned
          /\ audit' \in [Ids -> [Events -> Nat]]
          /\ audit[b]["BOOKING_CONFIRMED"] = 0 /\ audit'[b]["BOOKING_CONFIRMED"] = 1
          /\ \A d \in Ids : Confirmed(d) => Confirmed(d)'
      BY <2>2, EventRecorded DEF Truth!Confirm, TruthOK, Confirmed, PinsStay,
              ConfirmationsStay, Events
    <3> QED
      BY <3>1, <3>2, <3>3, <3>4 DEF TruthOK, Confirmed, PinsStay, ConfirmationsStay
  <2>3. CASE Truth!RecordSupplier(b)
    <3>1. bookings' \in [Ids -> Row]
      BY <2>3, RowsChange DEF Truth!RecordSupplier, TruthOK
    <3> QED
      BY <2>3, <3>1, EventRecorded DEF Truth!RecordSupplier, TruthOK, Confirmed, PinsStay,
              ConfirmationsStay, Events
  <2>4. CASE Truth!MoveStatus(b)
    <3>1. bookings' \in [Ids -> Row]
      <4>1. PICK s \in Statuses : bookings' = [bookings EXCEPT ![b].status = s]
        BY <2>4 DEF Truth!MoveStatus, Statuses
      <4> QED
        BY <4>1, RowsChange DEF TruthOK
    <3> QED
      BY <2>4, <3>1 DEF Truth!MoveStatus, TruthOK, Confirmed, PinsStay, ConfirmationsStay
  <2> QED
    BY <1>2, <2>1, <2>2, <2>3, <2>4
<1> QED
  BY <1>1, <1>2 DEF Truth!Next

(* The bookings move on under the requests: none of them notices.          *)
LEMMA BookingsMoveOn == Inductive /\ BookingsMove => Inductive'
<1> SUFFICES ASSUME Inductive, BookingsMove PROVE Inductive'
  OBVIOUS
<1>1. TruthOK' /\ PinsStay /\ ConfirmationsStay
  BY TruthGoesOn DEF Inductive, BookingsMove
<1>2. UNCHANGED <<sequence, documents, docAudit, blobs, pc, req, tx, answer>>
  BY DEF BookingsMove, issued
<1>3. TypeOK'
  BY <1>2 DEF Inductive, TypeOK
<1>4. \A w \in Workers : RequestKnows(w)'
  BY <1>1, <1>2 DEF Inductive, RequestKnows, Rendered, PinsStay, Issued
<1>5. OneNumberTaken' /\ NumbersBounded' /\ NumbersCover' /\ NumbersDiffer'
  BY <1>2 DEF Inductive, OneNumberTaken, NumbersBounded, NumbersCover, NumbersDiffer, Issued
<1>6. DocumentHasBytes' /\ DocumentAuditedOnce'
  BY <1>1, <1>2 DEF Inductive, DocumentHasBytes, DocumentAuditedOnce, Confirmed, PinsStay,
                    ConfirmationsStay, Issued
<1>7. AnswersNameBookings' /\ OneDocumentAnswered'
  BY <1>2 DEF Inductive, AnswersNameBookings, OneDocumentAnswered, Issued
<1> QED
  BY <1>1, <1>3, <1>4, <1>5, <1>6, <1>7 DEF Inductive
-----------------------------------------------------------------------------
Requests == [id : Ids \cup {NoId}, supplier : BOOLEAN, content : Content \cup {NoContent}]

Transactions == [number : Nat, document : [number : Nat, blob : Content \cup {NoContent}]]

Answers == [outcome : Outcomes, id : Ids \cup {NoId}, number : Nat]

(* A request goes on to its next step: what it knows there is for the      *)
(* step to show, the other requests do not notice.                         *)
LEMMA Advanced ==
  ASSUME Inductive, NEW w \in Workers, NEW s \in IssueSteps,
         NEW r \in Requests, NEW t \in Transactions,
         UNCHANGED <<truth, issued>>, blobs \subseteq blobs', blobs' \subseteq Content,
         Goto(w, s), req' = [req EXCEPT ![w] = r], tx' = [tx EXCEPT ![w] = t],
         answer' = answer \/ answer' = [answer EXCEPT ![w] = NoAnswer],
         s \in Numbered => \A v \in Workers : v # w => pc[v] \notin Numbered,
         RequestKnows(w)'
  PROVE  Inductive'
<1>1. UNCHANGED <<bookings, pins, fxLocks, audit, sequence, documents, docAudit>>
  BY DEF truth, issued
<1>2. TypeOK'
  <2>1. answer \in [Workers -> Answers] /\ NoAnswer \in Answers
    BY DEF Inductive, TypeOK, Answers, NoAnswer, Outcomes
  <2>2. answer' \in [Workers -> Answers]
    BY <2>1
  <2> QED
    BY <1>1, <2>2 DEF Inductive, TypeOK, Goto, Requests, Transactions, Answers
<1>3. TruthOK'
  BY <1>1 DEF Inductive, TruthOK, Confirmed
<1>4. ASSUME NEW v \in Workers, v # w
      PROVE  pc'[v] = pc[v] /\ req'[v] = req[v] /\ tx'[v] = tx[v]
  BY <1>4 DEF Inductive, TypeOK, Goto
<1>5. pc'[w] = s
  BY DEF Inductive, TypeOK, Goto
<1>6. ASSUME NEW v \in Workers PROVE RequestKnows(v)'
  <2>1. CASE v = w
    BY <2>1
  <2>2. CASE v # w
    BY <1>1, <1>4, <2>2 DEF Inductive, RequestKnows, Rendered, Issued
  <2> QED
    BY <2>1, <2>2
<1>7. OneNumberTaken'
  BY <1>4, <1>5 DEF Inductive, OneNumberTaken
<1>8. NumbersBounded' /\ NumbersCover' /\ NumbersDiffer'
  BY <1>1 DEF Inductive, NumbersBounded, NumbersCover, NumbersDiffer, Issued
<1>9. DocumentHasBytes' /\ DocumentAuditedOnce'
  BY <1>1 DEF Inductive, DocumentHasBytes, DocumentAuditedOnce, Issued
<1>10. AnswersNameBookings' /\ OneDocumentAnswered'
  <2>1. ASSUME NEW v \in Workers
        PROVE  answer'[v] = answer[v] \/ answer'[v].outcome = "NONE"
    BY DEF Inductive, TypeOK, NoAnswer
  <2> QED
    BY <1>1, <2>1 DEF Inductive, AnswersNameBookings, OneDocumentAnswered, Issued
<1> QED
  BY <1>2, <1>3, <1>6, <1>7, <1>8, <1>9, <1>10 DEF Inductive

(* A request ends with an answer that names the document there is, or with *)
(* none; what it had taken is given back.                                  *)
LEMMA Replied ==
  ASSUME Inductive, NEW w \in Workers, NEW o \in Outcomes \ {"ISSUED"},
         NEW b \in Ids \cup {NoId}, NEW n \in Nat, Reply(w, o, b, n),
         UNCHANGED <<truth, issued, blobs>>,
         o = "REPLAYED" => b \in Ids /\ Issued(b) /\ n = documents[b].number
  PROVE  Inductive'
<1>1. UNCHANGED <<bookings, pins, fxLocks, audit, sequence, documents, docAudit, blobs>>
  BY DEF truth, issued
<1>2. TypeOK'
  <2>1. NoRequest \in Requests /\ NoTx \in Transactions
    BY DEF Requests, Transactions, NoRequest, NoTx, NoDocument, NoContent
  <2> QED
    BY <1>1, <2>1 DEF Inductive, TypeOK, Reply, Goto, Requests, Transactions
<1>3. TruthOK'
  BY <1>1 DEF Inductive, TruthOK, Confirmed
<1>4. ASSUME NEW v \in Workers, v # w
      PROVE  pc'[v] = pc[v] /\ req'[v] = req[v] /\ tx'[v] = tx[v] /\ answer'[v] = answer[v]
  BY <1>4 DEF Inductive, TypeOK, Reply, Goto
<1>5. /\ pc'[w] = "idle" /\ tx'[w].number = 0
      /\ answer'[w] = [outcome |-> o, id |-> b, number |-> n]
  BY DEF Inductive, TypeOK, Reply, Goto, NoTx
<1>6. ASSUME NEW v \in Workers PROVE RequestKnows(v)'
  <2>1. CASE v = w
    BY <1>5, <2>1 DEF RequestKnows, Rendered, Numbered
  <2>2. CASE v # w
    BY <1>1, <1>4, <2>2 DEF Inductive, RequestKnows, Rendered, Issued
  <2> QED
    BY <2>1, <2>2
<1>7. OneNumberTaken'
  BY <1>4, <1>5 DEF Inductive, OneNumberTaken, Numbered
<1>8. NumbersBounded' /\ NumbersCover' /\ NumbersDiffer'
  BY <1>1 DEF Inductive, NumbersBounded, NumbersCover, NumbersDiffer, Issued
<1>9. DocumentHasBytes' /\ DocumentAuditedOnce'
  BY <1>1 DEF Inductive, DocumentHasBytes, DocumentAuditedOnce, Issued
<1>10. AnswersNameBookings' /\ OneDocumentAnswered'
  BY <1>1, <1>4, <1>5 DEF Inductive, AnswersNameBookings, OneDocumentAnswered, Issued
<1> QED
  BY <1>2, <1>3, <1>6, <1>7, <1>8, <1>9, <1>10 DEF Inductive
(* What a COMMIT does to the documents.                                    *)
LEMMA DocumentAdded ==
  ASSUME Inductive, NEW w \in Workers, CommitIssue(w)
  PROVE  /\ req[w].id \in Ids /\ ~Issued(req[w].id) /\ documents'[req[w].id] # NoDocument
         /\ sequence' = sequence + 1
         /\ documents'[req[w].id] = [number |-> sequence + 1, blob |-> req[w].content]
         /\ \A c \in Ids : c # req[w].id => documents'[c] = documents[c]
<1>1. /\ RequestKnows(w) /\ pc[w] = "issue_commit" /\ sequence \in Nat
      /\ documents \in [Ids -> [number : Nat, blob : Content \cup {NoContent}]]
  BY DEF Inductive, TypeOK, CommitIssue
<1>2. /\ req[w].id \in Ids /\ ~Issued(req[w].id)
      /\ tx[w].number = sequence + 1
      /\ tx[w].document = [number |-> sequence + 1, blob |-> req[w].content]
  BY <1>1 DEF RequestKnows, Numbered
<1>3. /\ sequence' = sequence + 1
      /\ documents'[req[w].id] = [number |-> sequence + 1, blob |-> req[w].content]
      /\ \A c \in Ids : c # req[w].id => documents'[c] = documents[c]
  BY <1>1, <1>2 DEF CommitIssue
<1>4. documents'[req[w].id] # NoDocument
  BY <1>1, <1>2, <1>3 DEF Issued, NoDocument, CommitIssue
<1> QED
  BY <1>2, <1>3, <1>4

(* The new document takes the next number, and the sequence row with it.   *)
LEMMA Committed ==
  ASSUME Inductive, NEW w \in Workers, CommitIssue(w)
  PROVE  Inductive'
<1> DEFINE b == req[w].id
<1>1. /\ b \in Ids /\ ~Issued(b) /\ documents'[b] # NoDocument /\ sequence' = sequence + 1
      /\ documents'[b] = [number |-> sequence + 1, blob |-> req[w].content]
      /\ \A c \in Ids : c # b => documents'[c] = documents[c]
  BY DocumentAdded
<1>2. /\ RequestKnows(w) /\ pc[w] = "issue_commit" /\ sequence \in Nat
      /\ tx[w].number = sequence + 1
      /\ tx[w].document = [number |-> sequence + 1, blob |-> req[w].content]
  BY DEF Inductive, TypeOK, CommitIssue, RequestKnows, Numbered
<1>3. /\ UNCHANGED <<bookings, pins, fxLocks, audit, blobs>>
      /\ docAudit' = [docAudit EXCEPT ![b] = @ + 1]
      /\ documents' = [documents EXCEPT ![b] = tx[w].document]
  BY DEF CommitIssue, truth
<1>4. PICK o \in {"ISSUED", "ERROR"}, i \in Ids \cup {NoId}, n \in Nat :
        /\ Reply(w, o, i, n)
        /\ o = "ISSUED" => i = b /\ n = sequence + 1
  <2>1. CASE Reply(w, "ISSUED", b, tx[w].number)
    BY <1>1, <1>2, <2>1
  <2>2. CASE Refuse(w, "ERROR")
    BY <2>2 DEF Refuse
  <2> QED
    BY <2>1, <2>2 DEF CommitIssue
<1>5. /\ pc'[w] = "idle" /\ tx'[w].number = 0
      /\ answer'[w] = [outcome |-> o, id |-> i, number |-> n]
  BY <1>4 DEF Inductive, TypeOK, Reply, Goto, NoTx
<1>6. ASSUME NEW v \in Workers, v # w
      PROVE  /\ pc'[v] = pc[v] /\ req'[v] = req[v] /\ tx'[v] = tx[v] /\ answer'[v] = answer[v]
             /\ pc[v] \notin Numbered
  BY <1>2, <1>4, <1>6 DEF Inductive, TypeOK, Reply, Goto, OneNumberTaken, Numbered
<1>7. TypeOK'
  <2>1. NoRequest \in Requests /\ NoTx \in Transactions
    BY DEF Requests, Transactions, NoRequest, NoTx, NoDocument, NoContent
  <2>2. pc' \in [Workers -> {"idle"} \cup IssueSteps] /\ req' \in [Workers -> Requests]
        /\ tx' \in [Workers -> Transactions]
    BY <1>4, <2>1 DEF Inductive, TypeOK, Reply, Goto, Requests, Transactions
  <2>3. [outcome |-> o, id |-> i, number |-> n] \in Answers
    BY DEF Answers, Outcomes
  <2>4. answer' \in [Workers -> Answers]
    BY <1>4, <2>3 DEF Inductive, TypeOK, Reply, Answers
  <2>5. documents' \in [Ids -> [number : Nat, blob : Content \cup {NoContent}]]
    BY <1>3 DEF Inductive, TypeOK
  <2>6. docAudit' \in [Ids -> Nat] /\ sequence' \in Nat
    BY <1>1, <1>2, <1>3 DEF Inductive, TypeOK
  <2> QED
    BY <1>3, <2>2, <2>4, <2>5, <2>6 DEF Inductive, TypeOK, Requests, Transactions, Answers
<1>8. TruthOK'
  BY <1>3 DEF Inductive, TruthOK, Confirmed
<1>9. ASSUME NEW v \in Workers PROVE RequestKnows(v)'
  <2>1. CASE v = w
    BY <1>5, <2>1 DEF RequestKnows, Rendered, Numbered
  <2>2. CASE v # w
    <3>1. RequestKnows(v) /\ pc[v] \notin Numbered
      BY <1>6, <2>2 DEF Inductive
    <3>2. pc[v] = "issue_reread" => documents'[req[v].id] # NoDocument
      BY <1>1, <3>1 DEF RequestKnows, Issued
    <3> QED
      BY <1>3, <1>6, <2>2, <3>1, <3>2 DEF RequestKnows, Rendered, Numbered, Issued
  <2> QED
    BY <2>1, <2>2
<1>10. OneNumberTaken'
  BY <1>5, <1>6 DEF OneNumberTaken, Numbered
<1>11. NumbersBounded' /\ NumbersDiffer'
  <2>1. ASSUME NEW c \in Ids, c # b
        PROVE  /\ documents'[c] = documents[c] /\ (documents'[c] # NoDocument <=> Issued(c))
               /\ Issued(c) => documents[c].number \in 1 .. sequence
    BY <1>1, <2>1 DEF Inductive, NumbersBounded, Issued
  <2>2. NumbersBounded'
    BY <1>1, <1>2, <2>1 DEF NumbersBounded, Issued
  <2>3. NumbersDiffer'
    BY <1>1, <1>2, <2>1 DEF Inductive, NumbersDiffer, Issued
  <2> QED
    BY <2>2, <2>3
<1>12. NumbersCover'
  <2> SUFFICES ASSUME NEW n_0 \in 1 .. sequence'
               PROVE  \E c \in Ids : documents'[c] # NoDocument /\ documents'[c].number = n_0
    BY DEF NumbersCover, Issued
  <2>1. CASE n_0 = sequence + 1
    BY <1>1, <2>1
  <2>2. CASE n_0 # sequence + 1
    <3>1. PICK c \in Ids : Issued(c) /\ documents[c].number = n_0
      BY <1>1, <1>2, <2>2 DEF Inductive, NumbersCover
    <3> QED
      BY <1>1, <3>1 DEF Issued
  <2> QED
    BY <2>1, <2>2
<1>13. DocumentHasBytes' /\ DocumentAuditedOnce'
  <2>1. /\ req[w].content \in blobs /\ req[w].content.id = b /\ req[w].content.pin = pins[b]
        /\ audit[b]["BOOKING_CONFIRMED"] = 1 /\ docAudit[b] = 0
    BY <1>1, <1>2 DEF Inductive, RequestKnows, Rendered, TruthOK, Confirmed, DocumentAuditedOnce
  <2>2. docAudit'[b] = 1 /\ \A c \in Ids : c # b => docAudit'[c] = docAudit[c]
    BY <1>1, <1>3, <2>1 DEF Inductive, TypeOK
  <2> QED
    BY <1>1, <1>3, <2>1, <2>2 DEF Inductive, DocumentHasBytes, DocumentAuditedOnce, Issued
<1>14. AnswersNameBookings' /\ OneDocumentAnswered'
  <2>1. ASSUME NEW v \in Workers, v # w, answer'[v].outcome \in {"ISSUED", "REPLAYED"}
        PROVE  /\ answer'[v] = answer[v] /\ answer[v].id \in Ids
               /\ Issued(answer[v].id) /\ documents'[answer[v].id] # NoDocument
               /\ answer[v].number = documents[answer[v].id].number
               /\ documents'[answer[v].id] = documents[answer[v].id]
               /\ answer[v].number # sequence + 1
    <3>1. answer'[v] = answer[v] /\ answer[v].id \in Ids /\ Issued(answer[v].id)
          /\ answer[v].number = documents[answer[v].id].number
      BY <1>6, <2>1 DEF Inductive, AnswersNameBookings, OneDocumentAnswered
    <3>2. documents'[answer[v].id] = documents[answer[v].id]
      BY <1>1, <3>1
    <3>3. answer[v].number \in 1 .. sequence
      BY <3>1 DEF Inductive, NumbersBounded
    <3> QED
      BY <1>2, <3>1, <3>2, <3>3 DEF Issued
  <2>2. AnswersNameBookings'
    BY <1>1, <1>4, <1>5, <2>1 DEF AnswersNameBookings
  <2>3. OneDocumentAnswered'
    BY <1>1, <1>4, <1>5, <1>6, <2>1 DEF Inductive, OneDocumentAnswered, Issued
  <2> QED
    BY <2>2, <2>3
<1> QED
  BY <1>7, <1>8, <1>9, <1>10, <1>11, <1>12, <1>13, <1>14 DEF Inductive
-----------------------------------------------------------------------------
(* A step of one request.                                                  *)
LEMMA RequestSteps ==
  ASSUME Inductive, NEW w \in Workers,
         (\E b \in Ids : LoadHeader(w, b)) \/ Proceed(w) \/ IssueFails(w)
  PROVE  Inductive'
<1>1. /\ RequestKnows(w) /\ req[w] \in Requests /\ tx[w] \in Transactions
      /\ sequence \in Nat /\ blobs \subseteq Content
      /\ pc \in [Workers -> {"idle"} \cup IssueSteps]
      /\ documents \in [Ids -> [number : Nat, blob : Content \cup {NoContent}]]
      /\ req = [req EXCEPT ![w] = req[w]] /\ tx = [tx EXCEPT ![w] = tx[w]]
  BY DEF Inductive, TypeOK, Requests, Transactions
<1>2. pc[w] # "idle" => req[w].id \in Ids
  BY <1>1 DEF RequestKnows
<1>3. \A o \in {"NOT_FOUND", "REFUSED", "ERROR"} :
        Refuse(w, o) /\ UNCHANGED <<truth, issued, blobs>> => Inductive'
  BY Replied DEF Refuse, Outcomes
<1>4. ASSUME NEW b \in Ids, LoadHeader(w, b) PROVE Inductive'
  <2>1. CASE bookings[b].status = "CONFIRMED"
    <3> DEFINE r == [NoRequest EXCEPT !.id = b, !.supplier = bookings[b].supplier]
    <3>1. r \in Requests /\ r.id = b
      BY RowsChange DEF Inductive, TruthOK, Requests, NoRequest
    <3>2. pc[w] = "idle" /\ Goto(w, "load_pinned") /\ req' = [req EXCEPT ![w] = r]
      BY <1>4, <2>1 DEF LoadHeader, Refuse, Reply, Goto, NoContent
    <3>3. req'[w] = r /\ pc'[w] = "load_pinned" /\ tx' = tx /\ tx[w].number = 0
      BY <1>1, <1>4, <2>1, <3>2
      DEF LoadHeader, Refuse, Reply, Goto, Inductive, TypeOK, RequestKnows, Numbered
    <3> HIDE DEF r
    <3>4. RequestKnows(w)'
      BY <3>1, <3>3 DEF RequestKnows, Numbered, Rendered
    <3> QED
      BY <1>1, <1>4, <2>1, <3>1, <3>2, <3>3, <3>4, Advanced
      DEF LoadHeader, Refuse, Reply, IssueSteps, Numbered, Goto
  <2>2. CASE bookings[b].status # "CONFIRMED"
    BY <1>3, <1>4, <2>2 DEF LoadHeader
  <2> QED
    BY <2>1, <2>2
<1>5. CASE LoadPinnedOffer(w)
  <2>1. CASE pins[req[w].id] = Truth!Unpinned
    BY <1>3, <1>5, <2>1 DEF LoadPinnedOffer
  <2>2. CASE pins[req[w].id] # Truth!Unpinned
    <3>1. pc'[w] = "find_existing" /\ UNCHANGED <<req, tx, pins, sequence>>
      BY <1>1, <1>5, <2>2 DEF LoadPinnedOffer, Goto, truth, issued
    <3>2. RequestKnows(w)'
      BY <1>1, <1>5, <2>2, <3>1 DEF LoadPinnedOffer, RequestKnows, Numbered, Rendered
    <3> QED
      BY <1>1, <1>5, <2>2, <3>2, Advanced DEF LoadPinnedOffer, IssueSteps, Numbered
  <2> QED
    BY <2>1, <2>2
<1>6. CASE FindExisting(w)
  <2>1. CASE Issued(req[w].id)
    BY <1>1, <1>2, <1>6, <2>1, Replied DEF FindExisting, Outcomes, Issued
  <2>2. CASE ~Issued(req[w].id)
    <3>1. pc'[w] = "put_blob" /\ UNCHANGED <<req, tx, pins, sequence>>
      BY <1>1, <1>6, <2>2 DEF FindExisting, Goto, truth, issued
    <3>2. RequestKnows(w)'
      BY <1>1, <1>6, <2>2, <3>1 DEF FindExisting, RequestKnows, Numbered, Rendered
    <3> QED
      BY <1>1, <1>6, <2>2, <3>2, Advanced DEF FindExisting, IssueSteps, Numbered
  <2> QED
    BY <2>1, <2>2
<1>7. CASE PutBlob(w)
  <2> DEFINE content == [id |-> req[w].id, pin |-> pins[req[w].id], supplier |-> req[w].supplier]
             r == [req[w] EXCEPT !.content = content]
  <2>1. content \in Content
    BY <1>1, <1>2, <1>7 DEF PutBlob, Content, Inductive, TruthOK, Pin, Requests
  <2>2. r \in Requests /\ r.id = req[w].id /\ r.content = content
    BY <1>1, <2>1 DEF Requests
  <2>3. req' = [req EXCEPT ![w] = r] /\ blobs' = blobs \cup {content}
    BY <1>7 DEF PutBlob
  <2>4. req'[w] = r /\ pc'[w] = "allocate_number"
    BY <1>1, <1>7, <2>3 DEF PutBlob, Goto, Inductive, TypeOK
  <2>5. content.id = req[w].id /\ content.pin = pins[req[w].id]
    OBVIOUS
  <2>6. UNCHANGED <<tx, pins, sequence>>
    BY <1>7 DEF PutBlob, truth, issued
  <2> HIDE DEF content, r
  <2>7. RequestKnows(w)'
    BY <1>1, <1>7, <2>2, <2>3, <2>4, <2>5, <2>6 DEF PutBlob, RequestKnows, Numbered, Rendered
  <2>8. blobs \subseteq blobs' /\ blobs' \subseteq Content
    BY <1>1, <2>1, <2>3
  <2> QED
    BY <1>1, <1>7, <2>2, <2>3, <2>7, <2>8, Advanced DEF PutBlob, IssueSteps, Numbered
<1>8. CASE AllocateNumber(w)
  <2> DEFINE t == [tx[w] EXCEPT !.number = sequence + 1]
  <2>1. t \in Transactions /\ t.number = sequence + 1
    BY <1>1 DEF Transactions
  <2>2. tx' = [tx EXCEPT ![w] = t] /\ tx'[w] = t /\ pc'[w] = "insert_issued"
    BY <1>1, <1>8 DEF AllocateNumber, Goto, Inductive, TypeOK
  <2>3. \A v \in Workers : v # w => pc[v] \notin Numbered
    <3> SUFFICES ASSUME NEW v \in Workers PROVE pc[v] \notin Numbered
      OBVIOUS
    <3>1. tx[v].number = IF pc[v] \in Numbered THEN sequence + 1 ELSE 0
      BY DEF Inductive, RequestKnows
    <3>2. tx[v].number = 0
      BY <1>8 DEF AllocateNumber, SequenceLocked
    <3> QED
      BY <1>1, <3>1, <3>2
  <2>4. RequestKnows(w)'
    BY <1>1, <1>8, <2>1, <2>2
    DEF AllocateNumber, RequestKnows, Numbered, Rendered, truth, issued
  <2> QED
    BY <1>1, <1>8, <2>1, <2>2, <2>3, <2>4, Advanced DEF AllocateNumber, IssueSteps
<1>9. CASE InsertIssued(w)
  <2>1. CASE ~Issued(req[w].id)
    <3> DEFINE t == [tx[w] EXCEPT !.document = [number |-> tx[w].number, blob |-> req[w].content]]
    <3>1. t \in Transactions /\ t.number = tx[w].number
          /\ t.document = [number |-> tx[w].number, blob |-> req[w].content]
      BY <1>1 DEF Transactions, Requests
    <3>2. tx' = [tx EXCEPT ![w] = t] /\ tx'[w] = t /\ pc'[w] = "issue_commit"
      BY <1>1, <1>9, <2>1 DEF InsertIssued, Goto, Inductive, TypeOK
    <3>3. \A v \in Workers : v # w => pc[v] \notin Numbered
      BY <1>9 DEF InsertIssued, Inductive, OneNumberTaken, Numbered
    <3>4. RequestKnows(w)'
      BY <1>1, <1>9, <2>1, <3>1, <3>2
      DEF InsertIssued, RequestKnows, Numbered, Rendered, truth, issued, Issued
    <3> QED
      BY <1>1, <1>9, <2>1, <3>1, <3>2, <3>3, <3>4, Advanced DEF InsertIssued, IssueSteps
  <2>2. CASE Issued(req[w].id)
    <3>1. NoTx \in Transactions /\ NoTx.number = 0
      BY DEF Transactions, NoTx, NoDocument, NoContent
    <3>2. tx' = [tx EXCEPT ![w] = NoTx] /\ tx'[w] = NoTx /\ pc'[w] = "issue_reread"
      BY <1>1, <1>9, <2>2 DEF InsertIssued, Goto, Inductive, TypeOK
    <3>3. RequestKnows(w)'
      BY <1>1, <1>9, <2>2, <3>1, <3>2
      DEF InsertIssued, RequestKnows, Numbered, Rendered, truth, issued, Issued
    <3> QED
      BY <1>1, <1>9, <2>2, <3>1, <3>2, <3>3, Advanced DEF InsertIssued, IssueSteps, Numbered
  <2> QED
    BY <2>1, <2>2
<1>10. CASE RereadWinner(w)
  BY <1>1, <1>2, <1>10, Replied DEF RereadWinner, RequestKnows, Outcomes
<1>11. CASE CommitIssue(w)
  BY <1>11, Committed
<1>12. CASE IssueFails(w)
  BY <1>3, <1>12 DEF IssueFails
<1> QED
  BY <1>4, <1>5, <1>6, <1>7, <1>8, <1>9, <1>10, <1>11, <1>12 DEF Proceed

(* Every reachable state satisfies the inductive invariant.                *)
THEOREM DocumentsInductive == Spec => []Inductive
<1>1. Inductive /\ [Next]_vars => Inductive'
  <2>1. CASE Next
    BY <2>1, RequestSteps, BookingsMoveOn DEF Next
  <2>2. CASE UNCHANGED vars
    BY <2>2 DEF vars, Inductive, TypeOK, TruthOK, Confirmed, RequestKnows, OneNumberTaken,
                NumbersBounded, NumbersCover, NumbersDiffer, DocumentHasBytes,
                DocumentAuditedOnce, AnswersNameBookings, OneDocumentAnswered, Issued
  <2> QED
    BY <2>1, <2>2
<1> QED
  BY InitInductive, <1>1, PTL DEF Spec

(* The numbers of the documents are 1 to the sequence's last, each once.   *)
THEOREM NumbersHaveNoGap == Spec => []NumbersRunOn
<1>1. Inductive => NumbersRunOn
  <2> SUFFICES ASSUME Inductive PROVE NumbersRunOn
    OBVIOUS
  <2>1. {documents[b].number : b \in {c \in Ids : Issued(c)}} = 1 .. sequence
    BY DEF Inductive, NumbersBounded, NumbersCover
  <2> QED
    BY <2>1 DEF Inductive, NumbersDiffer, NumbersRunOn
<1> QED
  BY <1>1, DocumentsInductive, PTL

(* A document's bytes are stored, are about its booking, and show what was *)
(* pinned.                                                                 *)
THEOREM DocumentsHaveBytes == Spec => []DocumentHasBytes
<1>1. Inductive => DocumentHasBytes
  BY DEF Inductive
<1> QED
  BY <1>1, DocumentsInductive, PTL

(* There is one audit event for each document, and a confirmation before.  *)
THEOREM DocumentsAuditedOnce == Spec => []DocumentAuditedOnce
<1>1. Inductive => DocumentAuditedOnce
  BY DEF Inductive
<1> QED
  BY <1>1, DocumentsInductive, PTL

(* Who was answered with a document was answered with the one there is.    *)
THEOREM AnsweredWithTheDocument == Spec => []OneDocumentAnswered
<1>1. Inductive => OneDocumentAnswered
  BY DEF Inductive
<1> QED
  BY <1>1, DocumentsInductive, PTL

(* A document is never changed, and a new one is numbered after all.       *)
THEOREM DocumentsAreFinal == Spec => IssuedForGood
<1> DEFINE Kept ==
      \A b \in Ids : /\ Issued(b) => documents'[b] = documents[b]
                     /\ documents'[b] # documents[b] =>
                          \A c \in Ids : documents'[b].number > documents[c].number
<1>1. Inductive /\ [Next]_vars => [Kept]_vars
  <2> SUFFICES ASSUME Inductive, Next PROVE Kept
    OBVIOUS
  <2>1. CASE documents' = documents
    BY <2>1
  <2>2. ASSUME NEW w \in Workers, CommitIssue(w) PROVE Kept
    <3>1. sequence \in Nat
      BY DEF Inductive, TypeOK
    <3>2. ASSUME NEW c \in Ids
          PROVE  documents[c].number \in Nat /\ documents[c].number <= sequence
      <4>1. CASE Issued(c)
        BY <3>1, <4>1 DEF Inductive, NumbersBounded
      <4>2. CASE ~Issued(c)
        BY <3>1, <4>2 DEF Issued, NoDocument
      <4> QED
        BY <4>1, <4>2
    <3>3. /\ ~Issued(req[w].id)
          /\ documents'[req[w].id] = [number |-> sequence + 1, blob |-> req[w].content]
          /\ \A b \in Ids : b # req[w].id => documents'[b] = documents[b]
      <4> HIDE DEF Kept
      <4> QED
        BY <2>2, DocumentAdded
    <3>4. \A c \in Ids : documents'[req[w].id].number > documents[c].number
      BY <3>1, <3>2, <3>3
    <3> QED
      BY <3>3, <3>4
  <2>3. documents' = documents \/ \E w \in Workers : CommitIssue(w)
    BY DEF Next, Proceed, BookingsMove, LoadHeader, LoadPinnedOffer, FindExisting, PutBlob,
           AllocateNumber, InsertIssued, RereadWinner, IssueFails, issued
  <2> QED
    BY <2>1, <2>2, <2>3
<1> QED
  BY <1>1, DocumentsInductive, PTL DEF Spec, IssuedForGood
=============================================================================
