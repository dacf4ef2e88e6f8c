-------------------------- MODULE BookingDocuments --------------------------
(***************************************************************************)
(* BookingConfirmationService.issue: render a CONFIRMED booking as a JSON  *)
(* document, store the blob, and issue it under the tenant's next number.  *)
(*                                                                         *)
(* The bookings it reads change underneath it by the whole steps of        *)
(* BookingTruth, which the booking services implement.  One tenant is      *)
(* modelled, and the one document type there is.                           *)
(***************************************************************************)
EXTENDS Naturals, FiniteSets

CONSTANTS
  Ids, Legacy, Keys, Refs, Offers, NoKey, NoRef, NoOffer,  \* as in BookingTruth
  Workers,  \* issue requests that can run at the same time
  NoId

VARIABLES bookings, pins, fxLocks, audit  \* as in BookingTruth

VARIABLES
  sequence,   \* doc_number_sequence.last_issued_number; 0: no row yet
  documents,  \* doc_booking_document, by booking
  docAudit,   \* how often BOOKING_DOCUMENT_CREATED was written for a booking
  blobs,      \* the object storage
  pc,         \* where each worker's request is
  req,        \* its local variables
  tx,         \* its transaction
  answer      \* the answer it gave last

Truth == INSTANCE BookingTruth
           WITH bookings <- bookings, pins <- pins, fxLocks <- fxLocks, audit <- audit

ASSUME NullIdAssumption == NoId \notin Ids

truth == <<bookings, pins, fxLocks, audit>>

issued == <<sequence, documents, docAudit>>

vars == <<bookings, pins, fxLocks, audit, sequence, documents, docAudit, blobs, pc, req, tx, answer>>

(* What is rendered: the pinned rows, and from the booking's own row its   *)
(* supplier_confirmation_ref (here: whether it is there).                  *)
Content == [id : Ids, pin : [offer : Offers \cup {NoOffer}, components : BOOLEAN, policy : BOOLEAN],
            supplier : BOOLEAN]

NoContent == [id |-> NoId]

(* Number 0: the booking has no document.                                  *)
NoDocument == [number |-> 0, blob |-> NoContent]

IssueSteps == {"load_pinned", "find_existing", "put_blob", "allocate_number", "insert_issued",
               "issue_commit", "issue_reread"}

(* What a request has read: the booking's id and supplier column, then its *)
(* pinned rows; and the content once it is rendered.                       *)
NoRequest == [id |-> NoId, supplier |-> FALSE, content |-> NoContent]

(* A transaction that took a number holds the sequence row until it ends.  *)
NoTx == [number |-> 0, document |-> NoDocument]

NoAnswer == [outcome |-> "NONE", id |-> NoId, number |-> 0]

Outcomes == {"NONE", "ISSUED", "REPLAYED", "NOT_FOUND", "REFUSED", "ERROR"}

TypeOK ==
  /\ sequence \in Nat
  /\ documents \in [Ids -> [number : Nat, blob : Content \cup {NoContent}]]
  /\ docAudit \in [Ids -> Nat]
  /\ blobs \subseteq Content
  /\ pc \in [Workers -> {"idle"} \cup IssueSteps]
  /\ req \in [Workers -> [id : Ids \cup {NoId}, supplier : BOOLEAN,
                          content : Content \cup {NoContent}]]
  /\ tx \in [Workers -> [number : Nat, document : [number : Nat, blob : Content \cup {NoContent}]]]
  /\ answer \in [Workers -> [outcome : Outcomes, id : Ids \cup {NoId}, number : Nat]]

Init ==
  /\ Truth!Init
  /\ sequence = 0
  /\ documents = [b \in Ids |-> NoDocument]
  /\ docAudit = [b \in Ids |-> 0]
  /\ blobs = {}
  /\ pc = [w \in Workers |-> "idle"]
  /\ req = [w \in Workers |-> NoRequest]
  /\ tx = [w \in Workers |-> NoTx]
  /\ answer = [w \in Workers |-> NoAnswer]
-----------------------------------------------------------------------------
Issued(b) == documents[b] # NoDocument

Goto(w, s) == pc' = [pc EXCEPT ![w] = s]

(* The request ends; a transaction still open is rolled back.              *)
Reply(w, o, b, n) ==
  /\ Goto(w, "idle")
  /\ answer' = [answer EXCEPT ![w] = [outcome |-> o, id |-> b, number |-> n]]
  /\ req' = [req EXCEPT ![w] = NoRequest]
  /\ tx' = [tx EXCEPT ![w] = NoTx]

Refuse(w, o) == Reply(w, o, NoId, 0)

(* loadBookingHeader: the only look at the booking's status.               *)
LoadHeader(w, b) ==
  LET row == bookings[b] IN
  /\ pc[w] = "idle"
  /\ \/ row.status = "ABSENT" /\ Refuse(w, "NOT_FOUND")
     \/ row.status \notin {"ABSENT", "CONFIRMED"} /\ Refuse(w, "REFUSED")
     \/ /\ row.status = "CONFIRMED"
        /\ Goto(w, "load_pinned")
        /\ req' = [req EXCEPT ![w] = [NoRequest EXCEPT !.id = b, !.supplier = row.supplier]]
        /\ answer' = [answer EXCEPT ![w] = NoAnswer]
        /\ UNCHANGED tx
  /\ UNCHANGED <<truth, issued, blobs>>

(* loadPinnedOffer: a booking confirmed before bookings were pinned has    *)
(* nothing to render.                                                      *)
LoadPinnedOffer(w) ==
  /\ pc[w] = "load_pinned"
  /\ \/ pins[req[w].id] = Truth!Unpinned /\ Refuse(w, "REFUSED")
     \/ /\ pins[req[w].id] # Truth!Unpinned
        /\ Goto(w, "find_existing")
        /\ UNCHANGED <<req, tx, answer>>
  /\ UNCHANGED <<truth, issued, blobs>>

(* The replay fast path, on the pool.                                      *)
FindExisting(w) ==
  LET b == req[w].id IN
  /\ pc[w] = "find_existing"
  /\ \/ Issued(b) /\ Reply(w, "REPLAYED", b, documents[b].number)
     \/ /\ ~Issued(b)
        /\ Goto(w, "put_blob")
        /\ UNCHANGED <<req, tx, answer>>
  /\ UNCHANGED <<truth, issued, blobs>>

(* Mutant of PutBlob: the upload is not awaited, and may yet fail.         *)
PutBlobUnawaited(w) ==
  LET b == req[w].id
      content == [id |-> b, pin |-> pins[b], supplier |-> req[w].supplier] IN
  /\ pc[w] = "put_blob"
  /\ req' = [req EXCEPT ![w].content = content]
  /\ Goto(w, "allocate_number")
  /\ \E arrives \in BOOLEAN : blobs' = IF arrives THEN blobs \cup {content} ELSE blobs
  /\ UNCHANGED <<truth, issued, tx, answer>>

(* Render and upload, outside any transaction.  The other pinned rows are  *)
(* immutable by now: they are read in the same step.                       *)
PutBlob(w) ==
  LET b == req[w].id
      content == [id |-> b, pin |-> pins[b], supplier |-> req[w].supplier] IN
  /\ pc[w] = "put_blob"
  /\ req' = [req EXCEPT ![w].content = content]
  /\ blobs' = blobs \cup {content}
  /\ Goto(w, "allocate_number")
  /\ UNCHANGED <<truth, issued, tx, answer>>

(* Another transaction took a number, and so holds the sequence row.       *)
SequenceLocked == \E v \in Workers : tx[v].number # 0

(* Mutant of AllocateNumber: SELECT, then UPDATE, with no row lock.        *)
AllocateUnlocked(w) ==
  /\ pc[w] = "allocate_number"
  /\ tx' = [tx EXCEPT ![w].number = sequence + 1]
  /\ Goto(w, "insert_issued")
  /\ UNCHANGED <<truth, issued, blobs, req, answer>>

(* BEGIN and the upsert, which waits for whoever holds the sequence row    *)
(* and then counts on from what that one committed.                        *)
AllocateNumber(w) ==
  /\ pc[w] = "allocate_number"
  /\ ~SequenceLocked
  /\ tx' = [tx EXCEPT ![w].number = sequence + 1]
  /\ Goto(w, "insert_issued")
  /\ UNCHANGED <<truth, issued, blobs, req, answer>>

(* Mutant of InsertIssued: ON CONFLICT DO UPDATE in place of the unique    *)
(* index, so the last writer wins.                                         *)
InsertOverwriting(w) ==
  /\ pc[w] = "insert_issued"
  /\ tx' = [tx EXCEPT ![w].document = [number |-> tx[w].number, blob |-> req[w].content]]
  /\ Goto(w, "issue_commit")
  /\ UNCHANGED <<truth, issued, blobs, req, answer>>

(* The unique index makes an insert wait for a transaction that has        *)
(* inserted a document of the same booking and has not ended yet.          *)
IndexHeld(w) == \E v \in Workers \ {w} : tx[v].document # NoDocument /\ req[v].id = req[w].id

(* The insert and the audit event; a document the booking has by now makes *)
(* it fail on the unique index, and the number is rolled back with it.     *)
InsertIssued(w) ==
  /\ pc[w] = "insert_issued"
  /\ ~IndexHeld(w)
  /\ \/ /\ ~Issued(req[w].id)
        /\ tx' = [tx EXCEPT ![w].document = [number |-> tx[w].number, blob |-> req[w].content]]
        /\ Goto(w, "issue_commit")
     \/ /\ Issued(req[w].id)
        /\ tx' = [tx EXCEPT ![w] = NoTx]
        /\ Goto(w, "issue_reread")
  /\ UNCHANGED <<truth, issued, blobs, req, answer>>

RereadWinner(w) ==
  LET b == req[w].id IN
  /\ pc[w] = "issue_reread"
  /\ Reply(w, "REPLAYED", b, documents[b].number)
  /\ UNCHANGED <<truth, issued, blobs>>

(* Mutant of CommitIssue: the event is emitted once the COMMIT is          *)
(* acknowledged.                                                           *)
CommitThenEmit(w) ==
  LET b == req[w].id IN
  /\ pc[w] = "issue_commit"
  /\ sequence' = tx[w].number
  /\ documents' = [documents EXCEPT ![b] = tx[w].document]
  /\ \E ack \in BOOLEAN :
       /\ docAudit' = IF ack THEN [docAudit EXCEPT ![b] = @ + 1] ELSE docAudit
       /\ IF ack THEN Reply(w, "ISSUED", b, tx[w].number) ELSE Refuse(w, "ERROR")
  /\ UNCHANGED <<truth, blobs>>

(* COMMIT: number, document and audit event appear together, even when the *)
(* acknowledgement is lost on its way to the service.                      *)
CommitIssue(w) ==
  LET b == req[w].id IN
  /\ pc[w] = "issue_commit"
  /\ sequence' = tx[w].number
  /\ documents' = [documents EXCEPT ![b] = tx[w].document]
  /\ docAudit' = [docAudit EXCEPT ![b] = @ + 1]
  /\ \/ Reply(w, "ISSUED", b, tx[w].number)
     \/ Refuse(w, "ERROR")
  /\ UNCHANGED <<truth, blobs>>

(* Mutant of IssueFails: the number is committed although the issue failed.*)
FailKeepingNumber(w) ==
  /\ pc[w] # "idle"
  /\ sequence' = IF tx[w].number # 0 THEN tx[w].number ELSE sequence
  /\ Refuse(w, "ERROR")
  /\ UNCHANGED <<truth, documents, docAudit, blobs>>

(* Mutant of IssueFails: the catch block forgets the ROLLBACK.             *)
FailHoldingSequence(w) ==
  /\ pc[w] # "idle"
  /\ Goto(w, "idle")
  /\ answer' = [answer EXCEPT ![w] = [NoAnswer EXCEPT !.outcome = "ERROR"]]
  /\ req' = [req EXCEPT ![w] = NoRequest]
  /\ UNCHANGED <<truth, issued, blobs, tx>>

(* A read, the upload, a statement or the process fails: the transaction   *)
(* is rolled back, an uploaded blob stays as an orphan.                    *)
IssueFails(w) ==
  /\ pc[w] # "idle"
  /\ Refuse(w, "ERROR")
  /\ UNCHANGED <<truth, issued, blobs>>

Proceed(w) ==
  \/ LoadPinnedOffer(w)
  \/ FindExisting(w)
  \/ PutBlob(w)
  \/ AllocateNumber(w)
  \/ InsertIssued(w)
  \/ RereadWinner(w)
  \/ CommitIssue(w)

(* The booking services go on meanwhile.                                   *)
BookingsMove == Truth!Next /\ UNCHANGED <<issued, blobs, pc, req, tx, answer>>

Next ==
  \/ \E w \in Workers : (\E b \in Ids : LoadHeader(w, b)) \/ Proceed(w) \/ IssueFails(w)
  \/ BookingsMove

Spec == Init /\ [][Next]_vars

(* As in BookingLifecycle: what is ready runs, and the sequence row is     *)
(* handed to its waiters in turn.                                          *)
Fairness == \A w \in Workers : WF_vars(Proceed(w)) /\ SF_vars(AllocateNumber(w))

FairSpec == Spec /\ Fairness
-----------------------------------------------------------------------------
(* However issues race, fail and are rolled back, the numbers of the       *)
(* documents there are run from 1 to the sequence's last, with no gap and  *)
(* no number given twice.                                                  *)
NumbersRunOn ==
  /\ {documents[b].number : b \in {c \in Ids : Issued(c)}} = 1 .. sequence
  /\ \A b, c \in Ids : Issued(b) /\ Issued(c) /\ b # c =>
       documents[b].number # documents[c].number

(* A committed document has its bytes in the object storage, they are      *)
(* about its booking, and what they show of the offer is what was pinned.  *)
DocumentHasBytes ==
  \A b \in Ids : Issued(b) => /\ documents[b].blob \in blobs
                              /\ documents[b].blob.id = b
                              /\ documents[b].blob.pin = pins[b]

(* The audit log has one BOOKING_DOCUMENT_CREATED per document, and none   *)
(* for an issue that was rolled back; only a booking that was CONFIRMED    *)
(* has a document at all.                                                  *)
DocumentAuditedOnce ==
  \A b \in Ids : /\ docAudit[b] = IF Issued(b) THEN 1 ELSE 0
                 /\ Issued(b) => audit[b]["BOOKING_CONFIRMED"] = 1

(* Everyone who was answered with a document was answered with the one     *)
(* that is there, and only one of them issued it.                          *)
OneDocumentAnswered ==
  /\ \A w \in Workers : answer[w].outcome \in {"ISSUED", "REPLAYED"} =>
       Issued(answer[w].id) /\ answer[w].number = documents[answer[w].id].number
  /\ \A v, w \in Workers : v # w /\ answer[v].outcome = "ISSUED" /\ answer[w].outcome = "ISSUED" =>
       answer[v].number # answer[w].number

(* An issued document is never changed, and a new one takes the number     *)
(* after all the others.                                                   *)
IssuedForGood ==
  [][\A b \in Ids : /\ Issued(b) => documents'[b] = documents[b]
                    /\ documents'[b] # documents[b] =>
                         \A c \in Ids : documents'[b].number > documents[c].number]_vars

(* An issue request is answered, however many queue for the sequence row.  *)
EveryIssueAnswered == \A w \in Workers : pc[w] # "idle" ~> pc[w] = "idle"
=============================================================================
