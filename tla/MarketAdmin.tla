----------------------------- MODULE MarketAdmin -----------------------------
(***************************************************************************)
(* The internal admin API over pricing_markup_rule and merch_promotion:    *)
(* create, patch and soft delete.  Each is a few statements on the pool    *)
(* with nothing around them: a read, when a patch names an end of the      *)
(* window, the write, and the row of admin_audit_log.                      *)
(*                                                                         *)
(* A change is [op, table, id, tenant, keys, fields]: keys are the scope   *)
(* keys a new rule is given, and fields a function on the columns that are *)
(* named, None for null.                                                   *)
(***************************************************************************)
EXTENDS Catalogue

CONSTANTS
  Admins,        \* the requests
  MarketChanges  \* what they may ask for

VARIABLES
  job,      \* what each request does
  adminLog  \* admin_audit_log

marketVars == <<job, adminLog>>

NoJob == [step |-> "idle", change |-> None, wrote |-> FALSE, outcome |-> "NONE"]

Row(change) == {r \in db[change.table] : r.id = change.id /\ r.tenant = change.tenant}

NamesWindow(change) == {"from", "to"} \cap DOMAIN change.fields # {}

(* The columns a body may name, and the numbers it may hold.               *)
RuleColumns == {"scope", "target", "percent", "priority", "from", "to"}

RulePatchColumns == {"percent", "priority", "from", "to", "status"}

PromotionColumns == {"hotel", "tag", "type", "priority", "from", "to"}

PromotionPatchColumns == {"tag", "type", "priority", "from", "to", "status"}

RejectExtraKeys(c) == DOMAIN c.fields \subseteq
  IF c.table = "rules" THEN (IF c.op = "CREATE" THEN RuleColumns ELSE RulePatchColumns)
  ELSE (IF c.op = "CREATE" THEN PromotionColumns ELSE PromotionPatchColumns)

NotNegative(c) == \A f \in {"percent", "priority"} \cap DOMAIN c.fields : c.fields[f] >= 0

(* One scope, one key.                                                     *)
RequireSingleScopeKey(change) ==
  change.table = "rules" => change.keys = {change.fields.scope}

RequireValidWindow(row) == WindowOk(row)

(* A row with the columns that are named in place of those it has.         *)
Over(fields, row) ==
  [c \in DOMAIN row \cup DOMAIN fields |-> IF c \in DOMAIN fields THEN fields[c] ELSE row[c]]

(* The foreign keys of a row, to the account or the hotel it is about.     *)
Referenced(table, row) ==
  IF table = "promotions" THEN \E h \in db.hotels : h.id = row.hotel
  ELSE CASE row.scope = "ACCOUNT" -> \E a \in db.accounts : a.id = row.target
         [] row.scope = "HOTEL" -> \E h \in db.hotels : h.id = row.target
         [] OTHER -> TRUE

(* A CREATE names all of its columns, those it leaves out with None.       *)
ASSUME MarketAssumption == \A c \in MarketChanges :
  /\ c.table \in {"rules", "promotions"}
  /\ c.op = "CREATE" =>
       DOMAIN c.fields = IF c.table = "rules" THEN RuleColumns ELSE PromotionColumns

ChecksOk(table, row) == IF table = "rules" THEN RuleOk(row) ELSE PromotionOk(row)
-----------------------------------------------------------------------------
MarketStays == UNCHANGED <<clock, changes>>

Respond(w, outcome) == job' = [job EXCEPT ![w].step = "done", ![w].outcome = outcome]

GoTo(w, step) == job' = [job EXCEPT ![w].step = step]

(* The body is parsed, and what needs no row is checked.                   *)
Receive(w) == \E c \in MarketChanges :
  /\ job[w] = NoJob
  /\ job' = [job EXCEPT ![w] =
       IF \/ ~RejectExtraKeys(c) \/ ~NotNegative(c)
          \/ c.op = "CREATE" /\ ~(RequireSingleScopeKey(c) /\ RequireValidWindow(c.fields))
       THEN [NoJob EXCEPT !.change = c, !.step = "done", !.outcome = "BAD_REQUEST"]
       ELSE [NoJob EXCEPT !.change = c, !.step =
               IF c.op = "CREATE" THEN "insert" ELSE IF NamesWindow(c) THEN "find" ELSE "update"]]
  /\ UNCHANGED <<adminLog, db, ever, always>> /\ MarketStays

Insert(w) ==
  LET c == job[w].change
      row == Over(c.fields, [id |-> c.id, tenant |-> c.tenant, status |-> "ACTIVE"]) IN
  /\ job[w].step = "insert"
  /\ \A r \in db[c.table] : r.id # c.id
  /\ IF Referenced(c.table, row) /\ ChecksOk(c.table, row)
     THEN /\ Commit(c.table, {}, {row})
          /\ job' = [job EXCEPT ![w].step = "audit", ![w].wrote = TRUE]
     ELSE Respond(w, "CONFLICT") /\ UNCHANGED <<db, ever, always>>
  /\ UNCHANGED adminLog /\ MarketStays

(* The window the patch would make of the row as it is now.                *)
Find(w) ==
  LET c == job[w].change IN
  /\ job[w].step = "find"
  /\ IF \E r \in Row(c) : RequireValidWindow(Over(c.fields, r))
     THEN GoTo(w, "update") ELSE Respond(w, "BAD_REQUEST")
  /\ UNCHANGED <<adminLog, db, ever, always>> /\ MarketStays

(* Mutant of Update: the check pricing_markup_rule_validity_chk is gone.   *)
UpdateUnchecked(w) ==
  LET c == job[w].change IN
  /\ job[w].step = "update"
  /\ IF Row(c) = {} THEN Respond(w, "NOT_FOUND") /\ UNCHANGED <<db, ever, always>>
     ELSE /\ Commit(c.table, Row(c), {Over(c.fields, r) : r \in Row(c)})
          /\ job' = [job EXCEPT ![w].step = "audit", ![w].wrote = TRUE]
  /\ UNCHANGED adminLog /\ MarketStays

(* Mutant of Update: the row is written as the request first saw it.       *)
UpdateStale(w) ==
  LET c == job[w].change
      seen == {r \in Initial[c.table] : r.id = c.id /\ r.tenant = c.tenant}
      old == IF seen = {} THEN Row(c) ELSE seen IN
  /\ job[w].step = "update"
  /\ IF Row(c) = {} THEN Respond(w, "NOT_FOUND") /\ UNCHANGED <<db, ever, always>>
     ELSE IF \E r \in old : ~ChecksOk(c.table, Over(c.fields, r))
     THEN Respond(w, "CONFLICT") /\ UNCHANGED <<db, ever, always>>
     ELSE /\ Commit(c.table, Row(c), {Over(c.fields, r) : r \in old})
          /\ job' = [job EXCEPT ![w].step = "audit", ![w].wrote = TRUE]
  /\ UNCHANGED adminLog /\ MarketStays

(* COALESCE: a column that is not named keeps the value it has now.        *)
Update(w) ==
  LET c == job[w].change IN
  /\ job[w].step = "update"
  /\ IF Row(c) = {} THEN Respond(w, "NOT_FOUND") /\ UNCHANGED <<db, ever, always>>
     ELSE IF \E r \in Row(c) : ~ChecksOk(c.table, Over(c.fields, r))
     THEN Respond(w, "CONFLICT") /\ UNCHANGED <<db, ever, always>>
     ELSE /\ Commit(c.table, Row(c), {Over(c.fields, r) : r \in Row(c)})
          /\ job' = [job EXCEPT ![w].step = "audit", ![w].wrote = TRUE]
  /\ UNCHANGED adminLog /\ MarketStays

WriteAudit(w) ==
  LET c == job[w].change IN
  /\ job[w].step = "audit"
  /\ adminLog' = adminLog \cup {[table |-> c.table, id |-> c.id, op |-> c.op, request |-> w]}
  /\ Respond(w, "OK")
  /\ UNCHANGED <<db, ever, always>> /\ MarketStays

(* A statement fails: 500, and what was written stays.                     *)
JobFails(w) ==
  /\ job[w].step \in {"insert", "find", "update", "audit"}
  /\ Respond(w, "ERROR")
  /\ UNCHANGED <<adminLog, db, ever, always>> /\ MarketStays

MarketStep(w) ==
  \/ Receive(w) \/ Insert(w) \/ Find(w) \/ Update(w) \/ WriteAudit(w) \/ JobFails(w)

MarketInit ==
  /\ job = [w \in Admins |-> NoJob]
  /\ adminLog = {}
=============================================================================
