------------------------------ MODULE AuditTrail ------------------------------
(***************************************************************************)
(* GET /admin/audit/events: one caller pages through the audit events of   *)
(* its tenant, newest first, while transactions commit new ones.  An       *)
(* event's occurred_at is when it was emitted, which is before its         *)
(* transaction commits.                                                    *)
(***************************************************************************)
EXTENDS Catalogue, Sequences

CONSTANTS
  EventIds,    \* the ids newUlid draws
  EventKinds,  \* the tenant and category of the events there may be
  AuditQueries,  \* what callers may ask for: [tenant, canViewSensitive, limit, category, from, to]
  Limits       \* the default, the least and the greatest length of a page

VARIABLES
  inflight,  \* events of transactions that are open
  events,    \* audit_event
  trail      \* the caller's pages

auditVars == <<inflight, events, trail>>

(* A row of audit_event; what an event is emitted for, and the record that *)
(* a query was made.                                                       *)
Event == [at : Nat, id : EventIds, tenant : {x.tenant : x \in EventKinds \cup AuditQueries},
          category : {x.category : x \in EventKinds} \cup {"SECURITY"}]

(* ULIDs are ordered; a page is never empty, and a limit is a number.      *)
ASSUME AuditAssumption ==
  /\ EventIds \subseteq Int /\ None \notin Event
  /\ {Limits.default, Limits.least, Limits.greatest} \subseteq Nat \ {0}
  /\ \A query \in AuditQueries : query.limit \in Int \cup {None}

NoTrail == [step |-> "idle", query |-> None, cursor |-> None, before |-> {}, pages |-> <<>>]

(* 403 for the sensitive category without the permission; 400 for a window *)
(* that ends before it begins.                                             *)
Forbidden(query) == query.category = "SENSITIVE_ACCESS" /\ ~query.canViewSensitive

BadWindow(query) == query.from # None /\ query.to # None /\ query.from > query.to

ClampLimit(raw) ==
  IF raw = None THEN Limits.default
  ELSE IF raw < Limits.least THEN Limits.least
  ELSE IF raw > Limits.greatest THEN Limits.greatest ELSE raw

(* (occurred_at, id) < (occurred_at, id)                                   *)
Older(e, f) == e.at < f.at \/ (e.at = f.at /\ e.id < f.id)

Visible(query, set) ==
  {e \in set : /\ e.tenant = query.tenant
               /\ query.category \in {None, e.category}
               /\ query.from = None \/ e.at >= query.from
               /\ query.to = None \/ e.at < query.to
               /\ query.canViewSensitive \/ e.category # "SENSITIVE_ACCESS"}

(* Mutant of AfterCursor: the cursor is only a time.                       *)
OlderThanCursor(e, cursor) == cursor = None \/ e.at < cursor.at

AfterCursor(e, cursor) == cursor = None \/ Older(e, cursor)

(* The first n of the events, newest first.                                *)
Newest(set, n) == {e \in set : Cardinality({f \in set : Older(e, f)}) < n}
-----------------------------------------------------------------------------
AuditStays == UNCHANGED catalogueVars

(* emitInTransaction, and emit of an event that is not lost.               *)
Emit ==
  /\ \E kind \in EventKinds, id \in EventIds :
       /\ \A e \in inflight \cup events : e.id # id
       /\ inflight' = inflight \cup
            {[at |-> clock, id |-> id, tenant |-> kind.tenant, category |-> kind.category]}
  /\ UNCHANGED <<events, trail>> /\ AuditStays

(* The transaction commits, or it does not.                                *)
EndEmission == \E e \in inflight :
  /\ inflight' = inflight \ {e}
  /\ events' \in {events, events \cup {e}}
  /\ UNCHANGED trail /\ AuditStays

(* The first page is asked for.                                            *)
StartQuery == \E query \in AuditQueries :
  /\ trail.step = "idle"
  /\ trail' = IF Forbidden(query) \/ BadWindow(query)
              THEN [NoTrail EXCEPT !.step = "refused", !.query = query]
              ELSE [NoTrail EXCEPT !.step = "list", !.query = query,
                                   !.before = Visible(query, events)]
  /\ UNCHANGED <<inflight, events>> /\ AuditStays

(* A page: one row more than the limit says that there is another page,    *)
(* and its last row is the cursor.  The query is audited in its turn.      *)
ListEvents ==
  LET limit == ClampLimit(trail.query.limit)
      fetched == Newest({e \in Visible(trail.query, events) : AfterCursor(e, trail.cursor)}, limit + 1)
      page == Newest(fetched, limit)
      last == {e \in page : \A f \in page \ {e} : Older(e, f)}
  IN
  /\ trail.step = "list"
  /\ trail' = [trail EXCEPT
       !.pages = Append(@, page),
       !.cursor = IF fetched = page THEN None ELSE CHOOSE e \in last : TRUE,
       !.step = IF fetched = page THEN "done" ELSE "list"]
  /\ \/ UNCHANGED inflight
     \/ \E id \in EventIds :
          /\ \A e \in inflight \cup events : e.id # id
          /\ inflight' = inflight \cup {[at |-> clock, id |-> id, tenant |-> trail.query.tenant,
                                         category |-> "SECURITY"]}
  /\ UNCHANGED events /\ AuditStays

AuditStep == Emit \/ EndEmission \/ StartQuery \/ ListEvents

AuditInit == inflight = {} /\ events = {} /\ trail = NoTrail

(* Paging neither loses nor repeats an event, whatever is committed        *)
(* between two pages: what the caller may see of the events there were at  *)
(* the first page is on exactly one page, and nothing else of what it may  *)
(* not see is on any (AuditEventRepository.listEvents,                     *)
(* AuditEventService.listEvents).                                          *)
PagesComplete ==
  LET seen == UNION {trail.pages[i] : i \in DOMAIN trail.pages} IN
  /\ trail.step = "done" => trail.before \subseteq seen
  /\ \A i, j \in DOMAIN trail.pages : i # j => trail.pages[i] \cap trail.pages[j] = {}
  /\ \A e \in seen : e \in Visible(trail.query, events)
=============================================================================
